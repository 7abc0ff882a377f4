------------------------------ MODULE SwdAccess ------------------------------
(***************************************************************************)
(* The SWD access layer of the AGDI driver: how a read, write or verify of *)
(* unaligned target memory becomes register accesses of a MEM-AP, and how  *)
(* the driver's copies of the target's registers stay in step with them.   *)
(*                                                                         *)
(* The driver remembers the access port it wants (AP_Sel), the bank it     *)
(* last wrote to DP SELECT (AP_Bank, k_last_ap_bank) and, for each access  *)
(* port, whether it was analysed and what CSW holds (AP_Context).  The     *)
(* target has the real SELECT, CSW and TAR, its sticky flags, and a        *)
(* transfer mode.  A sticky flag makes the target refuse everything except *)
(* a read of CTRL/STAT and a write to ABORT.                               *)
(*                                                                         *)
(* A call holds the layer's mutex from its first transfer to its last, so  *)
(* calls do not overlap; each step of a call is one transfer, with the     *)
(* SELECT it may need first.  Security attributes, patches of a debug      *)
(* description and the suspension of the monitor are left out.  Memory is  *)
(* what the calls have touched, not the bytes in it.                       *)
(***************************************************************************)
EXTENDS Integers, FiniteSets

CONSTANTS
    AP,         \* access ports
    CpuAP,      \* the one of the debugged CPU
    PageSize,   \* RWPage: the target's address increment wraps at this boundary
    Requests,   \* calls: function, address, bytes, words that the target may refuse,
                \* words that differ from the caller's buffer
    MaxLost     \* transfers whose answer the link may lose

Ops == {"read", "write", "verify", "regs", "recover"}
RequestType ==
    [op : Ops, adr : Nat, many : Nat, refused : SUBSET Nat, differs : SUBSET Nat]

ASSUME SwdAssumption ==
    /\ CpuAP \in AP
    /\ PageSize \in Nat \ {0}
    /\ PageSize % 4 = 0
    /\ Requests \subseteq RequestType
    /\ \A r \in Requests : r.op \in {"read", "write", "verify"}
    /\ MaxLost \in Nat

VARIABLES
    \* the driver
    apSel,      \* AP_Sel
    apBank,     \* AP_Bank
    lastBank,   \* k_last_ap_bank
    ctx,        \* AP_Context: known when the ID was read, and CSW_Val_Base
    \* the target
    sel,        \* DP SELECT
    csw,        \* CSW of each access port: access size and address increment
    tar,        \* TAR of each access port
    flags,      \* "err": STICKYERR or WDATAERR; "cmp": STICKYCMP
    mode,       \* TRNMODE
    \* the call
    pc,
    adr,        \* *nAdr
    many,       \* nMany
    how,        \* one access, a block, or the slow accesses after a block
    n,          \* bytes of it that are left
    res,        \* status of the last call
    \* history
    req,        \* the last call and the state it started in
    touched,    \* the bytes it transferred
    lost        \* answers lost so far

hostVars   == <<apSel, apBank, lastBank, ctx>>
selectVars == <<apBank, lastBank, sel>>
targetVars == <<sel, csw, tar, flags, mode>>
loopVars   == <<adr, many, how, n>>
callVars   == <<pc, adr, many, how, n, res>>
swdVars    == <<hostVars, targetVars, callVars, req, touched, lost>>

DebugRegs == -1             \* DBG_Addr, outside the memory of the model
Banks == {0, 1, 15}         \* bank of CSW, TAR and DRW, of BD0 to BD3, of IDR
Sizes == {1, 2, 4}
Csw == [size : Sizes, inc : {"off", "single", "packed"}]
Pcs == {"idle", "next", "switch", "test8", "test16", "bank", "size", "tar", "data", "repeat",
        "arm", "compare", "sticky", "check", "restore", "registers"}

SwdTypeOK ==
    /\ apSel \in AP
    /\ apBank \in Banks
    /\ lastBank \in Banks
    /\ ctx \in [AP -> [known : BOOLEAN, csw : Csw]]
    /\ sel \in [ap : AP, bank : Banks]
    /\ csw \in [AP -> Csw]
    /\ tar \in [AP -> Int]
    /\ flags \in SUBSET {"err", "cmp"}
    /\ mode \in {"normal", "verify"}
    /\ pc \in Pcs
    /\ adr \in Nat
    /\ many \in Nat
    /\ how \in {"single", "block", "slow"}
    /\ n \in Nat
    /\ res \in {"none", "ok", "memory", "failed"}
    /\ req \in [op : Ops, adr : Nat, many : Nat, refused : SUBSET Nat,
                differs : SUBSET Nat, ap : AP, sound : BOOLEAN, lost : Nat]
    /\ lost \in 0 .. MaxLost

----------------------------------------------------------------------------
(* The session is sound: nothing is sticky and, for the selected access    *)
(* port, what the driver remembers is what the target has.                 *)
Sound ==
    /\ flags = {}
    /\ mode = "normal"
    /\ ctx[apSel].known
    /\ csw[apSel] = ctx[apSel].csw
    /\ apBank = 0 => sel = [ap |-> apSel, bank |-> 0]

\* DebugInit is over: the port of the CPU was analysed and a block was read
\* through it.  CSW_Val_Base of the others has no size and no increment yet.
SwdInit ==
    /\ apSel = CpuAP
    /\ apBank = 0
    /\ lastBank = 0
    /\ ctx = [a \in AP |->
                IF a = CpuAP
                THEN [known |-> TRUE, csw |-> [size |-> 4, inc |-> "single"]]
                ELSE [known |-> FALSE, csw |-> [size |-> 1, inc |-> "off"]]]
    /\ sel = [ap |-> CpuAP, bank |-> 0]
    /\ csw = [a \in AP |-> [size |-> 4, inc |-> IF a = CpuAP THEN "single" ELSE "off"]]
    /\ tar = [a \in AP |-> 0]
    /\ flags = {}
    /\ mode = "normal"
    /\ pc = "idle"
    /\ adr = 0
    /\ many = 0
    /\ how = "single"
    /\ n = 0
    /\ res = "none"
    /\ req = [op |-> "read", adr |-> 0, many |-> 0, refused |-> {}, differs |-> {},
              ap |-> CpuAP, sound |-> TRUE, lost |-> 0]
    /\ touched = {}
    /\ lost = 0

----------------------------------------------------------------------------
(* How a call ends, and what a failed step does.                           *)
Finish(r) ==
    /\ pc' = "idle"
    /\ res' = r
    /\ many' = 0
    /\ how' = "single"
    /\ n' = 0
    /\ UNCHANGED adr

Go(p) ==
    /\ pc' = p
    /\ UNCHANGED <<loopVars, res>>

\* A memory error of a block starts the slow accesses, any other ends the call.
Fail(r) ==
    IF r = "memory" /\ how = "block"
    THEN /\ how' = "slow"
         /\ pc' = "switch"
         /\ UNCHANGED <<adr, many, n, res>>
    ELSE Finish(r)

Lose ==
    /\ lost < MaxLost
    /\ lost' = lost + 1

\* Mutant: the piece is repeated.
MutAdvance(k) == UNCHANGED <<adr, many>>

Advance(k) ==
    /\ adr' = adr + k
    /\ many' = many - k

----------------------------------------------------------------------------
(* SELECT, and the registers of the access port behind it.                 *)
NeedSelect(b) == b # apBank \/ lastBank # apBank
Selected(b) == [ap |-> apSel, bank |-> b]

\* The part of ReadAP and WriteAP that brings the bank in.
ApSelect(b) ==
    /\ flags = {}
    /\ sel' = IF NeedSelect(b) THEN Selected(b) ELSE sel
    /\ apBank' = IF NeedSelect(b) THEN b ELSE apBank
    /\ lastBank' = IF NeedSelect(b) THEN b ELSE lastBank

\* SELECT may have reached a target that is not sticky although its answer is lost.
MaybeSelected(s) == IF flags = {} THEN {sel, s} ELSE {sel}

\* WriteDP(DP_SELECT, s): the driver's copy is the caller's business.
WriteSelect(s, bank1, go) ==
    \/ /\ flags = {}
       /\ sel' = s
       /\ apBank' = bank1
       /\ go
       /\ UNCHANGED lost
    \/ /\ flags # {}
       /\ Fail("failed")
       /\ UNCHANGED <<sel, apBank, lost>>
    \/ /\ Lose
       /\ sel' \in MaybeSelected(s)
       /\ Fail("failed")
       /\ UNCHANGED apBank

\* The access port that an AP access in bank b reaches.
Reached(b) == IF NeedSelect(b) THEN apSel ELSE sel.ap

\* WriteAP to CSW or TAR.  A write is compared with the register when the mode
\* was left at verify; what TAR has been incremented to is not followed.
WriteAP(csw1, tar1, go) ==
    \/ /\ ApSelect(0)
       /\ mode = "normal" \/ csw1 = csw
       /\ csw' = csw1
       /\ tar' = tar1
       /\ go
       /\ UNCHANGED <<flags, lost>>
    \/ /\ ApSelect(0)
       /\ mode = "verify"
       /\ csw1 # csw \/ tar1 # tar
       /\ flags' = {"cmp"}
       /\ Fail("failed")
       /\ UNCHANGED <<csw, tar, lost>>
    \/ /\ flags # {}
       /\ Fail("failed")
       /\ UNCHANGED <<selectVars, csw, tar, flags, lost>>
    \/ /\ Lose
       /\ Fail("failed")
       /\ \/ /\ NeedSelect(0)
             /\ sel' \in MaybeSelected(Selected(0))
             /\ UNCHANGED <<apBank, lastBank, csw, tar>>
          \/ /\ ApSelect(0)
             /\ csw' \in {csw} \cup (IF mode = "normal" THEN {csw1} ELSE {})
             /\ tar' \in {tar, tar1}
       /\ UNCHANGED flags

\* ReadAP in bank b; then is what the caller does with the answer.
ReadAP(b, go) ==
    \/ /\ ApSelect(b)
       /\ go
       /\ UNCHANGED lost
    \/ /\ flags # {}
       /\ Fail("failed")
       /\ UNCHANGED <<selectVars, lost>>
    \/ /\ Lose
       /\ Fail("failed")
       /\ \/ /\ NeedSelect(b)
             /\ sel' \in MaybeSelected(Selected(b))
             /\ UNCHANGED <<apBank, lastBank>>
          \/ ApSelect(b)

\* SWD_CheckStatus and SWD_CheckStickyError: clear what the sticky flags allow to
\* clear, and report a memory error.  The compare flag is not among them.
\* Mutant: ABORT is written with a value that clears nothing.
MutClearSticky(f) ==
    \/ flags' = f /\ Fail("memory") /\ UNCHANGED lost
    \/ Lose /\ flags' = f /\ Fail("failed")

ClearSticky(f) ==
    \/ /\ flags' = f \ {"err"}
       /\ Fail("memory")
       /\ UNCHANGED lost
    \/ /\ Lose
       /\ flags' \in {f, f \ {"err"}}
       /\ Fail("failed")

----------------------------------------------------------------------------
(* SWD_ReadARMMem, SWD_WriteARMMem and SWD_VerifyARMMem.                   *)
Min2(a, b) == IF a < b THEN a ELSE b

\* Mutant: as long as what is left.
MutPageLength == many - (many % 4)

\* A block ends at the end of its page, so that TAR never wraps inside it, and is
\* never longer than a page, which SWD_ReadBlock and the others would not accept.
BlockLength == Min2(PageSize - (adr % PageSize), many - (many % 4))

\* The loops before, for and after the blocks.  The first two pieces align the
\* address, so that after a block only the last two are left.
NextPiece ==
    /\ pc = "next"
    /\ many > 0
    /\ \/ /\ adr % 2 = 1
          /\ how' = "single"
          /\ n' = 1
       \/ /\ adr % 4 = 2
          /\ many >= 2
          /\ how' = "single"
          /\ n' = 2
       \/ /\ adr % 4 = 0
          /\ many >= 4
          /\ how' = "block"
          /\ n' = BlockLength
       \/ /\ adr % 4 = 0
          /\ many \in {2, 3}
          /\ how' = "single"
          /\ n' = 2
       \/ /\ adr % 2 = 0
          /\ many = 1
          /\ how' = "single"
          /\ n' = 1
    /\ pc' = "switch"
    /\ UNCHANGED <<hostVars, targetVars, adr, many, res, req, touched, lost>>

EndOfCall ==
    /\ pc = "next"
    /\ many = 0
    /\ Finish("ok")
    /\ UNCHANGED <<hostVars, targetVars, req, touched, lost>>

\* AP_Switch: a port that was not analysed yet gets its IDR read.
SwitchAP ==
    /\ pc = "switch"
    /\ \/ /\ ctx[apSel].known
          /\ Go("bank")
          /\ UNCHANGED <<hostVars, sel, lost>>
       \/ /\ ~ctx[apSel].known
          /\ ReadAP(15, Go("test8"))
          /\ ctx' = [ctx EXCEPT ![apSel].known = (pc' = "test8")]
          /\ UNCHANGED apSel
    /\ UNCHANGED <<csw, tar, flags, mode, req, touched>>

\* SWD_TestSizesAP, each value with the read that follows it: CSW is left at the
\* last one, and CSW_Val_Base as it was.
TestSizesAP ==
    /\ \/ /\ pc = "test8"
          /\ WriteAP([csw EXCEPT ![Reached(0)] = [size |-> 1, inc |-> "packed"]], tar,
                     Go("test16"))
       \/ /\ pc = "test16"
          /\ WriteAP([csw EXCEPT ![Reached(0)] = [size |-> 2, inc |-> "packed"]], tar,
                     Go("bank"))
    /\ UNCHANGED <<apSel, ctx, mode, req, touched>>

\* Mutant: AP_Bank is set without the write.
MutBankZero ==
    /\ pc = "bank"
    /\ apBank' = 0
    /\ Go("size")
    /\ UNCHANGED <<apSel, lastBank, ctx, targetVars, req, touched, lost>>

\* Memory is accessed in bank 0.  The test does not look at the access port.
BankZero ==
    /\ pc = "bank"
    /\ \/ /\ apBank = 0
          /\ Go("size")
          /\ UNCHANGED <<selectVars, lost>>
       \/ /\ apBank # 0
          /\ WriteSelect(Selected(0), 0, Go("size"))
          /\ UNCHANGED lastBank
    /\ UNCHANGED <<apSel, ctx, csw, tar, flags, mode, req, touched>>

\* CSW as the access wants it: a block also wants the increment.
WantedCsw ==
    LET c == ctx[apSel].csw
    IN  IF how = "block" THEN [size |-> 4, inc |-> "single"]
        ELSE IF how = "slow" THEN [c EXCEPT !.size = 4]
        ELSE [c EXCEPT !.size = n]

AfterSize == IF how = "block" THEN "tar" ELSE "data"

\* The copy is changed before the register is written.
SetSize ==
    /\ pc = "size"
    /\ \/ /\ ctx[apSel].csw = WantedCsw
          /\ Go(AfterSize)
          /\ UNCHANGED <<selectVars, ctx, csw, tar, flags, lost>>
       \/ /\ ctx[apSel].csw # WantedCsw
          /\ ctx' = [ctx EXCEPT ![apSel].csw = WantedCsw]
          /\ WriteAP([csw EXCEPT ![Reached(0)] = WantedCsw], tar, Go(AfterSize))
    /\ UNCHANGED <<apSel, mode, req, touched>>

SetTAR ==
    /\ pc = "tar"
    /\ WriteAP(csw, [tar EXCEPT ![Reached(0)] = adr],
               Go(IF req.op = "verify" THEN "arm" ELSE "repeat"))
    /\ UNCHANGED <<apSel, ctx, mode, req, touched>>

----------------------------------------------------------------------------
(* The transfers.  A cell is a byte behind an access port, or the window   *)
(* of banked registers where memory was meant.                             *)
Window == -1

\* What one access of the size set in CSW reaches when TAR holds a.
Cells(a) ==
    LET s == csw[sel.ap].size
    IN  IF sel.bank = 0 THEN {<<sel.ap, s * (a \div s) + i>> : i \in 0 .. s - 1}
        ELSE {<<sel.ap, Window>>}

MayRefuse(cells) == \E c \in cells : c[2] \div 4 \in req.refused

\* An access of CSW and TAR of a bank other than 0 does not get to TAR.
TarSet(s, a) == IF s.bank = 0 THEN [tar EXCEPT ![s.ap] = a] ELSE tar

Writes == req.op = "write"

\* Mutant: nobody looks for a late error.
MutAfterData ==
    /\ Advance(IF how = "slow" THEN 4 ELSE n)
    /\ n' = IF how = "slow" THEN n - 4 ELSE n
    /\ pc' = IF how = "slow" /\ n > 4 THEN "switch" ELSE "next"
    /\ UNCHANGED <<how, res>>

AfterData ==
    IF how = "slow"
    THEN /\ Advance(4)
         /\ n' = n - 4
         /\ pc' = IF n = 4 THEN "sticky" ELSE "switch"
         /\ UNCHANGED <<how, res>>
    ELSE Go("sticky")

\* SWD_ReadData and SWD_WriteData: TAR and DRW in one block of the RDDI, the
\* only transfer whose refusal is told from other failures.
Data ==
    /\ pc = "data"
    /\ \/ /\ flags # {}
          /\ ClearSticky(flags)
          /\ UNCHANGED <<tar, touched>>
       \/ /\ flags = {}
          /\ mode = "normal" \/ ~Writes
          /\ tar' = TarSet(sel, adr)
          /\ touched' = touched \cup Cells(adr)
          /\ AfterData
          /\ UNCHANGED <<flags, lost>>
       \/ /\ flags = {}
          /\ MayRefuse(Cells(adr))
          /\ tar' = TarSet(sel, adr)
          /\ ClearSticky({"err"})
          /\ UNCHANGED touched
       \/ \* a buffered write is refused after it was acknowledged
          /\ flags = {}
          /\ MayRefuse(Cells(adr))
          /\ mode = "normal" /\ Writes
          /\ tar' = TarSet(sel, adr)
          /\ flags' = {"err"}
          /\ AfterData
          /\ UNCHANGED <<touched, lost>>
       \/ \* TAR or DRW are compared, not written
          /\ flags = {}
          /\ mode = "verify"
          /\ \/ ClearSticky({"cmp"}) /\ UNCHANGED tar
             \/ /\ Writes
                /\ tar' = TarSet(sel, adr)
                /\ AfterData
                /\ UNCHANGED <<flags, lost>>
          /\ UNCHANGED touched
       \/ /\ Lose
          /\ Fail("failed")
          /\ \/ UNCHANGED <<tar, touched>>
             \/ /\ flags = {}
                /\ mode = "normal"
                /\ tar' = TarSet(sel, adr)
                /\ touched' = touched \cup Cells(adr)
          /\ UNCHANGED flags
    /\ UNCHANGED <<hostVars, sel, csw, mode, req>>

\* The k-th element of a block: TAR counts inside its page if CSW says so.
TarAt(k) ==
    LET t == tar[sel.ap]
        page == PageSize * (t \div PageSize)
    IN  IF csw[sel.ap].inc = "off" THEN t ELSE page + ((t + 4 * k) % PageSize)

\* Mutant: one element too many.
MutElements == 0 .. n \div 4

Elements == 0 .. (n \div 4) - 1
Before(k) == UNION {Cells(TarAt(i)) : i \in {j \in Elements : j < k}}
Whole == Before(n \div 4)
RefusedElements == {k \in Elements : MayRefuse(Cells(TarAt(k)))}
First(S) == CHOOSE k \in S : \A j \in S : k <= j
Last == (n \div 4) - 1

\* DAP_RegReadRepeat and DAP_RegWriteRepeat: all elements in one transfer, whose
\* refusal is an error like any other.
Repeat ==
    /\ pc = "repeat"
    /\ \/ /\ flags = {}
          /\ mode = "normal" \/ ~Writes
          /\ touched' = touched \cup Whole
          /\ Go("sticky")
          /\ UNCHANGED <<flags, lost>>
       \/ /\ flags = {}
          /\ \E k \in RefusedElements : touched' = touched \cup Before(k)
          /\ flags' = {"err"}
          /\ Fail("failed")
          /\ UNCHANGED lost
       \/ \* the last element of a write is refused after it was acknowledged
          /\ flags = {}
          /\ mode = "normal" /\ Writes
          /\ Last \in RefusedElements
          /\ touched' = touched \cup Before(Last)
          /\ flags' = {"err"}
          /\ Go("sticky")
          /\ UNCHANGED lost
       \/ /\ flags = {}
          /\ mode = "verify" /\ Writes
          /\ \/ Go("sticky") /\ UNCHANGED flags
             \/ Fail("failed") /\ flags' = {"cmp"}
          /\ UNCHANGED <<touched, lost>>
       \/ /\ Lose
          /\ Fail("failed")
          /\ touched' \in IF mode = "normal" THEN {touched, touched \cup Whole} ELSE {touched}
          /\ UNCHANGED flags
    /\ UNCHANGED <<hostVars, sel, csw, tar, mode, req>>

\* SWD_StickyError, and what the caller does when nothing is sticky.  At the end
\* of the slow accesses the address has been advanced already.
StickyError ==
    /\ pc = "sticky"
    /\ \/ /\ "err" \notin flags
          /\ pc' = "next"
          /\ IF how = "slow" THEN UNCHANGED <<adr, many>> ELSE Advance(n)
          /\ UNCHANGED <<how, n, res, flags, lost>>
       \/ /\ "err" \in flags
          /\ ClearSticky(flags)
       \/ /\ Lose
          /\ Fail("failed")
          /\ UNCHANGED flags
    /\ UNCHANGED <<hostVars, sel, csw, tar, mode, req, touched>>

----------------------------------------------------------------------------
(* SWD_VerifyBlock.                                                        *)
\* The transfer mode is read and set to pushed verify.
Arm ==
    /\ pc = "arm"
    /\ \/ /\ flags = {}
          /\ mode' = "verify"
          /\ Go("compare")
          /\ UNCHANGED lost
       \/ /\ Lose
          /\ mode' \in {mode, "verify"}
          /\ Fail("failed")
    /\ UNCHANGED <<hostVars, sel, csw, tar, flags, req, touched>>

Differing == {k \in Elements : TarAt(k) \div 4 \in req.differs}

\* The compare, the read of its outcome and the return to the normal mode.  A
\* sticky flag makes the target refuse that return, so a mismatch, which the
\* driver has seen when it was the last element, is lost in the error of it;
\* nor does the driver clear anything before.  The branch of SWD_VerifyARMMem
\* for a mismatch is not reached.
Compare ==
    /\ pc = "compare"
    /\ \/ /\ Differing = {}
          /\ touched' = touched \cup Whole
          /\ mode' = "normal"
          /\ pc' = "next"
          /\ Advance(n)
          /\ UNCHANGED <<how, n, res, flags, lost>>
       \/ /\ Differing # {}
          /\ touched' = touched \cup Before(First(Differing))
          /\ flags' = {"cmp"}
          /\ Fail("failed")
          /\ UNCHANGED <<mode, lost>>
       \/ /\ \E k \in RefusedElements :
                /\ \A j \in Differing : k <= j
                /\ touched' = touched \cup Before(k)
                /\ \/ Fail("failed")
                   \/ k = Last /\ Fail("memory")    \* seen in CTRL/STAT
          /\ flags' = {"err"}
          /\ UNCHANGED <<mode, lost>>
       \/ /\ Lose
          /\ touched' \in IF Differing = {} THEN {touched, touched \cup Whole} ELSE {touched}
          /\ mode' \in {"normal", "verify"}
          /\ Fail("failed")
          /\ UNCHANGED flags
    /\ UNCHANGED <<hostVars, sel, csw, tar, req>>

----------------------------------------------------------------------------
(* The calls.                                                              *)
Start(r) ==
    /\ pc = "idle"
    /\ req' = [op |-> r.op, adr |-> r.adr, many |-> r.many, refused |-> r.refused,
               differs |-> r.differs, ap |-> apSel, sound |-> Sound, lost |-> lost]
    /\ touched' = {}

Call ==
    \E r \in Requests :
        /\ Start(r)
        /\ pc' = "next"
        /\ adr' = r.adr
        /\ many' = r.many
        /\ UNCHANGED <<hostVars, targetVars, how, n, res, lost>>

NoMemory(op) == [op |-> op, adr |-> 0, many |-> 0, refused |-> {}, differs |-> {}]

\* Mutant: CSW is only read.
MutRestoreCsw ==
    /\ pc = "restore"
    /\ Finish("ok")
    /\ UNCHANGED <<hostVars, targetVars, req, touched, lost>>

RestoreCsw ==
    /\ pc = "restore"
    /\ WriteAP([csw EXCEPT ![Reached(0)] = ctx[apSel].csw], tar, Finish("ok"))
    /\ UNCHANGED <<apSel, ctx, mode, req, touched>>

\* CSW is read: a target whose debug access is not enabled (CSW_DBGSTAT) ends the
\* recovery.
CheckCsw ==
    /\ pc = "check"
    /\ ReadAP(0, Go("restore") \/ Finish("failed"))
    /\ UNCHANGED <<apSel, ctx, csw, tar, flags, mode, req, touched>>

\* The recovery of a debug access whose port has lost its setting: SELECT is
\* written, CSW is read, then CSW is written again.  The levels of debug access
\* before and after this one are not modelled.
Recover ==
    /\ Start(NoMemory("recover"))
    /\ apSel = CpuAP
    /\ WriteSelect(Selected(0), apBank, Go("check"))
    /\ UNCHANGED <<apSel, lastBank, ctx, csw, tar, flags, mode>>

\* Mutants: bank 1 is selected before TAR is written; AP_Bank is not set.
MutWindowTar(s) == TarSet(Selected(1), DebugRegs)
MutOpenWindow(t) == sel' = Selected(1) /\ tar' = t /\ UNCHANGED apBank

\* The window of bank 1 is opened on the debug registers.
WindowTar(s) == TarSet(s, DebugRegs)
OpenWindow(t) == sel' = Selected(1) /\ tar' = t /\ apBank' = 1

\* SWD_CheckStatus and SWD_CheckStickyError here, where an error ends the call.
Report(f) ==
    \/ /\ flags' = f \ {"err"}
       /\ Finish("memory")
       /\ UNCHANGED lost
    \/ /\ Lose
       /\ flags' \in {f, f \ {"err"}}
       /\ Finish("failed")

\* The first block of a function of the debug registers, that writes TAR while s is
\* selected.
AtDebugRegisters(s) ==
    /\ Start(NoMemory("regs"))
    /\ apSel = CpuAP
    /\ LET t == WindowTar(s)
       IN  \/ /\ flags = {}
              /\ OpenWindow(t)
              /\ Go("registers")
              /\ UNCHANGED <<flags, lost>>
           \/ /\ flags # {}
              /\ Report(flags)
              /\ UNCHANGED <<sel, tar, apBank>>
           \/ /\ flags = {}
              /\ mode = "verify"
              /\ sel' = s
              /\ Report({"cmp"})
              /\ UNCHANGED <<tar, apBank>>
           \/ /\ Lose
              /\ flags = {}
              /\ \/ sel' = sel /\ tar' = tar
                 \/ sel' = s /\ tar' \in {tar, t}
                 \/ sel' = Selected(1) /\ tar' = t
              /\ Finish("failed")
              /\ UNCHANGED <<apBank, flags>>
    /\ UNCHANGED <<apSel, lastBank, ctx, csw, mode>>

\* The second block, through the window: DCRSR and DCRDR, with reads of DHCSR until
\* the register is ready, and the search for a late error.  A read that never matches
\* shortens the response, which the proxy reports as it does a refusal, and the
\* caller clears what may be sticky; a probe that counts it answers with another
\* status, which is any error.  Nobody looks for a compare of the last write of
\* SWD_SysCallExec.
MoveRegisters ==
    /\ pc = "registers"
    /\ \/ /\ flags' \in IF mode = "verify" THEN {{}, {"cmp"}} ELSE {{}}
          /\ Finish("ok")
          /\ UNCHANGED lost
       \/ Finish("failed") /\ UNCHANGED <<flags, lost>>
       \/ Report({"err"})
       \/ mode = "verify" /\ Report({"cmp"})
    /\ UNCHANGED <<hostVars, sel, csw, tar, mode, req, touched>>

\* SWD_GetARMRegs and SWD_SetARMRegs select bank 0 for TAR, SWD_SysCallExec and
\* SWD_SysCallRes do not: then TAR points bank 1 at the debug registers.  They are
\* used with the port of the CPU.
ARMRegs == AtDebugRegisters(Selected(0))
SysCall == AtDebugRegisters(sel)
DebugRegisters == ARMRegs \/ SysCall

\* The trace, ETB and extended memory functions set AP_Sel around their accesses.
SelectAP ==
    /\ pc = "idle"
    /\ \E a \in AP \ {apSel} : apSel' = a
    /\ UNCHANGED <<apBank, lastBank, ctx, targetVars, callVars, req, touched, lost>>

Step ==
    \/ NextPiece
    \/ EndOfCall
    \/ SwitchAP
    \/ TestSizesAP
    \/ BankZero
    \/ SetSize
    \/ SetTAR
    \/ Data
    \/ Repeat
    \/ StickyError
    \/ Arm
    \/ Compare
    \/ CheckCsw
    \/ RestoreCsw
    \/ MoveRegisters

SwdNext ==
    \/ Step
    \/ Call
    \/ Recover
    \/ DebugRegisters
    \/ SelectAP

SwdSpec == SwdInit /\ [][SwdNext]_swdVars

\* Each transfer is answered or given up by the link.
SwdFairSpec == SwdSpec /\ WF_swdVars(Step)

----------------------------------------------------------------------------
(* Properties.                                                             *)
Bytes(a, b) == {<<req.ap, i>> : i \in a .. b - 1}
Range == Bytes(req.adr, req.adr + req.many)
MemoryCall == req.op \in {"read", "write", "verify"}
Ended == pc = "idle" /\ res # "none"

\* A call that starts in a sound session touches no byte but those it was asked
\* for, through the access port that was selected: no wrap inside a block, no
\* wider access, no other bank.
OnlyRequestedBytes ==
    MemoryCall /\ req.sound => touched \subseteq Range

\* Such a call reports success only if every byte was transferred, although a
\* write may be refused after it was acknowledged.
SuccessIsComplete ==
    Ended /\ MemoryCall /\ req.sound /\ res = "ok" => touched = Range

\* A call that succeeds, or a read or write that reports a memory error, leaves
\* the session as sound as it was.
ReportedErrorsHeal ==
    /\ Ended /\ apSel = req.ap /\ req.sound
    /\ res = "ok" \/ (res = "memory" /\ req.op # "verify")
    => Sound

\* A read, write or verify that starts in a sound session, and meets neither a lost
\* answer nor a word that is refused or differs, succeeds.  A register function may
\* also find the register never ready, and a recovery the debug access disabled.
GoodCallSucceeds ==
    /\ Ended /\ MemoryCall /\ req.sound /\ lost = req.lost
    /\ \A c \in Range : c[2] \div 4 \notin req.refused \cup req.differs
    => res = "ok"

\* Unless an answer was lost, whoever finds AP_Bank at 0, and so writes no SELECT,
\* finds the target in bank 0, whatever calls came before and however they ended.
BankAgrees == lost = 0 /\ apBank = 0 => sel.bank = 0

\* When a register or system call function has succeeded, TAR points the banked
\* registers at the debug registers, although half of these functions write TAR
\* in whatever bank is selected.  No other port was used: AP_Bank does not know of
\* a change of the port.
WindowOnDebugRegisters ==
    /\ Ended /\ req.op = "regs" /\ res = "ok" /\ lost = 0
    /\ \A a \in AP \ {CpuAP} : ~ctx[a].known
    => tar[sel.ap] = DebugRegs

\* The recovery brings driver and target together again from whatever state
\* failed calls and lost answers have left.
RecoveryAgrees ==
    Ended /\ apSel = req.ap /\ req.op = "recover" /\ res = "ok" =>
        /\ csw[apSel] = ctx[apSel].csw
        /\ flags = {}
        /\ sel = Selected(apBank)

\* Every call ends: the loop over the pieces makes progress even when blocks fail
\* and are repeated word by word.
CallEnds == pc # "idle" ~> pc = "idle"

(* What makes OnlyRequestedBytes and SuccessIsComplete inductive.           *)
InCall == pc \notin {"idle", "check", "restore", "registers"}

\* What is left, and the piece in progress: aligned, within the call and, for a
\* block, within its page.
LoopInv ==
    /\ InCall =>
        /\ MemoryCall
        /\ req.adr <= adr
        /\ adr + many = req.adr + req.many
    /\ InCall /\ pc # "next" =>
        /\ how = "single" => n \in {1, 2} /\ adr % n = 0 /\ n <= many
        /\ how = "block" => n > 0 /\ adr % 4 = 0 /\ (adr % PageSize) + n <= PageSize
        /\ how = "slow" => adr % 4 = 0 /\ (pc # "sticky" => n > 0)
        /\ n % 4 = 0 \/ how = "single"
        /\ n <= many
        /\ pc \in {"tar", "repeat", "arm", "compare"} => how = "block"
        /\ pc = "data" => how # "block"
        /\ pc \in {"arm", "compare"} => req.op = "verify"
        /\ pc = "repeat" => req.op # "verify"
    /\ pc \in {"check", "restore", "registers"} => ~MemoryCall

\* In a call from a sound session driver and target agree at each transfer.
InStep ==
    /\ req.ap = apSel
    /\ ctx[apSel].known
    /\ pc \notin {"test8", "test16"}
    /\ csw[apSel] = ctx[apSel].csw
    /\ apBank = 0 => sel = Selected(0)
    /\ pc \in {"size", "tar", "data", "repeat", "arm", "compare"} => apBank = 0
    /\ pc = "data" => csw[apSel].size = IF how = "slow" THEN 4 ELSE n
    /\ pc \in {"tar", "repeat", "arm", "compare"} => csw[apSel] = [size |-> 4, inc |-> "single"]
    /\ pc \in {"repeat", "arm", "compare"} => tar[apSel] = adr
    /\ flags \subseteq {"err"}
    /\ pc \in {"next", "compare"} => flags = {}
    /\ Writes => mode = "normal"

\* What was passed has been transferred, unless a late error of the slow accesses
\* is still to be found.
PassedIsDone ==
    /\ (how = "slow" /\ flags # {}) \/ Bytes(req.adr, adr) \subseteq touched
    /\ pc = "sticky" /\ how # "slow" /\ flags = {} => Bytes(adr, adr + n) \subseteq touched

SoundCallInv ==
    MemoryCall /\ req.sound =>
        /\ touched \subseteq Range
        /\ InCall => InStep /\ PassedIsDone
        /\ Ended /\ res = "ok" => Range \subseteq touched

SwdInductive == SwdTypeOK /\ LoopInv /\ SoundCallInv
=============================================================================
