-------------------------- MODULE SwdSession_proofs --------------------------
(* Proofs about the state in which a call of the SWD access layer leaves the  *)
(* session, for any access ports, page size, calls and number of lost         *)
(* answers: what ends well leaves driver and target in step, the recovery     *)
(* brings them together, nothing but the target or the link makes a call      *)
(* fail, and the window of the debug registers is where it belongs; and a     *)
(* call ends after a bounded number of steps.  They rest on SwdInductive.     *)
EXTENDS SwdAccess_proofs

(* What a step does to the session.                                          *)
RestoreInv ==
    pc \in {"check", "restore"} =>
        /\ req.op = "recover"
        /\ req.ap = apSel
        /\ flags = {}
        /\ sel = Selected(0)
        /\ req.sound => ctx[apSel].known /\ mode = "normal"

\* Between the two blocks of a function of the debug registers nothing is in bank 0.
RegistersInv ==
    pc = "registers" =>
        /\ req.op = "regs"
        /\ req.ap = apSel
        /\ apBank = 1
        /\ req.sound => ctx[apSel].known /\ csw[apSel] = ctx[apSel].csw /\ mode = "normal"

\* The mode is not normal while a block is compared, and after a refused compare,
\* which the first of the slow accesses finds.
ModeInv ==
    SoundCall /\ InCall =>
        \/ mode = "normal"
        \/ pc = "compare"
        \/ /\ req.op = "verify"
           /\ how = "slow"
           /\ flags # {}
           /\ pc \in {"switch", "bank", "size", "data"}

\* Sound, for the port of the last call instead of the selected one.
PortSound ==
    /\ flags = {}
    /\ mode = "normal"
    /\ ctx[req.ap].known
    /\ csw[req.ap] = ctx[req.ap].csw
    /\ apBank = 0 => sel = [ap |-> req.ap, bank |-> 0]

LeftSound ==
    /\ Ended /\ req.sound
    /\ res = "ok" \/ (res = "memory" /\ req.op # "verify")
    => PortSound

Recovered ==
    Ended /\ req.op = "recover" /\ res = "ok" =>
        /\ csw[req.ap] = ctx[req.ap].csw
        /\ flags = {}
        /\ sel = [ap |-> req.ap, bank |-> apBank]

SessionInv == RestoreInv /\ RegistersInv /\ ModeInv /\ LeftSound /\ Recovered

LEMMA SessionFailed ==
    ASSUME UNCHANGED req, Fail("failed")
    PROVE  SessionInv'
BY DEF Fail, Finish, SessionInv, RestoreInv, RegistersInv, ModeInv, InCall, LeftSound, Recovered

LEMMA SessionGoesOn ==
    ASSUME UNCHANGED req, pc' \notin {"idle", "check", "restore", "registers"}, ModeInv'
    PROVE  SessionInv'
BY DEF SessionInv, RestoreInv, RegistersInv, LeftSound, Recovered, Ended

LEMMA SessionMemory ==
    ASSUME UNCHANGED <<req, hostVars, sel, csw, mode>>, MemoryCall,
           Fail("memory"), how # "block",
           req.sound /\ req.op # "verify" =>
               mode = "normal" /\ InStep /\ flags' = flags \ {"err"}
    PROVE  SessionInv'
<1>1. pc' = "idle" /\ res' = "memory"
  BY DEF Fail, Finish
<1>2. RestoreInv' /\ RegistersInv' /\ ModeInv'
  BY <1>1 DEF RestoreInv, RegistersInv, ModeInv, InCall
<1>3. Recovered'
  BY <1>1 DEF Recovered
<1>4. req.sound /\ req.op # "verify" => PortSound'
  BY DEF PortSound, InStep, hostVars, Selected
<1> QED
  BY <1>1, <1>2, <1>3, <1>4 DEF SessionInv, LeftSound

\* The steps that prepare a transfer, and the choice of the next piece.
LEMMA SessionSetUp ==
    ASSUME Groups, LoopInv, SoundCallInv, SessionInv,
           NextPiece \/ SwitchAP \/ TestSizesAP \/ BankZero \/ SetSize \/ SetTAR
    PROVE  SessionInv'
<1> USE DEF SessionInv
<1>0. SoundCall => InStep
  BY DEF SoundCall, SoundCallInv, InCall, NextPiece, SwitchAP, TestSizesAP, BankZero, SetSize, SetTAR
<1>1. CASE NextPiece
  <2>1. ModeInv'
    BY <1>1 DEF NextPiece, ModeInv, SoundCall, MemoryCall, InCall, targetVars
  <2> QED
    BY <1>1, <2>1, SessionGoesOn DEF NextPiece
<1>2. CASE SwitchAP
  <2>1. CASE Fail("failed")
    BY <1>2, <2>1, SessionFailed DEF SwitchAP
  <2>2. CASE Go("bank")
    <3>1. ModeInv'
      BY <1>2, <2>2 DEF SwitchAP, Go, loopVars, ModeInv, SoundCall, MemoryCall, InCall
    <3> QED
      BY <1>2, <2>2, <3>1, SessionGoesOn DEF SwitchAP, Go
  <2>3. CASE Go("test8")
    <3>1. ~SoundCall
      BY <1>0, <1>2, <2>3 DEF SwitchAP, Go, InStep
    <3>2. ModeInv'
      BY <1>2, <3>1 DEF SwitchAP, ModeInv, SoundCall, MemoryCall
    <3> QED
      BY <1>2, <2>3, <3>2, SessionGoesOn DEF SwitchAP, Go
  <2> QED
    BY <1>2, <2>1, <2>2, <2>3 DEF SwitchAP, ReadAP
<1>3. CASE TestSizesAP
  <2>1. ~SoundCall
    BY <1>0, <1>3 DEF TestSizesAP, InStep
  <2>2. ModeInv'
    BY <1>3, <2>1 DEF TestSizesAP, ModeInv, SoundCall, MemoryCall
  <2>3. CASE Fail("failed")
    BY <1>3, <2>3, SessionFailed DEF TestSizesAP
  <2>4. CASE Go("test16") \/ Go("bank")
    BY <1>3, <2>2, <2>4, SessionGoesOn DEF TestSizesAP, Go
  <2> QED
    BY <1>3, <2>3, <2>4 DEF TestSizesAP, WriteAP
<1>4. CASE BankZero
  <2>1. CASE Fail("failed")
    BY <1>4, <2>1, SessionFailed DEF BankZero
  <2>2. CASE Go("size")
    <3>1. ModeInv'
      BY <1>4, <2>2 DEF BankZero, Go, loopVars, ModeInv, SoundCall, MemoryCall, InCall
    <3> QED
      BY <1>4, <2>2, <3>1, SessionGoesOn DEF BankZero, Go
  <2> QED
    BY <1>4, <2>1, <2>2 DEF BankZero, WriteSelect
<1>5. CASE SetSize
  <2>1. CASE Fail("failed")
    BY <1>5, <2>1, SessionFailed DEF SetSize
  <2>2. CASE Go(AfterSize) /\ UNCHANGED flags
    <3>1. ModeInv'
      BY <1>5, <2>2
      DEF SetSize, AfterSize, Go, loopVars, ModeInv, SoundCall, MemoryCall, InCall
    <3> QED
      BY <1>5, <2>2, <3>1, SessionGoesOn DEF SetSize, AfterSize, Go
  <2> QED
    BY <1>5, <2>1, <2>2 DEF SetSize, WriteAP
<1>6. CASE SetTAR
  <2> DEFINE p == IF req.op = "verify" THEN "arm" ELSE "repeat"
  <2>1. CASE Fail("failed")
    BY <1>6, <2>1, SessionFailed DEF SetTAR
  <2>2. CASE Go(p)
    <3>1. ModeInv'
      BY <1>6, <2>2 DEF SetTAR, Go, ModeInv, SoundCall, MemoryCall, InCall
    <3> QED
      BY <1>6, <2>2, <3>1, SessionGoesOn DEF SetTAR, Go
  <2> QED
    BY <1>6, <2>1, <2>2 DEF SetTAR, WriteAP
<1> QED
  BY <1>1, <1>2, <1>3, <1>4, <1>5, <1>6

LEMMA SessionEndOfCall ==
    ASSUME Groups, LoopInv, SoundCallInv, SessionInv, EndOfCall
    PROVE  SessionInv'
<1>1. pc' = "idle" /\ res' = "ok" /\ UNCHANGED <<hostVars, targetVars, req>> /\ InCall /\ pc = "next"
  BY DEF EndOfCall, Finish, InCall
<1>2. MemoryCall
  BY <1>1 DEF LoopInv
<1>3. req.sound => InStep /\ mode = "normal"
  BY <1>1, <1>2 DEF SoundCallInv, SessionInv, ModeInv, SoundCall
<1>4. req.sound => PortSound'
  BY <1>1, <1>3 DEF PortSound, InStep, hostVars, targetVars, Selected
<1>5. RestoreInv' /\ RegistersInv' /\ ModeInv'
  BY <1>1 DEF RestoreInv, RegistersInv, ModeInv, InCall
<1>6. Recovered'
  BY <1>1, <1>2 DEF Recovered, MemoryCall
<1> QED
  BY <1>1, <1>4, <1>5, <1>6 DEF SessionInv, LeftSound

\* The transfers of data, and what looks for late errors.
LEMMA SessionTransfer ==
    ASSUME Groups, LoopInv, SoundCallInv, SessionInv, Data \/ Repeat \/ StickyError
    PROVE  SessionInv'
<1> USE DEF SessionInv
<1>1. InCall /\ pc \in {"data", "repeat", "sticky"} /\ UNCHANGED <<hostVars, sel, csw, mode, req>>
  BY DEF Data, Repeat, StickyError, InCall
<1>2. MemoryCall
  BY <1>1 DEF LoopInv
<1>3. SoundCall => InStep
  BY <1>1 DEF SoundCall, SoundCallInv
<1>4. CASE Data
  <2>1. how # "block" /\ pc = "data"
    BY <1>1, <1>4 DEF Data, LoopInv
  <2>2. CASE Fail("failed")
    BY <1>1, <2>2, SessionFailed
  <2>3. CASE AfterData
    <3>1. pc' \in {"sticky", "switch", "next"} /\ (pc' = "switch" => how = "slow" /\ how' = "slow")
      BY <1>4, <2>3 DEF AfterData, Go
    <3>2. SoundCall => mode' = "normal"
      BY <1>1, <1>4, <2>1, <2>3 DEF Data, ModeInv, AfterData, Go, Fail, Finish, ClearSticky
    <3>3. ModeInv'
      BY <1>1, <3>2 DEF ModeInv, SoundCall, MemoryCall
    <3> QED
      BY <1>1, <3>1, <3>3, SessionGoesOn
  <2>4. CASE Fail("memory")
    <3>1. pc' = "idle" /\ (req.sound /\ req.op # "verify" => mode = "normal")
      BY <1>1, <1>2, <2>1, <2>4 DEF ModeInv, SoundCall, Fail, Finish
    <3>2. req.sound /\ req.op # "verify" => flags' = flags \ {"err"}
      BY <1>4, <2>4, <3>1 DEF Data, ClearSticky, AfterData, Go, Fail, Finish
    <3> QED
      BY <1>1, <1>2, <1>3, <2>1, <2>4, <3>1, <3>2, SessionMemory DEF SoundCall
  <2> QED
    BY <1>4, <2>2, <2>3, <2>4 DEF Data, ClearSticky
<1>5. CASE Repeat
  <2>1. SoundCall => mode' = "normal"
    BY <1>1, <1>5 DEF Repeat, ModeInv
  <2>2. CASE Fail("failed")
    BY <1>1, <2>2, SessionFailed
  <2>3. CASE Go("sticky")
    <3>1. ModeInv'
      BY <1>1, <2>1 DEF ModeInv, SoundCall, MemoryCall
    <3> QED
      BY <1>1, <2>3, <3>1, SessionGoesOn DEF Go
  <2> QED
    BY <1>5, <2>2, <2>3 DEF Repeat
<1>6. CASE StickyError
  <2>1. SoundCall => mode = "normal" /\ mode' = "normal"
    BY <1>1, <1>6 DEF StickyError, ModeInv
  <2>2. ModeInv'
    BY <1>1, <2>1 DEF ModeInv, SoundCall, MemoryCall
  <2>3. CASE Fail("failed")
    BY <1>1, <2>3, SessionFailed
  <2>4. CASE pc' = "next"
    BY <1>1, <2>2, <2>4, SessionGoesOn
  <2>5. CASE Fail("memory") /\ how = "block"
    BY <1>1, <2>2, <2>5, SessionGoesOn DEF Fail
  <2>6. CASE Fail("memory") /\ how # "block" /\ flags' = flags \ {"err"}
    BY <1>1, <1>2, <1>3, <2>1, <2>6, SessionMemory DEF SoundCall
  <2> QED
    BY <1>6, <2>3, <2>4, <2>5, <2>6 DEF StickyError, ClearSticky
<1> QED
  BY <1>4, <1>5, <1>6

\* The verify of a block is over in the normal mode, or by a memory error that the
\* slow accesses start from, or the call has failed.
LEMMA SessionVerify ==
    ASSUME Groups, LoopInv, SoundCallInv, SessionInv, Arm \/ Compare
    PROVE  SessionInv'
<1> USE DEF SessionInv
<1>1. /\ InCall /\ pc \in {"arm", "compare"} /\ UNCHANGED req
      /\ how = "block" /\ req.op = "verify"
  BY DEF Arm, Compare, InCall, LoopInv
<1>2. CASE Fail("failed")
  BY <1>1, <1>2, SessionFailed
<1>3. CASE Arm /\ Go("compare")
  <2>1. ModeInv'
    BY <1>3 DEF Go, ModeInv
  <2> QED
    BY <1>1, <1>3, <2>1, SessionGoesOn DEF Go
<1>4. CASE mode' = "normal" /\ pc' = "next"
  BY <1>1, <1>4, SessionGoesOn DEF ModeInv
<1>5. CASE Fail("memory") /\ flags' = {"err"}
  <2>1. how' = "slow" /\ pc' = "switch"
    BY <1>1, <1>5 DEF Fail
  <2>2. ModeInv'
    BY <1>1, <1>5, <2>1 DEF ModeInv
  <2> QED
    BY <1>1, <2>1, <2>2, SessionGoesOn
<1> QED
  BY <1>2, <1>3, <1>4, <1>5 DEF Arm, Compare

(* The calls that transfer no memory.                                        *)
LEMMA SessionCheckCsw ==
    ASSUME SessionInv, CheckCsw
    PROVE  SessionInv'
<1> USE DEF SessionInv
<1>1. pc = "check" /\ UNCHANGED <<apSel, ctx, csw, tar, flags, mode, req>>
  BY DEF CheckCsw
<1>2. CASE Fail("failed") \/ Finish("failed")
  BY <1>1, <1>2, SessionFailed DEF Fail
<1>3. CASE Go("restore") /\ ApSelect(0)
  <2>1. pc' = "restore" /\ sel' = Selected(0)
    BY <1>1, <1>3 DEF Go, ApSelect, RestoreInv
  <2>2. RestoreInv'
    BY <1>1, <2>1 DEF RestoreInv, Selected
  <2>3. RegistersInv' /\ ModeInv' /\ LeftSound' /\ Recovered'
    BY <1>1, <2>1
    DEF RestoreInv, RegistersInv, ModeInv, SoundCall, MemoryCall, LeftSound, Recovered, Ended
  <2> QED
    BY <2>2, <2>3
<1> QED
  BY <1>2, <1>3 DEF CheckCsw, ReadAP

\* What was sticky is cleared, or the call has failed.
LEMMA SessionMoveRegisters ==
    ASSUME SessionInv, MoveRegisters
    PROVE  SessionInv'
<1> USE DEF SessionInv
<1>1. /\ UNCHANGED <<hostVars, sel, csw, tar, mode, req>>
      /\ req.op = "regs" /\ req.ap = apSel /\ apBank = 1
      /\ req.sound => ctx[apSel].known /\ csw[apSel] = ctx[apSel].csw /\ mode = "normal"
  BY DEF MoveRegisters, RegistersInv
<1>2. pc' = "idle"
  BY DEF MoveRegisters, Report, Finish
<1>3. RestoreInv' /\ RegistersInv' /\ ModeInv' /\ Recovered'
  BY <1>1, <1>2 DEF RestoreInv, RegistersInv, ModeInv, InCall, Recovered
<1>4. mode = "normal" /\ res' # "failed" => flags' = {}
  BY DEF MoveRegisters, Report, Finish
<1>5. req.sound /\ res' # "failed" => PortSound'
  BY <1>1, <1>4 DEF PortSound, hostVars
<1> QED
  BY <1>1, <1>3, <1>5 DEF LeftSound

LEMMA SessionRestoreCsw ==
    ASSUME Groups, LoopInv, SessionInv, RestoreCsw
    PROVE  SessionInv'
<1> USE DEF SessionInv
<1>1. pc = "restore" /\ UNCHANGED <<apSel, ctx, mode, req>>
  BY DEF RestoreCsw
<1>2. CASE Fail("failed")
  BY <1>1, <1>2, SessionFailed
<1>3. CASE Finish("ok") /\ ~Fail("failed")
  <2>1. /\ req.op = "recover" /\ req.ap = apSel /\ flags = {} /\ sel = Selected(0)
        /\ req.sound => ctx[apSel].known /\ mode = "normal"
    BY <1>1 DEF RestoreInv
  <2>2. Reached(0) = apSel /\ apSel \in AP
    BY <2>1 DEF Reached, Selected, Groups, HostType
  <2>3. csw'[apSel] = ctx[apSel].csw /\ flags' = {}
    <3>1. /\ csw' = [csw EXCEPT ![Reached(0)] = ctx[apSel].csw]
          /\ UNCHANGED flags
      BY <1>3 DEF RestoreCsw, WriteAP
    <3> QED
      BY <2>1, <2>2, <3>1 DEF Groups, TargetType
  <2>4. apBank' = 0 /\ sel' = Selected(0)
    BY <1>3, <2>1 DEF RestoreCsw, WriteAP, ApSelect, NeedSelect
  <2>5. pc' = "idle"
    BY <1>3 DEF Finish
  <2>6. RestoreInv' /\ RegistersInv' /\ ModeInv'
    BY <2>5 DEF RestoreInv, RegistersInv, ModeInv, InCall
  <2>7. Recovered'
    BY <1>1, <2>1, <2>3, <2>4 DEF Recovered, Selected
  <2>8. req.sound => PortSound'
    BY <1>1, <2>1, <2>3, <2>4 DEF PortSound, Selected
  <2> QED
    BY <1>1, <2>6, <2>7, <2>8 DEF LeftSound
<1> QED
  BY <1>2, <1>3 DEF RestoreCsw, WriteAP

LEMMA SessionOther ==
    ASSUME Groups, LoopInv, SessionInv,
           \/ Call \/ Recover \/ DebugRegisters \/ SelectAP
           \/ UNCHANGED swdVars
    PROVE  SessionInv'
<1> USE DEF SessionInv
<1>1. CASE Call
  <2>1. PICK r \in Requests : Start(r) /\ pc' = "next" /\ UNCHANGED <<hostVars, targetVars>>
    BY <1>1 DEF Call
  <2>2. ModeInv'
    BY <2>1 DEF Start, Sound, ModeInv, SoundCall, targetVars
  <2> QED
    BY <2>1, <2>2 DEF RestoreInv, RegistersInv, LeftSound, Recovered, Ended
<1>2. CASE Recover
  <2>1. req'.op = "recover" /\ req'.ap = apSel /\ req'.sound = Sound
    BY <1>2 DEF Recover, Start, NoMemory
  <2>2. ModeInv'
    BY <2>1 DEF ModeInv, SoundCall, MemoryCall
  <2>3. CASE Fail("failed")
    <3>1. pc' = "idle" /\ res' = "failed"
      BY <2>3 DEF Fail, Finish
    <3> QED
      BY <2>2, <3>1 DEF RestoreInv, RegistersInv, LeftSound, Recovered
  <2>4. CASE Go("check") /\ flags = {} /\ sel' = Selected(0)
    <3>1. RestoreInv'
      BY <1>2, <2>1, <2>4 DEF Recover, RestoreInv, Selected, Sound
    <3> QED
      BY <2>2, <2>4, <3>1 DEF Go, RegistersInv, LeftSound, Recovered, Ended
  <2> QED
    BY <1>2, <2>3, <2>4 DEF Recover, WriteSelect
<1>3. CASE DebugRegisters
  <2>1. PICK s : AtDebugRegisters(s)
    BY <1>3 DEF DebugRegisters, ARMRegs, SysCall
  <2>2. /\ req'.op = "regs" /\ req'.ap = apSel /\ req'.sound = Sound
        /\ UNCHANGED <<apSel, ctx, csw, mode>>
    BY <2>1 DEF AtDebugRegisters, Start, NoMemory
  <2>3. ModeInv' /\ Recovered'
    BY <2>2 DEF ModeInv, SoundCall, MemoryCall, Recovered
  <2>4. CASE Go("registers") /\ apBank' = 1
    <3>1. RegistersInv'
      BY <2>2, <2>4 DEF RegistersInv, Sound
    <3> QED
      BY <2>3, <2>4, <3>1 DEF Go, RestoreInv, LeftSound, Ended
  <2>5. CASE pc' = "idle" /\ (res' = "failed" \/ ~Sound)
    BY <2>2, <2>3, <2>5 DEF RestoreInv, RegistersInv, LeftSound
  <2> QED
    BY <2>1, <2>4, <2>5 DEF AtDebugRegisters, Report, OpenWindow, Finish, Sound
<1>4. CASE SelectAP
  BY <1>4
  DEF SelectAP, targetVars, callVars, RestoreInv, RegistersInv, ModeInv, InCall, LeftSound, PortSound, Recovered, Ended
<1>5. CASE UNCHANGED swdVars
  BY <1>5
  DEF swdVars, hostVars, targetVars, callVars, RestoreInv, RegistersInv, Selected, ModeInv, SoundCall,
      MemoryCall, InCall, LeftSound, PortSound, Recovered, Ended
<1> QED
  BY <1>1, <1>2, <1>3, <1>4, <1>5

LEMMA SessionStep ==
    ASSUME SwdInductive, SessionInv, [SwdNext]_swdVars
    PROVE  SessionInv'
<1>1. Groups /\ LoopInv /\ SoundCallInv
  BY TypeGroups DEF SwdInductive, Groups
<1> QED
  BY <1>1, SessionSetUp, SessionEndOfCall, SessionTransfer, SessionVerify, SessionCheckCsw,
     SessionRestoreCsw, SessionMoveRegisters, SessionOther
  DEF SwdNext, Step

LEMMA SessionInit == SwdInit => SessionInv
BY DEF SwdInit, SessionInv, RestoreInv, RegistersInv, ModeInv, InCall, LeftSound, Recovered, Ended

LEMMA SessionAlways == SwdSpec => []SessionInv
<1>1. SwdInductive /\ SessionInv /\ [SwdNext]_swdVars => SessionInv'
  BY SessionStep
<1> QED
  BY <1>1, SessionInit, Inductive, PTL DEF SwdSpec

\* What succeeds, or reads and writes that report a memory error, leave a sound
\* session sound (SWD_CheckStatus, SWD_CheckStickyError, SWD_VerifyBlock).
THEOREM ReportedErrorsHealHolds == SwdSpec => []ReportedErrorsHeal
<1>1. SessionInv => ReportedErrorsHeal
  BY DEF SessionInv, LeftSound, PortSound, ReportedErrorsHeal, Sound
<1> QED
  BY <1>1, SessionAlways, PTL

\* The recovery of a debug access brings driver and target together, whatever state
\* it finds them in.
THEOREM RecoveryAgreesHolds == SwdSpec => []RecoveryAgrees
<1>1. SessionInv => RecoveryAgrees
  BY DEF SessionInv, Recovered, RecoveryAgrees, Selected
<1> QED
  BY <1>1, SessionAlways, PTL

----------------------------------------------------------------------------
(* A memory call that nothing disturbs.                                      *)
Undisturbed ==
    /\ MemoryCall
    /\ req.sound
    /\ lost = req.lost
    /\ \A c \in Range : c[2] \div 4 \notin req.refused \cup req.differs

SmoothInv ==
    /\ req.lost <= lost
    /\ Undisturbed =>
        /\ InCall => flags = {} /\ (pc # "next" => how # "slow")
        /\ Ended => res = "ok"

LEMMA SmoothLost ==
    ASSUME Groups, SmoothInv, UNCHANGED req, Lose
    PROVE  SmoothInv'
<1>1. req.lost \in Nat /\ lost \in Nat
  BY SwdAssumption DEF Groups, ReqType, LostType
<1>2. req'.lost < lost'
  BY <1>1 DEF Lose, SmoothInv
<1>3. lost' \in Nat
  BY <1>1 DEF Lose
<1> QED
  BY <1>1, <1>2, <1>3 DEF SmoothInv, Undisturbed

LEMMA SmoothGoesOn ==
    ASSUME SmoothInv, UNCHANGED <<req, lost>>,
           pc' # "idle",
           Undisturbed => flags' = {} /\ (pc' # "next" => how' # "slow")
    PROVE  SmoothInv'
BY DEF SmoothInv, Undisturbed, MemoryCall, Range, Bytes, Ended

\* Calls that transfer no memory are not looked at.
LEMMA SmoothNoMemory ==
    ASSUME Groups, SmoothInv, UNCHANGED req, ~MemoryCall, Lose \/ UNCHANGED lost
    PROVE  SmoothInv'
BY SmoothLost DEF SmoothInv, Undisturbed, MemoryCall

LEMMA SmoothStart ==
    ASSUME Groups, req'.op \in {"regs", "recover"}, req'.lost = lost, Lose \/ UNCHANGED lost
    PROVE  SmoothInv'
BY SwdAssumption DEF Groups, LostType, Lose, SmoothInv, Undisturbed, MemoryCall

LEMMA SmoothEnded ==
    ASSUME SmoothInv, UNCHANGED <<req, lost>>, Undisturbed => pc' = "idle" /\ res' = "ok"
    PROVE  SmoothInv'
BY DEF SmoothInv, Undisturbed, MemoryCall, Range, Bytes, InCall

\* Nothing a call transfers is refused, and nothing it compares differs.
LEMMA SmoothCells ==
    ASSUME Undisturbed, NEW cells, cells \subseteq Range
    PROVE  ~MayRefuse(cells)
BY DEF Undisturbed, MayRefuse

LEMMA SmoothData ==
    ASSUME Groups, LoopInv, InStep, Undisturbed, pc = "data"
    PROVE  ~MayRefuse(Cells(adr))
<1>1. InCall
  BY DEF InCall
<1> DEFINE s == IF how = "slow" THEN 4 ELSE n
<1>2. /\ how \in {"single", "slow"}
      /\ adr \in Nat /\ n \in Nat
      /\ how = "slow" => n >= 4 /\ n % 4 = 0
      /\ s \in Sizes
      /\ adr % s = 0
  BY <1>1 DEF LoopInv, Groups, CallType, Sizes
<1>3. sel = Selected(0) /\ req.ap = apSel /\ csw[apSel].size = s
  BY DEF InStep
<1>4. s \in Nat /\ (s <= n \/ (how = "slow" /\ pc = "data" /\ s <= 4))
  BY <1>1, <1>2 DEF s
<1> HIDE DEF s
<1>5. Cells(adr) = Bytes(adr, adr + s)
  BY <1>2, <1>3, CellsAligned
<1>6. Bytes(adr, adr + s) \subseteq Range
  BY <1>1, <1>4, PieceInRange
<1> QED
  BY <1>5, <1>6, SmoothCells

LEMMA SmoothBlock ==
    ASSUME Groups, LoopInv, InStep, Undisturbed, pc \in {"repeat", "compare"}
    PROVE  RefusedElements = {} /\ Differing = {}
<1>1. InBlock /\ Whole \subseteq Range
  BY SoundBlock
<1>2. ASSUME NEW k \in Elements
      PROVE  /\ ~MayRefuse(Cells(TarAt(k)))
             /\ TarAt(k) \div 4 \notin req.differs
  <2>1. Cells(TarAt(k)) \subseteq Range
    <3>1. k < n \div 4
      BY <1>1 DEF Elements, InBlock
    <3> QED
      BY <1>1, <3>1 DEF Whole, Before
  <2>2. TarAt(k) = adr + 4 * k /\ Cells(TarAt(k)) = Bytes(adr + 4 * k, adr + 4 * k + 4)
    BY <1>1, TarCounts DEF InBlock
  <2>3. adr + 4 * k \in Nat
    BY <1>1 DEF InBlock, Elements
  <2>4. <<req.ap, TarAt(k)>> \in Range
    BY <2>1, <2>2, <2>3 DEF Bytes
  <2> QED
    BY <2>1, <2>4, SmoothCells DEF Undisturbed
<1> QED
  BY <1>2 DEF RefusedElements, Differing

LEMMA SmoothStep ==
    ASSUME SwdInductive, SessionInv, SmoothInv, [SwdNext]_swdVars
    PROVE  SmoothInv'
<1>1. Groups /\ LoopInv /\ SoundCallInv
  BY TypeGroups DEF SwdInductive, Groups
<1>2. ASSUME Undisturbed, InCall
      PROVE  /\ InStep
             /\ flags = {}
             /\ mode = "normal" \/ pc = "compare"
             /\ pc # "next" => how # "slow"
  BY <1>1, <1>2 DEF LoopInv, SoundCallInv, SessionInv, ModeInv, SmoothInv, SoundCall, Undisturbed
<1>3. CASE NextPiece
  BY <1>2, <1>3, SmoothGoesOn DEF NextPiece, targetVars, InCall
<1>4. CASE EndOfCall
  BY <1>4, SmoothEnded DEF EndOfCall, Finish
<1>5. CASE SwitchAP
  <2>1. CASE Lose
    BY <1>1, <1>5, <2>1, SmoothLost DEF SwitchAP
  <2>2. CASE UNCHANGED lost /\ ~Undisturbed
    BY <1>5, <2>2 DEF SwitchAP, SmoothInv, Undisturbed, MemoryCall, Range, Bytes
  <2>3. CASE UNCHANGED lost /\ Undisturbed
    BY <1>2, <1>5, <2>3, SmoothGoesOn DEF SwitchAP, InCall, InStep, Go, loopVars
  <2> QED
    BY <1>5, <2>1, <2>2, <2>3 DEF SwitchAP, ReadAP
<1>6. CASE TestSizesAP
  <2>1. CASE Lose
    BY <1>1, <1>6, <2>1, SmoothLost DEF TestSizesAP
  <2>2. CASE UNCHANGED lost
    <3>1. ~Undisturbed
      BY <1>2, <1>6 DEF TestSizesAP, InCall, InStep
    <3> QED
      BY <1>6, <2>2, <3>1 DEF TestSizesAP, SmoothInv, Undisturbed, MemoryCall, Range, Bytes
  <2> QED
    BY <1>6, <2>1, <2>2 DEF TestSizesAP, WriteAP
<1>7. CASE BankZero
  <2>1. CASE Lose
    BY <1>1, <1>7, <2>1, SmoothLost DEF BankZero
  <2>2. CASE UNCHANGED lost /\ ~Undisturbed
    BY <1>7, <2>2 DEF BankZero, SmoothInv, Undisturbed, MemoryCall, Range, Bytes
  <2>3. CASE UNCHANGED lost /\ Go("size")
    BY <1>2, <1>7, <2>3, SmoothGoesOn DEF BankZero, InCall, Go, loopVars
  <2> QED
    BY <1>2, <1>7, <2>1, <2>2, <2>3 DEF BankZero, WriteSelect, InCall
<1>8. CASE SetSize
  <2>1. CASE Lose
    BY <1>1, <1>8, <2>1, SmoothLost DEF SetSize
  <2>2. CASE UNCHANGED lost /\ ~Undisturbed
    BY <1>8, <2>2 DEF SetSize, SmoothInv, Undisturbed, MemoryCall, Range, Bytes
  <2>3. CASE UNCHANGED <<lost, flags>> /\ Go(AfterSize)
    BY <1>2, <1>8, <2>3, SmoothGoesOn DEF SetSize, InCall, Go, loopVars, AfterSize
  <2> QED
    BY <1>2, <1>8, <2>1, <2>2, <2>3 DEF SetSize, WriteAP, InCall
<1>9. CASE SetTAR
  <2> DEFINE p == IF req.op = "verify" THEN "arm" ELSE "repeat"
  <2>1. CASE Lose
    BY <1>1, <1>9, <2>1, SmoothLost DEF SetTAR
  <2>2. CASE UNCHANGED lost /\ ~Undisturbed
    BY <1>9, <2>2 DEF SetTAR, SmoothInv, Undisturbed, MemoryCall, Range, Bytes
  <2>3. CASE UNCHANGED <<lost, flags>> /\ Go(p)
    BY <1>2, <1>9, <2>3, SmoothGoesOn DEF SetTAR, InCall, Go, loopVars
  <2> QED
    BY <1>2, <1>9, <2>1, <2>2, <2>3 DEF SetTAR, WriteAP, InCall
<1>10. CASE Data
  <2>1. CASE Lose
    BY <1>1, <1>10, <2>1, SmoothLost DEF Data
  <2>2. CASE UNCHANGED lost /\ ~Undisturbed
    BY <1>10, <2>2 DEF Data, SmoothInv, Undisturbed, MemoryCall, Range, Bytes
  <2>3. CASE UNCHANGED lost /\ Undisturbed /\ ~Lose
    <3>1. ~MayRefuse(Cells(adr)) /\ flags = {} /\ mode = "normal" /\ how # "slow"
      BY <1>1, <1>2, <1>10, <2>3, SmoothData DEF Data, InCall
    <3>2. AfterData /\ UNCHANGED flags
      BY <1>10, <2>3, <3>1 DEF Data
    <3>3. pc' = "sticky" /\ how' = how
      BY <3>1, <3>2 DEF AfterData, Go, loopVars
    <3> QED
      BY <1>10, <2>3, <3>1, <3>2, <3>3, SmoothGoesOn DEF Data
  <2> QED
    BY <1>10, <2>1, <2>2, <2>3 DEF Data, ClearSticky
<1>11. CASE Repeat
  <2>1. CASE Lose
    BY <1>1, <1>11, <2>1, SmoothLost DEF Repeat
  <2>2. CASE UNCHANGED lost /\ ~Undisturbed
    BY <1>11, <2>2 DEF Repeat, SmoothInv, Undisturbed, MemoryCall, Range, Bytes
  <2>3. CASE UNCHANGED lost /\ Undisturbed /\ ~Lose
    <3>1. RefusedElements = {} /\ flags = {} /\ mode = "normal" /\ how # "slow"
      BY <1>1, <1>2, <1>11, <2>3, SmoothBlock DEF Repeat, InCall
    <3>2. Go("sticky") /\ UNCHANGED flags
      BY <1>11, <2>3, <3>1 DEF Repeat
    <3> QED
      BY <1>11, <2>3, <3>1, <3>2, SmoothGoesOn DEF Repeat, Go, loopVars
  <2> QED
    BY <1>11, <2>1, <2>2, <2>3 DEF Repeat
<1>12. CASE StickyError
  <2>1. CASE Lose
    BY <1>1, <1>12, <2>1, SmoothLost DEF StickyError
  <2>2. CASE UNCHANGED lost /\ ~Undisturbed
    BY <1>12, <2>2 DEF StickyError, SmoothInv, Undisturbed, MemoryCall, Range, Bytes
  <2>3. CASE UNCHANGED lost /\ Undisturbed /\ ~Lose
    BY <1>2, <1>12, <2>3, SmoothGoesOn DEF StickyError, InCall
  <2> QED
    BY <1>12, <2>1, <2>2, <2>3 DEF StickyError, ClearSticky
<1>13. CASE Arm
  <2>1. CASE Lose
    BY <1>1, <1>13, <2>1, SmoothLost DEF Arm
  <2>2. CASE UNCHANGED lost /\ Go("compare")
    BY <1>2, <1>13, <2>2, SmoothGoesOn DEF Arm, InCall, Go, loopVars
  <2> QED
    BY <1>13, <2>1, <2>2 DEF Arm
<1>14. CASE Compare
  <2>1. CASE Lose
    BY <1>1, <1>14, <2>1, SmoothLost DEF Compare
  <2>2. CASE UNCHANGED lost /\ ~Undisturbed
    BY <1>14, <2>2 DEF Compare, SmoothInv, Undisturbed, MemoryCall, Range, Bytes
  <2>3. CASE UNCHANGED lost /\ Undisturbed /\ ~Lose
    <3>1. RefusedElements = {} /\ Differing = {} /\ flags = {}
      BY <1>1, <1>2, <1>14, <2>3, SmoothBlock DEF Compare, InCall
    <3>2. pc' = "next" /\ UNCHANGED flags
      BY <1>14, <2>3, <3>1 DEF Compare
    <3> QED
      BY <1>14, <2>3, <3>1, <3>2, SmoothGoesOn DEF Compare
  <2> QED
    BY <1>14, <2>1, <2>2, <2>3 DEF Compare
<1>15. CASE CheckCsw \/ RestoreCsw \/ MoveRegisters
  <2>1. UNCHANGED req /\ ~MemoryCall
    BY <1>1, <1>15 DEF CheckCsw, RestoreCsw, MoveRegisters, LoopInv
  <2>2. Lose \/ UNCHANGED lost
    BY <1>15 DEF CheckCsw, RestoreCsw, MoveRegisters, ReadAP, WriteAP, Report
  <2> QED
    BY <1>1, <2>1, <2>2, SmoothNoMemory
<1>16. CASE Call
  <2>1. PICK r \in Requests : Start(r) /\ pc' = "next" /\ UNCHANGED <<lost, flags>>
    BY <1>16 DEF Call, targetVars
  <2>2. req'.lost = lost /\ (req'.sound => flags = {}) /\ lost \in Nat
    BY <1>1, <2>1, SwdAssumption DEF Start, Sound, Groups, LostType
  <2> QED
    BY <2>1, <2>2 DEF SmoothInv, Undisturbed, Ended
<1>17. CASE Recover \/ DebugRegisters
  <2>1. req'.op \in {"regs", "recover"} /\ req'.lost = lost
    BY <1>17 DEF Recover, DebugRegisters, ARMRegs, SysCall, AtDebugRegisters, Start, NoMemory
  <2>2. Lose \/ UNCHANGED lost
    BY <1>17
    DEF Recover, DebugRegisters, ARMRegs, SysCall, AtDebugRegisters, WriteSelect, Report
  <2> QED
    BY <1>1, <2>1, <2>2, SmoothStart
<1>18. CASE SelectAP
  BY <1>18
  DEF SelectAP, callVars, targetVars, SmoothInv, Undisturbed, MemoryCall, Range, Bytes, InCall, Ended
<1>19. CASE UNCHANGED swdVars
  BY <1>19
  DEF swdVars, callVars, targetVars, SmoothInv, Undisturbed, MemoryCall, Range, Bytes, InCall, Ended
<1> QED
  BY <1>3, <1>4, <1>5, <1>6, <1>7, <1>8, <1>9, <1>10, <1>11, <1>12, <1>13, <1>14, <1>15,
     <1>16, <1>17, <1>18, <1>19 DEF SwdNext, Step

LEMMA SmoothInit == SwdInit => SmoothInv
BY DEF SwdInit, SmoothInv, InCall, Ended

\* Only a lost answer, or a word that is refused or differs, makes a read, write or
\* verify from a sound session fail: the driver's own bookkeeping never does.
THEOREM GoodCallSucceedsHolds == SwdSpec => []GoodCallSucceeds
<1>1. SwdInductive /\ SessionInv /\ SmoothInv /\ [SwdNext]_swdVars => SmoothInv'
  BY SmoothStep
<1>2. SmoothInv => GoodCallSucceeds
  BY DEF SmoothInv, Undisturbed, GoodCallSucceeds
<1> QED
  BY <1>1, <1>2, SmoothInit, SessionAlways, Inductive, PTL DEF SwdSpec
----------------------------------------------------------------------------
(* The window of the debug registers.                                        *)

\* Where a call stands that transfers no memory.
Special == {"check", "restore", "registers"}

\* Memory is accessed through a port that was analysed, the other calls are made
\* through that of the CPU.
KnownInv ==
    /\ ctx[CpuAP].known
    /\ pc \notin {"idle", "next", "switch"} => ctx[apSel].known
    /\ pc \in Special => apSel = CpuAP

LEMMA KnownKept ==
    ASSUME KnownInv, UNCHANGED <<apSel, ctx>>,
           pc' \in {"idle", "next", "switch"} \/ (pc' \notin Special /\ ctx[apSel].known)
    PROVE  KnownInv'
BY DEF KnownInv, Special

LEMMA KnownFail ==
    ASSUME NEW r, Fail(r)
    PROVE  pc' \in {"idle", "switch"}
BY DEF Fail, Finish

LEMMA KnownStep ==
    ASSUME Groups, KnownInv, [SwdNext]_swdVars
    PROVE  /\ KnownInv'
           /\ \A a \in AP : ctx[a].known => ctx'[a].known
<1>1. CASE SwitchAP
  <2>1. CASE ctx[apSel].known
    <3>1. Go("bank") /\ UNCHANGED hostVars
      BY <1>1, <2>1 DEF SwitchAP
    <3> QED
      BY <2>1, <3>1, KnownKept DEF Go, Special, hostVars
  <2>2. CASE ~ctx[apSel].known
    <3>1. /\ ctx' = [ctx EXCEPT ![apSel].known = (pc' = "test8")]
          /\ UNCHANGED apSel
          /\ ReadAP(15, Go("test8"))
      BY <1>1, <2>2 DEF SwitchAP
    <3>2. pc' \in {"idle", "switch", "test8"}
      BY <3>1, KnownFail DEF ReadAP, Go
    <3>3. apSel \in AP /\ ctx \in [AP -> [known : BOOLEAN, csw : Csw]]
      BY DEF Groups, HostType
    <3>4. \A a \in AP : ctx[a].known => ctx'[a].known
      BY <2>2, <3>1, <3>3
    <3>5. pc' = "test8" => ctx'[apSel].known
      BY <3>1, <3>3
    <3> QED
      BY <3>1, <3>2, <3>4, <3>5, SwdAssumption DEF KnownInv, Special
  <2> QED
    BY <2>1, <2>2
<1>2. CASE SetSize
  <2>1. UNCHANGED apSel /\ ctx[apSel].known /\ pc' \notin Special
    BY <1>2, KnownFail DEF SetSize, WriteAP, Go, AfterSize, KnownInv, Special
  <2>2. \A a \in AP : ctx'[a].known = ctx[a].known
    BY <1>2 DEF SetSize, Groups, HostType
  <2> QED
    BY <2>1, <2>2, SwdAssumption DEF KnownInv, Groups, HostType
<1>3. CASE TestSizesAP \/ BankZero \/ SetTAR
  <2>1. UNCHANGED <<apSel, ctx>> /\ ctx[apSel].known /\ pc' \notin Special
    BY <1>3, KnownFail DEF TestSizesAP, BankZero, SetTAR, WriteAP, WriteSelect, Go, KnownInv, Special
  <2> QED
    BY <2>1, KnownKept
<1>4. CASE Data \/ Repeat \/ StickyError \/ Arm \/ Compare
  <2>1. UNCHANGED <<apSel, ctx>> /\ ctx[apSel].known
    BY <1>4 DEF Data, Repeat, StickyError, Arm, Compare, KnownInv, hostVars
  <2>2. pc' \notin Special
    BY <1>4, KnownFail
    DEF Data, Repeat, StickyError, Arm, Compare, ClearSticky, AfterData, Go, Special
  <2> QED
    BY <2>1, <2>2, KnownKept
<1>5. CASE NextPiece \/ EndOfCall \/ Call \/ RestoreCsw \/ MoveRegisters
  BY <1>5, KnownKept, KnownFail
  DEF NextPiece, EndOfCall, Call, RestoreCsw, MoveRegisters, Report, WriteAP, Finish, hostVars
<1>6. CASE Recover \/ CheckCsw \/ DebugRegisters
  <2>1. UNCHANGED <<apSel, ctx>> /\ apSel = CpuAP
    BY <1>6
    DEF Recover, CheckCsw, DebugRegisters, ARMRegs, SysCall, AtDebugRegisters, KnownInv, Special
  <2> QED
    BY <2>1 DEF KnownInv
<1>7. CASE SelectAP
  BY <1>7 DEF SelectAP, callVars, KnownInv, Special
<1>8. CASE UNCHANGED swdVars
  BY <1>8 DEF swdVars, hostVars, callVars, KnownInv
<1> QED
  BY <1>1, <1>2, <1>3, <1>4, <1>5, <1>6, <1>7, <1>8 DEF SwdNext, Step

Alone == lost = 0 /\ \A a \in AP \ {CpuAP} : ~ctx[a].known

Window1 ==
    /\ sel.ap = CpuAP
    /\ sel.bank \in {0, 1}
    /\ sel.bank = 1 => tar[CpuAP] = DebugRegs

OpenWhenDone ==
    /\ req.op = "regs"
    /\ pc = "registers" \/ (Ended /\ res = "ok")
    => sel.bank = 1

WindowInv == Alone => Window1 /\ OpenWhenDone

\* A write of CSW or TAR selects bank 0, or finds it selected, or does nothing.
LEMMA WindowWriteAP ==
    ASSUME Groups, BankInv, Window1, lost = 0, lost' = 0, apSel = CpuAP,
           NEW csw1, NEW tar1, NEW go, WriteAP(csw1, tar1, go)
    PROVE  Window1'
<1>1. UNCHANGED lost /\ ~Lose
  BY DEF Lose
<1>2. CASE ApSelect(0)
  <2>1. sel' = Selected(0) \/ (sel' = sel /\ apBank = 0)
    BY <1>2 DEF ApSelect, NeedSelect
  <2>2. sel'.bank = 0 /\ sel'.ap = CpuAP
    BY <2>1 DEF Selected, BankInv, BankAgrees, Window1
  <2> QED
    BY <2>2 DEF Window1
<1>3. CASE UNCHANGED <<selectVars, tar>>
  BY <1>3 DEF selectVars, Window1
<1> QED
  BY <1>1, <1>2, <1>3 DEF WriteAP

LEMMA WindowStep ==
    ASSUME Groups, LoopInv, RestoreInv, BankInv, KnownInv, WindowInv, [SwdNext]_swdVars
    PROVE  WindowInv'
<1> SUFFICES ASSUME Alone'
             PROVE  (Window1 /\ OpenWhenDone)'
  BY DEF WindowInv
<1>1. lost = 0 /\ lost' = 0
  <2>1. lost \in Nat /\ lost' = 0
    BY DEF BankInv, Alone
  <2>2. UNCHANGED lost \/ Lose
    BY DEF SwdNext, Step, NextPiece, EndOfCall, SwitchAP, ReadAP, TestSizesAP, WriteAP, BankZero,
       WriteSelect, SetSize, SetTAR, Data, ClearSticky, Repeat, StickyError, Arm, Compare,
       CheckCsw, RestoreCsw, MoveRegisters, Report, Call, Recover, DebugRegisters, ARMRegs,
       SysCall, AtDebugRegisters, SelectAP, swdVars
  <2> QED
    BY <2>1, <2>2 DEF Lose
<1>2. ~Lose
  BY <1>1 DEF Lose
<1>3. Alone
  BY <1>1, KnownStep DEF Alone
<1>4. Window1 /\ OpenWhenDone /\ apSel \in AP
  BY <1>3 DEF WindowInv, Groups, HostType
<1>5. pc \notin {"idle", "next", "switch"} => apSel = CpuAP
  BY <1>3, <1>4 DEF KnownInv, Alone
\* A step of another call only has to keep the window.
<1>6. ASSUME pc \notin {"idle", "registers"}, UNCHANGED req, Window1'
      PROVE  (Window1 /\ OpenWhenDone)'
  <2>1. req.op # "regs"
    BY <1>6 DEF LoopInv, RestoreInv, InCall, MemoryCall
  <2> QED
    BY <1>6, <2>1 DEF OpenWhenDone
<1>7. CASE NextPiece \/ EndOfCall \/ Repeat \/ StickyError \/ Arm \/ Compare
  <2>1. pc \notin {"idle", "registers"} /\ UNCHANGED <<req, sel, tar>>
    BY <1>7 DEF NextPiece, EndOfCall, Repeat, StickyError, Arm, Compare, targetVars
  <2> QED
    BY <1>4, <1>6, <2>1 DEF Window1
<1>8. CASE SwitchAP
  <2>1. pc \notin {"idle", "registers"} /\ UNCHANGED <<req, tar>>
    BY <1>8 DEF SwitchAP
  <2>2. UNCHANGED sel
    <3>1. CASE ReadAP(15, Go("test8")) /\ ctx' = [ctx EXCEPT ![apSel].known = (pc' = "test8")]
               /\ ~ctx[apSel].known
      <4>1. pc' # "test8"
        <5>1. apSel # CpuAP
          BY <3>1 DEF KnownInv
        <5>2. ~ctx'[apSel].known
          BY <1>4, <5>1 DEF Alone
        <5> QED
          BY <1>4, <3>1, <5>2 DEF Groups, HostType
      <4> QED
        BY <1>2, <3>1, <4>1 DEF ReadAP, Go, selectVars
    <3> QED
      BY <1>8, <3>1 DEF SwitchAP
  <2> QED
    BY <1>4, <1>6, <2>1, <2>2 DEF Window1
<1>9. CASE TestSizesAP \/ SetTAR \/ RestoreCsw
  <2>1. pc \notin {"idle", "registers"} /\ UNCHANGED req /\ apSel = CpuAP
    BY <1>5, <1>9 DEF TestSizesAP, SetTAR, RestoreCsw
  <2>2. PICK csw1, tar1, go : WriteAP(csw1, tar1, go)
    BY <1>9 DEF TestSizesAP, SetTAR, RestoreCsw
  <2>3. Window1'
    BY <1>1, <1>4, <2>1, <2>2, WindowWriteAP
  <2> QED
    BY <1>6, <2>1, <2>3
<1>10. CASE SetSize
  <2>1. pc \notin {"idle", "registers"} /\ UNCHANGED req /\ apSel = CpuAP
    BY <1>5, <1>10 DEF SetSize
  <2>2. CASE UNCHANGED <<selectVars, tar>>
    BY <1>4, <1>6, <2>1, <2>2 DEF selectVars, Window1
  <2>3. CASE WriteAP([csw EXCEPT ![Reached(0)] = WantedCsw], tar, Go(AfterSize))
    <3>1. Window1'
      BY <1>1, <1>4, <2>1, <2>3, WindowWriteAP
    <3> QED
      BY <1>6, <2>1, <3>1
  <2> QED
    BY <1>10, <2>2, <2>3 DEF SetSize, selectVars
<1>11. CASE BankZero
  <2>1. pc \notin {"idle", "registers"} /\ UNCHANGED <<req, tar>> /\ apSel = CpuAP
    BY <1>5, <1>11 DEF BankZero
  <2>2. sel' \in {sel, Selected(0)}
    BY <1>2, <1>11 DEF BankZero, WriteSelect, selectVars
  <2>3. Window1'
    BY <1>4, <2>1, <2>2 DEF Window1, Selected
  <2> QED
    BY <1>6, <2>1, <2>3
<1>12. CASE Data
  <2>1. pc \notin {"idle", "registers"} /\ UNCHANGED <<req, sel>> /\ tar' \in {tar, TarSet(sel, adr)}
    BY <1>12 DEF Data
  <2>2. Window1'
    BY <1>4, <2>1 DEF Window1, TarSet
  <2> QED
    BY <1>6, <2>1, <2>2
<1>13. CASE Call \/ SelectAP \/ UNCHANGED swdVars
  BY <1>4, <1>13
  DEF Call, SelectAP, swdVars, callVars, targetVars, Window1, OpenWhenDone, Ended
<1>14. CASE CheckCsw
  <2>1. pc = "check" /\ UNCHANGED <<req, tar>> /\ apSel = CpuAP
    BY <1>5, <1>14 DEF CheckCsw
  <2>2. sel' \in {sel, Selected(0)}
    BY <1>2, <1>14 DEF CheckCsw, ReadAP, ApSelect, selectVars
  <2>3. Window1'
    BY <1>4, <2>1, <2>2 DEF Window1, Selected
  <2> QED
    BY <1>6, <2>1, <2>3
<1>15. CASE MoveRegisters
  BY <1>4, <1>15 DEF MoveRegisters, Window1, OpenWhenDone
<1>16. CASE Recover
  <2>1. req'.op = "recover" /\ UNCHANGED tar /\ apSel = CpuAP /\ sel' \in {sel, Selected(0)}
    BY <1>2, <1>16 DEF Recover, Start, NoMemory, WriteSelect
  <2> QED
    BY <1>4, <2>1 DEF Window1, OpenWhenDone, Selected
<1>17. CASE DebugRegisters
  <2>1. PICK s \in {sel, Selected(0)} : AtDebugRegisters(s)
    BY <1>17 DEF DebugRegisters, ARMRegs, SysCall
  <2>2. apSel = CpuAP /\ s.ap = CpuAP /\ s.bank \in {0, 1}
    BY <1>4, <2>1 DEF AtDebugRegisters, Window1, Selected
  <2>3. WindowTar(s)[CpuAP] = DebugRegs
    <3>1. CASE s.bank = 0
      BY <2>2, <3>1, SwdAssumption DEF WindowTar, TarSet, Groups, TargetType
    <3>2. CASE s.bank = 1
      BY <1>4, <2>1, <2>2, <3>2 DEF WindowTar, TarSet, Selected, Window1
    <3> QED
      BY <2>2, <3>1, <3>2
  <2>4. /\ \/ OpenWindow(WindowTar(s))
           \/ sel' \in {sel, s} /\ tar' = tar
        /\ pc' = "registers" \/ res' = "ok" => OpenWindow(WindowTar(s))
    BY <1>2, <2>1 DEF AtDebugRegisters, Report, Finish
  <2>5. CASE OpenWindow(WindowTar(s))
    BY <2>2, <2>3, <2>5 DEF OpenWindow, Selected, Window1, OpenWhenDone
  <2>6. CASE sel' \in {sel, s} /\ tar' = tar /\ pc' # "registers" /\ res' # "ok"
    <3>1. Window1'
      BY <1>4, <2>1, <2>6, <2>2 DEF Window1, Selected
    <3> QED
      BY <2>6, <3>1 DEF OpenWhenDone
  <2> QED
    BY <2>4, <2>5, <2>6
<1> QED
  BY <1>7, <1>8, <1>9, <1>10, <1>11, <1>12, <1>13, <1>14, <1>15,
     <1>16, <1>17 DEF SwdNext, Step

\* A function of the debug registers that succeeds leaves the window on them, although
\* the system calls write TAR in whatever bank is selected.
THEOREM WindowOnDebugRegistersHolds == SwdSpec => []WindowOnDebugRegisters
<1>1. SwdInit => KnownInv /\ WindowInv
  BY SwdAssumption DEF SwdInit, KnownInv, WindowInv, Window1, OpenWhenDone, Ended
<1>2. SwdInductive => Groups /\ LoopInv
  BY TypeGroups DEF SwdInductive, Groups
<1>3. /\ SwdInductive /\ SessionInv /\ BankInv
      /\ KnownInv /\ WindowInv /\ [SwdNext]_swdVars
      => KnownInv' /\ WindowInv'
  BY <1>2, KnownStep, WindowStep DEF SessionInv
<1>4. WindowInv => WindowOnDebugRegisters
  BY DEF WindowInv, Alone, Window1, OpenWhenDone, WindowOnDebugRegisters
<1> QED
  BY <1>1, <1>3, <1>4, Inductive, SessionAlways, BankAlways, PTL DEF SwdSpec
----------------------------------------------------------------------------
(* Progress.                                                                 *)

\* The steps that a piece of memory still takes, and those of a block that would
\* be repeated slowly.  The slow accesses have passed their last word before they
\* look for its late error.
Stage == CASE pc = "next" -> 31
           [] pc = "switch" -> 12
           [] pc = "test8" -> 11
           [] pc = "test16" -> 10
           [] pc = "bank" -> 9
           [] pc = "size" -> 8
           [] pc = "tar" -> 7
           [] pc \in {"repeat", "arm"} -> 6
           [] pc = "compare" -> 5
           [] pc = "data" -> 4
           [] pc = "sticky" -> IF how = "slow" THEN 35 ELSE 3
Untried == IF how = "block" /\ pc # "next" THEN 16 ELSE 0
Variant == IF pc = "idle" THEN 0
           ELSE IF pc = "check" THEN 2
           ELSE IF pc \in {"restore", "registers"} THEN 1
           ELSE 64 * many + Untried + Stage

LEMMA StageBounds ==
    ASSUME CallType, InCall
    PROVE  /\ Untried \in {0, 16} /\ Stage \in 3 .. 35
           /\ many \in Nat /\ Variant = 64 * many + Untried + Stage
           /\ Variant \in Nat /\ Variant > 2
<1>1. Untried \in {0, 16}
  BY DEF Untried
<1>2. Stage \in 3 .. 35
  BY DEF CallType, InCall, Stage, Pcs
<1>3. many \in Nat /\ Variant = 64 * many + Untried + Stage
  BY DEF CallType, InCall, Variant
<1> QED
  BY <1>1, <1>2, <1>3

LEMMA FinishFalls ==
    ASSUME NEW r, Finish(r)
    PROVE  Variant' = 0
BY DEF Finish, Variant

LEMMA FailFalls ==
    ASSUME CallType, InCall, pc # "next", NEW r, Fail(r)
    PROVE  Variant' < Variant
<1>1. CASE r = "memory" /\ how = "block"
  <2>1. Untried = 16 /\ Untried' = 0 /\ Stage' = 12 /\ many' = many
    BY <1>1 DEF Fail, Untried, Stage
  <2>2. Variant' = 64 * many + 12
    BY <1>1, <2>1 DEF Fail, Variant, CallType
  <2> QED
    BY <2>1, <2>2, StageBounds
<1>2. CASE ~(r = "memory" /\ how = "block")
  BY <1>2, FinishFalls, StageBounds DEF Fail
<1> QED
  BY <1>1, <1>2

\* On to a later transfer of the same piece.
LEMMA GoFalls ==
    ASSUME CallType, InCall, pc # "next", NEW p \in Pcs \ {"idle", "check", "restore", "registers", "next"},
           Go(p), Stage' < Stage
    PROVE  Variant' < Variant
<1>1. pc' = p /\ many' = many /\ how' = how
  BY DEF Go, loopVars
<1>2. Variant' = 64 * many' + Untried' + Stage' /\ Untried' = Untried
  BY <1>1 DEF Variant, Untried
<1>3. Stage' \in Nat
  BY <1>1 DEF Stage, Pcs
<1> QED
  BY <1>1, <1>2, <1>3, StageBounds

\* On to the next piece, behind k bytes.
LEMMA AdvanceFalls ==
    ASSUME CallType, InCall, pc # "next", NEW k \in Nat \ {0}, k <= many, Advance(k), pc' = "next"
    PROVE  Variant' < Variant
<1>1. many' = many - k /\ many' \in Nat
  BY DEF Advance, CallType
<1>2. Variant' = 64 * many' + 31
  BY <1>1 DEF Variant, Untried, Stage
<1> QED
  BY <1>1, <1>2, StageBounds

LEMMA VariantStep ==
    ASSUME SwdInductive, Step
    PROVE  Variant' < Variant
<1>1. CallType /\ LoopInv /\ Groups
  BY TypeGroups DEF SwdInductive, Groups
<1>2. CASE NextPiece
  <2>1. pc = "next" /\ pc' = "switch" /\ many' = many /\ how' \in {"single", "block"}
    BY <1>2 DEF NextPiece
  <2>2. many \in Nat
    BY <1>1 DEF CallType
  <2>3. Variant' = 64 * many + 12 \/ Variant' = 64 * many + 28
    BY <2>1, <2>2 DEF Variant, Untried, Stage
  <2>4. Variant = 64 * many + 31
    BY <2>1, <2>2 DEF Variant, Untried, Stage
  <2> QED
    BY <2>2, <2>3, <2>4
<1>3. CASE EndOfCall
  <2>1. InCall
    BY <1>3 DEF EndOfCall, InCall
  <2> QED
    BY <1>1, <1>3, <2>1, FinishFalls, StageBounds DEF EndOfCall
<1>4. CASE SwitchAP
  <2>1. pc = "switch" /\ InCall
    BY <1>4 DEF SwitchAP, InCall
  <2>2. Go("bank") \/ Go("test8") \/ Fail("failed")
    BY <1>4 DEF SwitchAP, ReadAP
  <2>3. Go("bank") \/ Go("test8") => Stage' < Stage
    BY <2>1 DEF Go, Stage
  <2> QED
    BY <1>1, <2>1, <2>2, <2>3, GoFalls, FailFalls DEF Pcs
<1>5. CASE TestSizesAP
  <2>1. InCall /\ pc # "next"
    BY <1>5 DEF TestSizesAP, InCall
  <2>2. \/ pc = "test8" /\ Go("test16")
        \/ pc = "test16" /\ Go("bank")
        \/ Fail("failed")
    BY <1>5 DEF TestSizesAP, WriteAP
  <2>3. CASE ~Fail("failed")
    <3>1. Stage' < Stage
      BY <2>2, <2>3 DEF Go, Stage
    <3> QED
      BY <1>1, <2>1, <2>2, <2>3, <3>1, GoFalls DEF Pcs
  <2> QED
    BY <1>1, <2>1, <2>3, FailFalls
<1>6. CASE BankZero
  <2>1. pc = "bank" /\ InCall
    BY <1>6 DEF BankZero, InCall
  <2>2. Go("size") \/ Fail("failed")
    BY <1>6 DEF BankZero, WriteSelect
  <2>3. Go("size") => Stage' < Stage
    BY <2>1 DEF Go, Stage
  <2> QED
    BY <1>1, <2>1, <2>2, <2>3, GoFalls, FailFalls DEF Pcs
<1>7. CASE SetSize
  <2>1. pc = "size" /\ InCall
    BY <1>7 DEF SetSize, InCall
  <2>2. Go(AfterSize) \/ Fail("failed")
    BY <1>7 DEF SetSize, WriteAP
  <2>3. Go(AfterSize) => Stage' < Stage
    BY <2>1 DEF Go, Stage, AfterSize
  <2> QED
    BY <1>1, <2>1, <2>2, <2>3, GoFalls, FailFalls DEF Pcs, AfterSize
<1>8. CASE SetTAR
  <2> DEFINE p == IF req.op = "verify" THEN "arm" ELSE "repeat"
  <2>1. pc = "tar" /\ InCall
    BY <1>8 DEF SetTAR, InCall
  <2>2. Go(p) \/ Fail("failed")
    BY <1>8 DEF SetTAR, WriteAP
  <2>3. Go(p) => Stage' < Stage
    BY <2>1 DEF Go, Stage
  <2> QED
    BY <1>1, <2>1, <2>2, <2>3, GoFalls, FailFalls DEF Pcs
<1>9. CASE Data
  <2>1. pc = "data" /\ how # "block" /\ InCall
    BY <1>1, <1>9 DEF Data, LoopInv, InCall
  <2>2. CASE AfterData /\ how # "slow"
    <3>1. Go("sticky") /\ Stage' < Stage
      BY <2>1, <2>2 DEF AfterData, Go, Stage, loopVars
    <3> QED
      BY <1>1, <2>1, <3>1, GoFalls DEF Pcs
  <2>3. CASE AfterData /\ how = "slow"
    <3>1. /\ many' = many - 4 /\ how' = "slow"
          /\ pc' \in {"sticky", "switch"}
      BY <2>3 DEF AfterData, Advance
    <3>2. Untried' = 0 /\ Stage' \in {35, 12}
      BY <3>1 DEF Untried, Stage
    <3>3. Variant' = 64 * many' + Untried' + Stage'
      BY <3>1 DEF Variant
    <3> QED
      BY <1>1, <2>1, <3>1, <3>2, <3>3, StageBounds
  <2>4. CASE Fail("failed") \/ Fail("memory")
    BY <1>1, <2>1, <2>4, FailFalls
  <2> QED
    BY <1>9, <2>2, <2>3, <2>4 DEF Data, ClearSticky
<1>10. CASE Repeat
  <2>1. pc = "repeat" /\ how = "block" /\ InCall
    BY <1>1, <1>10 DEF Repeat, LoopInv, InCall
  <2>2. Go("sticky") \/ Fail("failed")
    BY <1>10 DEF Repeat
  <2>3. Go("sticky") => Stage' < Stage
    BY <2>1 DEF Go, Stage, loopVars
  <2> QED
    BY <1>1, <2>1, <2>2, <2>3, GoFalls, FailFalls DEF Pcs
<1>11. CASE StickyError
  <2>1. pc = "sticky" /\ InCall
    BY <1>11 DEF StickyError, InCall
  <2>2. CASE pc' = "next" /\ how = "slow" /\ UNCHANGED many
    <3>1. Variant' = 64 * many + 31 /\ Stage = 35
      BY <1>1, <2>1, <2>2 DEF Variant, Untried, Stage, CallType
    <3> QED
      BY <1>1, <2>1, <3>1, StageBounds
  <2>3. CASE pc' = "next" /\ how # "slow" /\ Advance(n)
    <3>1. n \in Nat \ {0} /\ n <= many
      BY <1>1, <2>1, <2>3 DEF LoopInv, CallType
    <3> QED
      BY <1>1, <2>1, <2>3, <3>1, AdvanceFalls
  <2>4. CASE Fail("failed") \/ Fail("memory")
    BY <1>1, <2>1, <2>4, FailFalls
  <2> QED
    BY <1>11, <2>2, <2>3, <2>4 DEF StickyError, ClearSticky
<1>12. CASE Arm
  <2>1. pc = "arm" /\ InCall
    BY <1>12 DEF Arm, InCall
  <2>2. Go("compare") \/ Fail("failed")
    BY <1>12 DEF Arm
  <2>3. Go("compare") => Stage' < Stage
    BY <2>1 DEF Go, Stage
  <2> QED
    BY <1>1, <2>1, <2>2, <2>3, GoFalls, FailFalls DEF Pcs
<1>13. CASE Compare
  <2>1. pc = "compare" /\ InCall
    BY <1>13 DEF Compare, InCall
  <2>2. CASE pc' = "next" /\ Advance(n)
    <3>1. n \in Nat \ {0} /\ n <= many
      BY <1>1, <2>1 DEF LoopInv, CallType
    <3> QED
      BY <1>1, <2>1, <2>2, <3>1, AdvanceFalls
  <2>3. CASE Fail("failed") \/ Fail("memory")
    BY <1>1, <2>1, <2>3, FailFalls
  <2> QED
    BY <1>13, <2>2, <2>3 DEF Compare
<1>14. CASE CheckCsw
  BY <1>14 DEF CheckCsw, ReadAP, Fail, Finish, Go, Variant
<1>15. CASE RestoreCsw
  <2>1. pc = "restore" /\ (Finish("ok") \/ Finish("failed"))
    BY <1>15 DEF RestoreCsw, WriteAP, Fail
  <2> QED
    BY <2>1, FinishFalls DEF Variant
<1>16. CASE MoveRegisters
  BY <1>16 DEF MoveRegisters, Report, Finish, Variant
<1> QED
  BY <1>2, <1>3, <1>4, <1>5, <1>6, <1>7, <1>8, <1>9, <1>10, <1>11, <1>12, <1>13, <1>14,
     <1>15, <1>16 DEF Step

\* What a call may do: each of its steps leaves less to do, a call for k bytes
\* begins with 64 * k + 31, the recovery takes at most two more steps and a function of
\* the debug registers one.
CallShrinks ==
    /\ Variant \in Nat
    /\ Step => Variant' < Variant
    /\ Call => Variant' = 64 * many' + 31
    /\ Recover => Variant' =< 2
    /\ DebugRegisters => Variant' =< 1

\* A call takes a number of steps that its length bounds, whatever the target refuses
\* and the link loses: the loop over the pieces never repeats one, a block that
\* fails is repeated word by word only once, and SWD_ReadARMMem and the others
\* leave.  This is the safety part of CallEnds.
THEOREM CallIsBounded == SwdSpec => [][CallShrinks]_swdVars
<1>1. SwdInductive => Variant \in Nat
  <2> SUFFICES ASSUME SwdInductive PROVE Variant \in Nat
    OBVIOUS
  <2>1. CallType
    BY TypeGroups DEF SwdInductive
  <2>2. InCall => Variant \in Nat
    BY <2>1, StageBounds
  <2> QED
    BY <2>2 DEF InCall, Variant
<1>2. SwdInductive => (Step => Variant' < Variant)
  BY VariantStep
<1>3. ASSUME Call PROVE Variant' = 64 * many' + 31
  <2>1. PICK r \in Requests : pc' = "next" /\ many' = r.many
    BY <1>3 DEF Call
  <2>2. many' \in Nat
    BY <2>1, SwdAssumption DEF RequestType
  <2> QED
    BY <2>1, <2>2 DEF Variant, Untried, Stage
<1>4. ASSUME Recover PROVE Variant' =< 2
  <2>1. pc' = "check" \/ pc' = "idle" \/ Fail("failed")
    BY <1>4 DEF Recover, WriteSelect, Go
  <2> QED
    BY <2>1, FinishFalls DEF Variant, Fail
<1>5. ASSUME DebugRegisters PROVE Variant' =< 1
  <2>1. pc' \in {"idle", "registers"}
    BY <1>5 DEF DebugRegisters, ARMRegs, SysCall, AtDebugRegisters, Report, Go, Finish
  <2> QED
    BY <2>1 DEF Variant
<1>6. SwdInductive => CallShrinks
  BY <1>1, <1>2, <1>3, <1>4, <1>5 DEF CallShrinks
<1> QED
  BY <1>6, Inductive, PTL DEF SwdSpec
=============================================================================
