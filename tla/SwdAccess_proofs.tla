-------------------------- MODULE SwdAccess_proofs --------------------------
(* Proofs about the SWD access layer, for any access ports, page size, calls *)
(* and number of lost answers: the copy of the selected bank agrees with the *)
(* target; a call from a sound session touches only the bytes it was asked   *)
(* for, and all of them if it succeeds.  The latter rest on SwdInductive.    *)
EXTENDS SwdAccess, TLAPS

(* The selected bank.                                                        *)
BankInv == lost \in Nat /\ BankAgrees

LEMMA BankInit == SwdInit => BankInv
BY SwdAssumption DEF SwdInit, BankInv, BankAgrees

LEMMA BankKept ==
    ASSUME BankInv, UNCHANGED <<apBank, sel, lost>>
    PROVE  BankInv'
BY DEF BankInv, BankAgrees

LEMMA BankLost ==
    ASSUME BankInv, Lose
    PROVE  BankInv'
BY DEF BankInv, BankAgrees, Lose

LEMMA BankApSelect ==
    ASSUME BankInv, NEW b \in Banks, ApSelect(b), UNCHANGED lost
    PROVE  BankInv'
BY DEF BankInv, BankAgrees, ApSelect, NeedSelect, Selected

LEMMA BankStep ==
    ASSUME BankInv, [SwdNext]_swdVars
    PROVE  BankInv'
<1> USE DEF selectVars, hostVars, targetVars
<1>1. CASE UNCHANGED swdVars
  BY <1>1, BankKept DEF swdVars
<1>2. CASE NextPiece \/ EndOfCall \/ Call \/ SelectAP
  BY <1>2, BankKept DEF NextPiece, EndOfCall, Call, SelectAP
<1>3. CASE Data \/ Repeat
  BY <1>3, BankKept, BankLost DEF Data, Repeat, ClearSticky
<1>4. CASE StickyError \/ Arm \/ Compare
  BY <1>4, BankKept, BankLost DEF StickyError, Arm, Compare, ClearSticky
<1>5. CASE SwitchAP
  BY <1>5, BankKept, BankLost, BankApSelect DEF SwitchAP, ReadAP, Banks
<1>6. CASE TestSizesAP
  BY <1>6, BankKept, BankLost, BankApSelect DEF TestSizesAP, WriteAP, Banks
<1>7. CASE SetSize
  BY <1>7, BankKept, BankLost, BankApSelect DEF SetSize, WriteAP, Banks
<1>8. CASE SetTAR
  BY <1>8, BankKept, BankLost, BankApSelect DEF SetTAR, WriteAP, Banks
<1>9. CASE RestoreCsw
  BY <1>9, BankKept, BankLost, BankApSelect DEF RestoreCsw, WriteAP, Banks
<1>10. CASE BankZero
  BY <1>10, BankKept, BankLost
  DEF BankZero, WriteSelect, Selected, BankInv, BankAgrees
<1>11. CASE Recover
  BY <1>11, BankKept, BankLost
  DEF Recover, WriteSelect, Selected, BankInv, BankAgrees
<1>12. CASE DebugRegisters
  BY <1>12, BankKept, BankLost
  DEF DebugRegisters, ARMRegs, SysCall, AtDebugRegisters, Report, OpenWindow, Selected,
      BankInv, BankAgrees
<1>13. CASE CheckCsw
  BY <1>13, BankKept, BankLost, BankApSelect DEF CheckCsw, ReadAP, Banks
<1>14. CASE MoveRegisters
  BY <1>14, BankKept, BankLost DEF MoveRegisters, Report
<1> QED
  BY <1>1, <1>2, <1>3, <1>4, <1>5, <1>6, <1>7, <1>8, <1>9, <1>10, <1>11, <1>12, <1>13, <1>14
  DEF SwdNext, Step

LEMMA BankAlways == SwdSpec => []BankInv
<1>1. BankInv /\ [SwdNext]_swdVars => BankInv'
  BY BankStep
<1> QED
  BY <1>1, BankInit, PTL DEF SwdSpec

\* While no answer is lost, AP_Bank = 0 means that the target is in bank 0, for any
\* calls (SWD_ReadAP, SWD_WriteAP, the memory and the register functions).
THEOREM BankSafe == SwdSpec => []BankAgrees
<1>1. BankInv => BankAgrees
  BY DEF BankInv
<1> QED
  BY <1>1, BankAlways, PTL

----------------------------------------------------------------------------
(* Addresses and pages.                                                      *)
LEMMA DivMod ==
    ASSUME NEW a \in Nat, NEW p \in Nat \ {0}
    PROVE  /\ a \div p \in Nat
           /\ a % p \in 0 .. p - 1
           /\ a = p * (a \div p) + (a % p)
BY Z3

LEMMA Times ==
    ASSUME NEW p \in Nat \ {0}, NEW q \in Int, q >= 1
    PROVE  p * q >= p
BY Z3

LEMMA Unique ==
    ASSUME NEW p \in Nat \ {0}, NEW q1 \in Int, NEW q2 \in Int,
           NEW r1 \in 0 .. p - 1, NEW r2 \in 0 .. p - 1,
           p * q1 + r1 = p * q2 + r2
    PROVE  q1 = q2 /\ r1 = r2
<1>1. p * (q1 - q2) = r2 - r1 /\ p * (q2 - q1) = r1 - r2
  BY Z3
<1>2. CASE q1 - q2 >= 1
  <2>1. p * (q1 - q2) >= p
    BY <1>2, Times
  <2> QED BY <1>1, <2>1
<1>3. CASE q2 - q1 >= 1
  <2>1. p * (q2 - q1) >= p
    BY <1>3, Times
  <2> QED BY <1>1, <2>1
<1> QED
  BY <1>2, <1>3

LEMMA InPage ==
    ASSUME NEW p \in Nat \ {0}, NEW a \in Nat, NEW j \in Nat, (a % p) + j < p
    PROVE  p * (a \div p) + ((a + j) % p) = a + j
<1>1. /\ a \div p \in Nat
      /\ a % p \in 0 .. p - 1
      /\ a = p * (a \div p) + (a % p)
  BY DivMod
<1>2. /\ (a + j) \div p \in Nat
      /\ (a + j) % p \in 0 .. p - 1
      /\ a + j = p * ((a + j) \div p) + ((a + j) % p)
  <2> a + j \in Nat
    OBVIOUS
  <2> QED BY DivMod
<1>3. (a % p) + j \in 0 .. p - 1
  BY <1>1
<1>4. p * ((a + j) \div p) + ((a + j) % p) = p * (a \div p) + ((a % p) + j)
  BY <1>1, <1>2
<1>5. (a + j) % p = (a % p) + j
  BY <1>1, <1>2, <1>3, <1>4, Unique
<1> QED
  BY <1>1, <1>5

LEMMA WordOfPage ==
    ASSUME NEW p \in Nat \ {0}, NEW a \in Nat, p % 4 = 0, a % 4 = 0
    PROVE  (a % p) % 4 = 0
<1>1. /\ a \div p \in Nat
      /\ a % p \in 0 .. p - 1
      /\ a = p * (a \div p) + (a % p)
  BY DivMod
<1>2. PICK b \in Nat : p = 4 * b
  BY p = 4 * (p \div 4)
<1>3. PICK c \in Nat : a = 4 * c
  BY a = 4 * (a \div 4)
<1> DEFINE q == a \div p
           r == a % p
<1>4. q \in Nat /\ r \in Nat /\ a = p * q + r
  BY <1>1
<1> HIDE DEF q, r
<1>5. (4 * b) * q = 4 * (b * q) /\ b * q \in Nat
  BY <1>4, Z3
<1>6. r = 4 * (c - b * q)
  BY <1>2, <1>3, <1>4, <1>5
<1> DEFINE m == c - b * q
<1>7. m \in Int /\ r = 4 * m
  BY <1>5, <1>6
<1> HIDE DEF m
<1>8. r % 4 = 0
  BY <1>7
<1> QED
  BY <1>8 DEF r

----------------------------------------------------------------------------
(* Types, in the groups that the steps disturb.                              *)
HostType ==
    /\ apSel \in AP
    /\ ctx \in [AP -> [known : BOOLEAN, csw : Csw]]
SelectType ==
    /\ apBank \in Banks
    /\ lastBank \in Banks
    /\ sel \in [ap : AP, bank : Banks]
TargetType ==
    /\ csw \in [AP -> Csw]
    /\ tar \in [AP -> Int]
    /\ flags \in SUBSET {"err", "cmp"}
    /\ mode \in {"normal", "verify"}
CallType ==
    /\ pc \in Pcs
    /\ adr \in Nat
    /\ many \in Nat
    /\ how \in {"single", "block", "slow"}
    /\ n \in Nat
    /\ res \in {"none", "ok", "memory", "failed"}
ReqType ==
    req \in [op : Ops, adr : Nat, many : Nat, refused : SUBSET Nat,
             differs : SUBSET Nat, ap : AP, sound : BOOLEAN, lost : Nat]
LostType == lost \in 0 .. MaxLost

LEMMA TypeGroups ==
    SwdTypeOK <=> HostType /\ SelectType /\ TargetType /\ CallType /\ ReqType /\ LostType
BY DEF SwdTypeOK, HostType, SelectType, TargetType, CallType, ReqType, LostType

LEMMA FinishType ==
    ASSUME CallType, NEW r \in {"ok", "memory", "failed"}, Finish(r)
    PROVE  CallType'
BY DEF CallType, Finish, loopVars, Pcs

LEMMA FailType ==
    ASSUME CallType, NEW r \in {"memory", "failed"}, Fail(r)
    PROVE  CallType'
BY FinishType DEF CallType, Fail, Pcs

LEMMA GoType ==
    ASSUME CallType, NEW p \in Pcs, Go(p)
    PROVE  CallType'
BY DEF CallType, Go, loopVars

LEMMA LoseType ==
    ASSUME LostType, Lose \/ UNCHANGED lost
    PROVE  LostType'
BY SwdAssumption DEF LostType, Lose

LEMMA SelectedType ==
    ASSUME HostType, NEW b \in Banks
    PROVE  Selected(b) \in [ap : AP, bank : Banks]
BY DEF HostType, Selected

LEMMA ApSelectType ==
    ASSUME HostType, SelectType, NEW b \in Banks, ApSelect(b)
    PROVE  SelectType'
BY SelectedType DEF SelectType, ApSelect

\* What a write of CSW or TAR does to the registers, and to the call.
LEMMA WriteAPType ==
    ASSUME HostType, SelectType, TargetType, LostType, UNCHANGED mode,
           NEW csw1 \in [AP -> Csw], NEW tar1 \in [AP -> Int],
           WriteAP(csw1, tar1, TRUE)
    PROVE  SelectType' /\ TargetType' /\ LostType'
<1>0. 0 \in Banks
  BY DEF Banks
<1>1. LostType'
  BY LoseType DEF WriteAP
<1>2. TargetType'
  BY DEF WriteAP, TargetType
<1>3. ASSUME NEW s \in MaybeSelected(Selected(0)) PROVE s \in [ap : AP, bank : Banks]
  BY <1>0, SelectedType DEF MaybeSelected, SelectType
<1>4. SelectType'
  <2>1. CASE ApSelect(0)
    BY <1>0, <2>1, ApSelectType
  <2>2. CASE UNCHANGED selectVars
    BY <2>2 DEF selectVars, SelectType
  <2>3. CASE sel' \in MaybeSelected(Selected(0)) /\ UNCHANGED <<apBank, lastBank>>
    BY <1>3, <2>3 DEF SelectType
  <2> QED
    BY <2>1, <2>2, <2>3 DEF WriteAP
<1> QED
  BY <1>1, <1>2, <1>4

LEMMA ReadAPType ==
    ASSUME HostType, SelectType, LostType, NEW b \in Banks, ReadAP(b, TRUE)
    PROVE  SelectType' /\ LostType'
<1>1. LostType'
  BY LoseType DEF ReadAP
<1>2. ASSUME NEW s \in MaybeSelected(Selected(b)) PROVE s \in [ap : AP, bank : Banks]
  BY SelectedType DEF MaybeSelected, SelectType
<1>3. SelectType'
  <2>1. CASE ApSelect(b)
    BY <2>1, ApSelectType
  <2>2. CASE UNCHANGED selectVars
    BY <2>2 DEF selectVars, SelectType
  <2>3. CASE sel' \in MaybeSelected(Selected(b)) /\ UNCHANGED <<apBank, lastBank>>
    BY <1>2, <2>3 DEF SelectType
  <2> QED
    BY <2>1, <2>2, <2>3 DEF ReadAP
<1> QED
  BY <1>1, <1>3

LEMMA WriteSelectType ==
    ASSUME HostType, SelectType, LostType, UNCHANGED lastBank,
           NEW s \in [ap : AP, bank : Banks], NEW b \in Banks,
           WriteSelect(s, b, TRUE)
    PROVE  SelectType' /\ LostType'
<1>1. LostType'
  BY LoseType DEF WriteSelect
<1>2. SelectType'
  BY DEF WriteSelect, SelectType, MaybeSelected
<1> QED
  BY <1>1, <1>2

LEMMA ClearStickyType ==
    ASSUME CallType, LostType, NEW f \in SUBSET {"err", "cmp"}, ClearSticky(f)
    PROVE  CallType' /\ LostType' /\ flags' \in SUBSET {"err", "cmp"}
<1>1. flags' \in SUBSET {"err", "cmp"}
  BY DEF ClearSticky
<1>2. LostType'
  BY LoseType DEF ClearSticky
<1>3. CallType'
  BY FailType DEF ClearSticky
<1> QED
  BY <1>1, <1>2, <1>3
\* What is left never grows by a step of a call, and the piece fits in it.
LEMMA AdvanceType ==
    ASSUME CallType, NEW k \in Nat, k <= many, Advance(k)
    PROVE  adr' \in Nat /\ many' \in Nat
BY DEF CallType, Advance

\* A block is whole words, within its page and within what is left.
LEMMA BlockLengthBounds ==
    ASSUME CallType, adr % 4 = 0, many >= 4
    PROVE  /\ BlockLength \in Nat \ {0}
           /\ BlockLength % 4 = 0
           /\ (adr % PageSize) + BlockLength <= PageSize
           /\ BlockLength <= many
<1> DEFINE toEnd == PageSize - (adr % PageSize)
           words == many - (many % 4)
<1>1. /\ adr \in Nat /\ many \in Nat
      /\ PageSize \in Nat \ {0} /\ PageSize % 4 = 0
  BY SwdAssumption DEF CallType
<1>2. (adr % PageSize) \in 0 .. PageSize - 1 /\ (adr % PageSize) % 4 = 0
  BY <1>1, DivMod, WordOfPage
<1>3. toEnd \in Nat \ {0} /\ toEnd % 4 = 0 /\ (adr % PageSize) + toEnd = PageSize
  <2> DEFINE r == adr % PageSize
  <2>1. r \in 0 .. PageSize - 1 /\ r % 4 = 0
    BY <1>2
  <2> HIDE DEF r
  <2>2. /\ PageSize - r \in Nat \ {0}
        /\ (PageSize - r) % 4 = 0
        /\ r + (PageSize - r) = PageSize
    BY <1>1, <2>1
  <2> QED
    BY <2>2 DEF r
<1>4. words \in Nat \ {0} /\ words % 4 = 0 /\ words <= many
  BY <1>1
<1> HIDE DEF toEnd, words
<1>5. CASE toEnd < words
  <2>1. BlockLength = toEnd
    BY <1>5 DEF BlockLength, Min2, toEnd, words
  <2> QED
    BY <1>1, <1>2, <1>3, <1>4, <1>5, <2>1
<1>6. CASE ~(toEnd < words)
  <2>1. BlockLength = words
    BY <1>6 DEF BlockLength, Min2, toEnd, words
  <2> QED
    BY <1>1, <1>2, <1>3, <1>4, <1>6, <2>1
<1> QED
  BY <1>5, <1>6

LEMMA StartType ==
    ASSUME HostType, LostType, NEW r \in RequestType, Start(r)
    PROVE  ReqType'
<1>1. Sound \in BOOLEAN
  BY DEF Sound
<1>2. lost \in Nat
  BY SwdAssumption DEF LostType
<1> QED
  BY <1>1, <1>2 DEF Start, ReqType, RequestType, HostType

Groups == HostType /\ SelectType /\ TargetType /\ CallType /\ ReqType /\ LostType

LEMMA TypeStep ==
    ASSUME Groups, LoopInv, [SwdNext]_swdVars
    PROVE  Groups'
<1> USE DEF Groups, hostVars, targetVars
<1>1. CASE UNCHANGED swdVars
  BY <1>1 DEF swdVars, callVars, HostType, SelectType, TargetType, CallType, ReqType, LostType
<1>2. CASE NextPiece
  <2>1. adr % 4 = 0 /\ many >= 4 => BlockLength \in Nat
    BY BlockLengthBounds
  <2> QED
    BY <1>2, <2>1
    DEF NextPiece, HostType, SelectType, TargetType, CallType, ReqType, LostType, Pcs
<1>3. CASE EndOfCall
  BY <1>3, FinishType
  DEF EndOfCall, HostType, SelectType, TargetType, ReqType, LostType
<1>4. CASE SwitchAP
  <2>1. CallType' /\ SelectType' /\ LostType'
    <3>1. CASE Go("bank") /\ UNCHANGED <<hostVars, sel, lost>>
      BY <3>1, GoType DEF Pcs, SelectType, LostType
    <3>2. CASE ReadAP(15, Go("test8"))
      <4>1. ReadAP(15, TRUE) /\ (Go("test8") \/ Fail("failed"))
        BY <3>2 DEF ReadAP
      <4> QED
        BY <4>1, GoType, FailType, ReadAPType DEF Pcs, Banks
    <3> QED
      BY <1>4, <3>1, <3>2 DEF SwitchAP
  <2>2. HostType'
    BY <1>4 DEF SwitchAP, HostType
  <2> QED
    BY <1>4, <2>1, <2>2 DEF SwitchAP, TargetType, ReqType
<1>5. CASE TestSizesAP
  <2>1. PICK size \in {1, 2}, p \in {"test16", "bank"} :
            WriteAP([csw EXCEPT ![Reached(0)] = [size |-> size, inc |-> "packed"]], tar, Go(p))
    BY <1>5 DEF TestSizesAP
  <2>2. [csw EXCEPT ![Reached(0)] = [size |-> size, inc |-> "packed"]] \in [AP -> Csw]
    BY DEF TargetType, Csw, Sizes
  <2>3. WriteAP([csw EXCEPT ![Reached(0)] = [size |-> size, inc |-> "packed"]], tar, TRUE)
        /\ (Go(p) \/ Fail("failed"))
    BY <2>1 DEF WriteAP
  <2>4. CallType'
    BY <2>3, GoType, FailType DEF Pcs
  <2>5. SelectType' /\ TargetType' /\ LostType'
    BY <1>5, <2>2, <2>3, WriteAPType DEF TestSizesAP, TargetType
  <2> QED
    BY <1>5, <2>4, <2>5 DEF TestSizesAP, HostType, ReqType
<1>6. CASE BankZero
  <2>1. CallType' /\ SelectType' /\ LostType'
    <3>1. CASE Go("size") /\ UNCHANGED <<selectVars, lost>>
      BY <3>1, GoType DEF Pcs, SelectType, LostType, selectVars
    <3>2. CASE WriteSelect(Selected(0), 0, Go("size")) /\ UNCHANGED lastBank
      <4>1. WriteSelect(Selected(0), 0, TRUE) /\ (Go("size") \/ Fail("failed"))
        BY <3>2 DEF WriteSelect
      <4> QED
        BY <3>2, <4>1, GoType, FailType, SelectedType, WriteSelectType DEF Pcs, Banks
    <3> QED
      BY <1>6, <3>1, <3>2 DEF BankZero
  <2> QED
    BY <1>6, <2>1 DEF BankZero, HostType, TargetType, ReqType
<1>7. CASE SetSize
  <2>1. WantedCsw \in Csw /\ AfterSize \in Pcs
    BY <1>7 DEF SetSize, LoopInv, InCall, WantedCsw, AfterSize, HostType, CallType, Csw, Sizes, Pcs
  <2>2. CASE Go(AfterSize) /\ UNCHANGED <<selectVars, ctx, csw, tar, flags, lost>>
    BY <1>7, <2>1, <2>2, GoType
    DEF SetSize, HostType, SelectType, TargetType, ReqType, LostType, selectVars
  <2>3. CASE /\ ctx' = [ctx EXCEPT ![apSel].csw = WantedCsw]
             /\ WriteAP([csw EXCEPT ![Reached(0)] = WantedCsw], tar, Go(AfterSize))
    <3>1. [csw EXCEPT ![Reached(0)] = WantedCsw] \in [AP -> Csw]
      BY <2>1 DEF TargetType
    <3>2. WriteAP([csw EXCEPT ![Reached(0)] = WantedCsw], tar, TRUE)
          /\ (Go(AfterSize) \/ Fail("failed"))
      BY <2>3 DEF WriteAP
    <3>3. CallType'
      BY <2>1, <3>2, GoType, FailType
    <3>4. SelectType' /\ TargetType' /\ LostType'
      BY <1>7, <3>1, <3>2, WriteAPType DEF SetSize, TargetType
    <3>5. HostType'
      <4>1. ctx' \in [AP -> [known : BOOLEAN, csw : Csw]]
        BY <2>1, <2>3 DEF HostType
      <4> QED
        BY <1>7, <4>1 DEF SetSize, HostType
    <3> QED
      BY <1>7, <3>3, <3>4, <3>5 DEF SetSize, ReqType
  <2> QED
    BY <1>7, <2>2, <2>3 DEF SetSize
<1>8. CASE SetTAR
  <2> DEFINE tar1 == [tar EXCEPT ![Reached(0)] = adr]
             p == IF req.op = "verify" THEN "arm" ELSE "repeat"
  <2>1. tar1 \in [AP -> Int] /\ csw \in [AP -> Csw] /\ p \in Pcs
    <3>1. adr \in Int
      BY DEF CallType
    <3>2. tar1 \in [AP -> Int]
      BY <3>1 DEF TargetType
    <3> QED
      BY <3>2 DEF TargetType, Pcs
  <2>2. WriteAP(csw, tar1, Go(p))
    BY <1>8 DEF SetTAR
  <2> HIDE DEF tar1, p
  <2>3. WriteAP(csw, tar1, TRUE) /\ (Go(p) \/ Fail("failed"))
    BY <2>2 DEF WriteAP
  <2>4. CallType'
    BY <2>1, <2>3, GoType, FailType
  <2>5. SelectType' /\ TargetType' /\ LostType'
    BY <1>8, <2>1, <2>3, WriteAPType DEF SetTAR
  <2> QED
    BY <1>8, <2>4, <2>5 DEF SetTAR, HostType, ReqType
<1>9. CASE Data
  <2>1. TarSet(sel, adr) \in [AP -> Int]
    <3>1. adr \in Int
      BY DEF CallType
    <3> QED
      BY <3>1 DEF TarSet, TargetType
  <2>2. AfterData => CallType'
    <3>1. how = "slow" => many - 4 \in Nat /\ n - 4 \in Nat
      BY <1>9 DEF Data, LoopInv, InCall, CallType
    <3> QED
      BY <3>1, GoType DEF AfterData, Advance, CallType, Pcs
  <2>3. /\ flags' \in SUBSET {"err", "cmp"}
        /\ CallType'
        /\ LostType'
    <3>1. CASE \E f \in SUBSET {"err", "cmp"} : ClearSticky(f)
      BY <3>1, ClearStickyType
    <3>2. CASE /\ AfterData
               /\ flags' \in {flags, {"err"}}
               /\ UNCHANGED lost
      BY <2>2, <3>2, LoseType DEF TargetType
    <3>3. CASE Lose /\ Fail("failed") /\ UNCHANGED flags
      BY <3>3, LoseType, FailType DEF TargetType
    <3> QED
      BY <1>9, <3>1, <3>2, <3>3 DEF Data, TargetType
  <2>4. tar' \in {tar, TarSet(sel, adr)}
    BY <1>9 DEF Data
  <2> QED
    BY <1>9, <2>1, <2>3, <2>4 DEF Data, HostType, SelectType, TargetType, ReqType
<1>10. CASE Repeat
  <2>1. CallType'
    BY <1>10, GoType, FailType DEF Repeat, Pcs
  <2>2. LostType'
    BY <1>10, LoseType DEF Repeat
  <2>3. flags' \in SUBSET {"err", "cmp"}
    BY <1>10 DEF Repeat, TargetType
  <2> QED
    BY <1>10, <2>1, <2>2, <2>3 DEF Repeat, HostType, SelectType, TargetType, ReqType
<1>11. CASE StickyError
  <2>1. CASE ClearSticky(flags)
    BY <1>11, <2>1, ClearStickyType
    DEF StickyError, HostType, SelectType, TargetType, ReqType
  <2>2. CASE Lose /\ Fail("failed") /\ UNCHANGED flags
    BY <1>11, <2>2, LoseType, FailType
    DEF StickyError, HostType, SelectType, TargetType, ReqType
  <2>3. CASE /\ pc' = "next"
             /\ IF how = "slow" THEN UNCHANGED <<adr, many>> ELSE Advance(n)
             /\ UNCHANGED <<how, n, res, flags, lost>>
    <3>1. n \in Nat /\ n <= many
      BY <1>11 DEF StickyError, LoopInv, InCall, CallType
    <3>2. adr' \in Nat /\ many' \in Nat
      BY <2>3, <3>1, AdvanceType DEF CallType
    <3> QED
      BY <1>11, <2>3, <3>2
      DEF StickyError, HostType, SelectType, TargetType, CallType, ReqType, LostType, Pcs
  <2> QED
    BY <1>11, <2>1, <2>2, <2>3 DEF StickyError
<1>12. CASE Arm
  <2>1. CallType' /\ LostType' /\ mode' \in {"normal", "verify"}
    BY <1>12, GoType, FailType, LoseType DEF Arm, Pcs, TargetType
  <2> QED
    BY <1>12, <2>1 DEF Arm, HostType, SelectType, TargetType, ReqType
<1>13. CASE Compare
  <2>1. n \in Nat /\ n <= many
    BY <1>13 DEF Compare, LoopInv, InCall, CallType
  <2>2. CallType'
    <3>1. CASE pc' = "next" /\ Advance(n) /\ UNCHANGED <<how, n, res>>
      BY <2>1, <3>1, AdvanceType DEF CallType, Pcs
    <3>2. CASE Fail("failed") \/ Fail("memory")
      BY <3>2, FailType
    <3> QED
      BY <1>13, <3>1, <3>2 DEF Compare
  <2>3. LostType'
    BY <1>13, LoseType DEF Compare
  <2>4. flags' \in SUBSET {"err", "cmp"} /\ mode' \in {"normal", "verify"}
    BY <1>13 DEF Compare, TargetType
  <2> QED
    BY <1>13, <2>2, <2>3, <2>4 DEF Compare, HostType, SelectType, TargetType, ReqType
<1>14. CASE RestoreCsw
  <2> DEFINE csw1 == [csw EXCEPT ![Reached(0)] = ctx[apSel].csw]
  <2>1. csw1 \in [AP -> Csw] /\ tar \in [AP -> Int]
    BY DEF TargetType, HostType
  <2>2. WriteAP(csw1, tar, Finish("ok"))
    BY <1>14 DEF RestoreCsw
  <2> HIDE DEF csw1
  <2>3. WriteAP(csw1, tar, TRUE) /\ (Finish("ok") \/ Fail("failed"))
    BY <2>2 DEF WriteAP
  <2>4. CallType'
    BY <2>3, FinishType, FailType
  <2>5. SelectType' /\ TargetType' /\ LostType'
    BY <1>14, <2>1, <2>3, WriteAPType DEF RestoreCsw
  <2> QED
    BY <1>14, <2>4, <2>5 DEF RestoreCsw, HostType, ReqType
<1>15. CASE Call
  <2>1. PICK r \in Requests : Start(r) /\ adr' = r.adr /\ many' = r.many
    BY <1>15 DEF Call
  <2>2. r \in RequestType
    BY SwdAssumption
  <2>3. CallType'
    BY <1>15, <2>1, <2>2 DEF Call, CallType, RequestType, Pcs
  <2>4. ReqType'
    BY <2>1, <2>2, StartType
  <2> QED
    BY <1>15, <2>3, <2>4 DEF Call, HostType, SelectType, TargetType, LostType
<1>16. CASE Recover
  <2>1. ReqType'
    BY <1>16, StartType DEF Recover, NoMemory, RequestType, Ops
  <2>2. WriteSelect(Selected(0), apBank, TRUE) /\ (Go("check") \/ Fail("failed"))
    BY <1>16 DEF Recover, WriteSelect
  <2>3. CallType'
    BY <2>2, GoType, FailType DEF Pcs
  <2>4. SelectType' /\ LostType'
    BY <1>16, <2>2, SelectedType, WriteSelectType DEF Recover, SelectType, Banks
  <2> QED
    BY <1>16, <2>1, <2>3, <2>4 DEF Recover, HostType, TargetType
<1>17. CASE DebugRegisters
  <2>1. ReqType'
    BY <1>17, StartType DEF DebugRegisters, ARMRegs, SysCall, AtDebugRegisters, NoMemory, RequestType, Ops
  <2>2. CallType' /\ LostType'
    BY <1>17, FinishType, GoType, LoseType
    DEF DebugRegisters, ARMRegs, SysCall, AtDebugRegisters, Report, Pcs
  <2>3. flags' \in SUBSET {"err", "cmp"}
    BY <1>17 DEF DebugRegisters, ARMRegs, SysCall, AtDebugRegisters, Report, TargetType
  <2>4. PICK s \in {sel, Selected(0)} :
            /\ tar' \in {tar, WindowTar(s)}
            /\ sel' \in {sel, s, Selected(1)}
            /\ apBank' \in {apBank, 1}
    BY <1>17 DEF DebugRegisters, ARMRegs, SysCall, AtDebugRegisters, OpenWindow
  <2>5. sel' \in [ap : AP, bank : Banks] /\ tar' \in [AP -> Int]
    BY <2>4, SelectedType DEF WindowTar, TarSet, DebugRegs, SelectType, TargetType, Banks
  <2>6. apBank' \in Banks
    BY <2>4 DEF SelectType, Banks
  <2> QED
    BY <1>17, <2>1, <2>2, <2>3, <2>5, <2>6
    DEF DebugRegisters, ARMRegs, SysCall, AtDebugRegisters, HostType, SelectType, TargetType
<1>18. CASE SelectAP
  BY <1>18
  DEF SelectAP, HostType, SelectType, TargetType, CallType, callVars, ReqType, LostType
<1>19. CASE CheckCsw
  <2>1. 0 \in Banks
    BY DEF Banks
  <2>2. ReadAP(0, TRUE) /\ (Go("restore") \/ Finish("failed") \/ Fail("failed"))
    BY <1>19 DEF CheckCsw, ReadAP
  <2>3. SelectType' /\ LostType'
    BY <2>1, <2>2, ReadAPType
  <2>4. CallType'
    BY <2>2, GoType, FinishType, FailType DEF Pcs
  <2> QED
    BY <1>19, <2>3, <2>4 DEF CheckCsw, HostType, TargetType, ReqType
<1>20. CASE MoveRegisters
  <2>1. CallType' /\ LostType' /\ flags' \in SUBSET {"err", "cmp"}
    BY <1>20, FinishType, LoseType DEF MoveRegisters, Report, LostType, TargetType
  <2> QED
    BY <1>20, <2>1 DEF MoveRegisters, hostVars, HostType, SelectType, TargetType, ReqType
<1> QED
  BY <1>1, <1>2, <1>3, <1>4, <1>5, <1>6, <1>7, <1>8, <1>9, <1>10, <1>11, <1>12, <1>13,
     <1>14, <1>15, <1>16, <1>17, <1>18, <1>19, <1>20 DEF SwdNext, Step
----------------------------------------------------------------------------
(* The loop over the pieces.                                                 *)
LEMMA LoopFinish ==
    ASSUME NEW r, Finish(r)
    PROVE  LoopInv'
BY DEF Finish, LoopInv, InCall

LEMMA LoopFail ==
    ASSUME CallType, LoopInv, NEW r \in {"memory", "failed"}, Fail(r), UNCHANGED req,
           InCall, pc # "next"
    PROVE  LoopInv'
<1>1. CASE r = "memory" /\ how = "block"
  BY <1>1 DEF Fail, LoopInv, InCall, MemoryCall
<1>2. CASE ~(r = "memory" /\ how = "block")
  BY <1>2, LoopFinish DEF Fail
<1> QED
  BY <1>1, <1>2

\* Between two pieces of the code that look at the same piece of memory.
LEMMA LoopGo ==
    ASSUME CallType, LoopInv, UNCHANGED <<req, loopVars>>,
           InCall, pc \notin {"next", "sticky"},
           pc' \notin {"idle", "check", "restore", "registers", "next"},
           pc' \in {"tar", "repeat", "arm", "compare"} => how = "block",
           pc' = "data" => how # "block",
           pc' \in {"arm", "compare"} => req.op = "verify",
           pc' = "repeat" => req.op # "verify"
    PROVE  LoopInv'
BY DEF LoopInv, InCall, MemoryCall, loopVars

LEMMA LoopNextPiece ==
    ASSUME CallType, LoopInv, NextPiece
    PROVE  LoopInv'
<1>1. adr % 4 = 0 /\ many >= 4 =>
        /\ BlockLength \in Nat \ {0}
        /\ BlockLength % 4 = 0
        /\ (adr % PageSize) + BlockLength <= PageSize
        /\ BlockLength <= many
  BY BlockLengthBounds
<1> HIDE DEF BlockLength
<1>2. /\ MemoryCall'
      /\ req.adr' <= adr'
      /\ adr' + many' = req.adr' + req.many'
  BY DEF NextPiece, LoopInv, InCall, MemoryCall
<1>3. /\ n' \in Nat
      /\ how' = "single" => n' \in {1, 2} /\ adr' % n' = 0 /\ n' <= many'
      /\ how' = "block" => n' > 0 /\ adr' % 4 = 0 /\ (adr' % PageSize) + n' <= PageSize
      /\ how' # "slow"
      /\ n' % 4 = 0 \/ how' = "single"
      /\ n' <= many'
  BY <1>1 DEF NextPiece, CallType
<1> QED
  BY <1>2, <1>3 DEF NextPiece, LoopInv, InCall
LEMMA LoopStep ==
    ASSUME Groups, LoopInv, [SwdNext]_swdVars
    PROVE  LoopInv'
<1> USE DEF Groups
<1>1. CASE UNCHANGED swdVars
  BY <1>1 DEF swdVars, callVars, LoopInv, InCall, MemoryCall
<1>2. CASE NextPiece
  BY <1>2, LoopNextPiece
<1>3. CASE EndOfCall
  BY <1>3, LoopFinish DEF EndOfCall
<1>4. CASE SwitchAP
  <2>1. Go("bank") \/ Go("test8") \/ Fail("failed")
    BY <1>4 DEF SwitchAP, ReadAP
  <2>2. CASE Go("bank") \/ Go("test8")
    BY <1>4, <2>2, LoopGo DEF SwitchAP, Go, InCall
  <2>3. CASE Fail("failed")
    BY <2>3, LoopFinish DEF Fail
  <2> QED
    BY <2>1, <2>2, <2>3
<1>5. CASE TestSizesAP
  <2>1. Go("test16") \/ Go("bank") \/ Fail("failed")
    BY <1>5 DEF TestSizesAP, WriteAP
  <2>2. CASE Go("test16") \/ Go("bank")
    BY <1>5, <2>2, LoopGo DEF TestSizesAP, Go, InCall
  <2>3. CASE Fail("failed")
    BY <2>3, LoopFinish DEF Fail
  <2> QED
    BY <2>1, <2>2, <2>3
<1>6. CASE BankZero
  <2>1. Go("size") \/ Fail("failed")
    BY <1>6 DEF BankZero, WriteSelect
  <2>2. CASE Go("size")
    BY <1>6, <2>2, LoopGo DEF BankZero, Go, InCall
  <2>3. CASE Fail("failed")
    BY <2>3, LoopFinish DEF Fail
  <2> QED
    BY <2>1, <2>2, <2>3
<1>7. CASE SetSize
  <2>1. Go(AfterSize) \/ Fail("failed")
    BY <1>7 DEF SetSize, WriteAP
  <2>2. CASE Go(AfterSize)
    BY <1>7, <2>2, LoopGo DEF SetSize, Go, InCall, AfterSize
  <2>3. CASE Fail("failed")
    BY <2>3, LoopFinish DEF Fail
  <2> QED
    BY <2>1, <2>2, <2>3
<1>8. CASE SetTAR
  <2> DEFINE p == IF req.op = "verify" THEN "arm" ELSE "repeat"
  <2>1. Go(p) \/ Fail("failed")
    BY <1>8 DEF SetTAR, WriteAP
  <2>2. CASE Go(p)
    <3>1. how = "block"
      BY <1>8 DEF SetTAR, LoopInv, InCall
    <3> QED
      BY <1>8, <2>2, <3>1, LoopGo DEF SetTAR, Go, InCall
  <2>3. CASE Fail("failed")
    BY <2>3, LoopFinish DEF Fail
  <2> QED
    BY <2>1, <2>2, <2>3
<1>9. CASE Data
  <2>1. pc = "data" /\ how # "block" /\ InCall /\ UNCHANGED req
    BY <1>9 DEF Data, LoopInv, InCall
  <2>2. CASE AfterData
    BY <2>1, <2>2
    DEF AfterData, Advance, Go, LoopInv, InCall, MemoryCall, CallType, ReqType, loopVars
  <2>3. CASE Fail("failed") \/ Fail("memory")
    BY <2>1, <2>3, LoopFail
  <2> QED
    BY <1>9, <2>2, <2>3 DEF Data, ClearSticky
<1>10. CASE Repeat
  <2>1. pc = "repeat" /\ InCall /\ UNCHANGED req
    BY <1>10 DEF Repeat, InCall
  <2>2. CASE Go("sticky")
    BY <2>1, <2>2, LoopGo DEF Go
  <2>3. CASE Fail("failed")
    BY <2>1, <2>3, LoopFail
  <2> QED
    BY <1>10, <2>2, <2>3 DEF Repeat
<1>11. CASE StickyError
  <2>1. pc = "sticky" /\ InCall /\ UNCHANGED req
    BY <1>11 DEF StickyError, InCall
  <2>2. CASE /\ pc' = "next"
             /\ IF how = "slow" THEN UNCHANGED <<adr, many>> ELSE Advance(n)
             /\ UNCHANGED <<how, n, res, flags, lost>>
    BY <2>1, <2>2 DEF Advance, LoopInv, InCall, MemoryCall, CallType, ReqType
  <2>3. CASE Fail("failed") \/ Fail("memory")
    BY <2>1, <2>3, LoopFail
  <2> QED
    BY <1>11, <2>2, <2>3 DEF StickyError, ClearSticky
<1>12. CASE Arm
  <2>1. pc = "arm" /\ InCall /\ UNCHANGED req
    BY <1>12 DEF Arm, InCall
  <2>2. how = "block" /\ req.op = "verify"
    BY <2>1 DEF LoopInv
  <2>3. CASE Go("compare")
    BY <2>1, <2>2, <2>3, LoopGo DEF Go
  <2>4. CASE Fail("failed")
    BY <2>1, <2>4, LoopFail
  <2> QED
    BY <1>12, <2>3, <2>4 DEF Arm
<1>13. CASE Compare
  <2>1. pc = "compare" /\ InCall /\ UNCHANGED req
    BY <1>13 DEF Compare, InCall
  <2>2. CASE pc' = "next" /\ Advance(n) /\ UNCHANGED <<how, n, res>>
    BY <2>1, <2>2 DEF Advance, LoopInv, InCall, MemoryCall, CallType, ReqType
  <2>3. CASE Fail("failed") \/ Fail("memory")
    BY <2>1, <2>3, LoopFail
  <2> QED
    BY <1>13, <2>2, <2>3 DEF Compare
<1>14. CASE RestoreCsw
  BY <1>14, LoopFinish DEF RestoreCsw, WriteAP, Fail
<1>15. CASE Call
  <2>1. PICK r \in Requests :
            Start(r) /\ adr' = r.adr /\ many' = r.many /\ pc' = "next"
    BY <1>15 DEF Call
  <2>2. r.op \in {"read", "write", "verify"} /\ r \in RequestType
    BY SwdAssumption
  <2> QED
    BY <2>1, <2>2 DEF Start, RequestType, LoopInv, InCall, MemoryCall
<1>16. CASE Recover
  <2>1. Go("check") \/ Fail("failed")
    BY <1>16 DEF Recover, WriteSelect
  <2>2. CASE Go("check")
    BY <1>16, <2>2 DEF Recover, Start, NoMemory, Go, LoopInv, InCall, MemoryCall
  <2>3. CASE Fail("failed")
    BY <2>3, LoopFinish DEF Fail
  <2> QED
    BY <2>1, <2>2, <2>3
<1>17. CASE DebugRegisters
  <2>1. \/ Go("registers") /\ req'.op = "regs"
        \/ Finish("memory") \/ Finish("failed")
    BY <1>17 DEF DebugRegisters, ARMRegs, SysCall, AtDebugRegisters, Report, Start, NoMemory
  <2> QED
    BY <2>1, LoopFinish DEF Go, LoopInv, InCall, MemoryCall
<1>18. CASE SelectAP
  BY <1>18 DEF SelectAP, callVars, LoopInv, InCall, MemoryCall
<1>19. CASE CheckCsw
  <2>1. Go("restore") \/ Finish("failed")
    BY <1>19 DEF CheckCsw, ReadAP, Fail
  <2>2. ~MemoryCall /\ UNCHANGED req
    BY <1>19 DEF CheckCsw, LoopInv
  <2> QED
    BY <2>1, <2>2, LoopFinish DEF Go, LoopInv, InCall, MemoryCall
<1>20. CASE MoveRegisters
  BY <1>20, LoopFinish DEF MoveRegisters, Report
<1> QED
  BY <1>1, <1>2, <1>3, <1>4, <1>5, <1>6, <1>7, <1>8, <1>9, <1>10, <1>11, <1>12, <1>13,
     <1>14, <1>15, <1>16, <1>17, <1>18, <1>19, <1>20 DEF SwdNext, Step
----------------------------------------------------------------------------
(* The bytes that a transfer reaches.                                        *)
LEMMA BytesFrom ==
    ASSUME NEW a \in Nat, NEW s \in Nat
    PROVE  Bytes(a, a + s) = {<<req.ap, a + i>> : i \in 0 .. s - 1}
<1>1. ASSUME NEW i \in 0 .. s - 1
      PROVE  a + i \in a .. a + s - 1
  OBVIOUS
<1>2. ASSUME NEW j \in a .. a + s - 1
      PROVE  j - a \in 0 .. s - 1 /\ j = a + (j - a)
  OBVIOUS
<1>3. Bytes(a, a + s) = {<<req.ap, j>> : j \in a .. a + s - 1}
  BY DEF Bytes
<1>4. {<<req.ap, a + i>> : i \in 0 .. s - 1} \subseteq {<<req.ap, j>> : j \in a .. a + s - 1}
  BY <1>1
<1>5. {<<req.ap, j>> : j \in a .. a + s - 1} \subseteq {<<req.ap, a + i>> : i \in 0 .. s - 1}
  <2> SUFFICES ASSUME NEW j \in a .. a + s - 1
               PROVE  \E i \in 0 .. s - 1 : <<req.ap, j>> = <<req.ap, a + i>>
    OBVIOUS
  <2> QED
    BY <1>2
<1> QED
  BY <1>3, <1>4, <1>5

LEMMA BytesWithin ==
    ASSUME NEW a \in Nat, NEW b \in Nat, NEW c \in Nat, NEW d \in Nat, a <= c, d <= b
    PROVE  Bytes(c, d) \subseteq Bytes(a, b)
BY DEF Bytes

LEMMA BytesJoin ==
    ASSUME NEW a \in Nat, NEW b \in Nat, NEW c \in Nat, a <= b, b <= c
    PROVE  Bytes(a, b) \cup Bytes(b, c) = Bytes(a, c)
<1>1. (a .. b - 1) \cup (b .. c - 1) = a .. c - 1
  OBVIOUS
<1> QED
  BY <1>1 DEF Bytes

\* An aligned access in bank 0 reaches the bytes it is meant for.
LEMMA CellsAligned ==
    ASSUME NEW s \in Sizes, NEW a \in Nat, a % s = 0,
           sel = Selected(0), req.ap = apSel, csw[apSel].size = s
    PROVE  Cells(a) = Bytes(a, a + s)
<1>1. s * (a \div s) = a
  BY DEF Sizes
<1>2. Cells(a) = {<<apSel, a + i>> : i \in 0 .. s - 1}
  BY <1>1 DEF Cells, Selected
<1>3. Bytes(a, a + s) = {<<req.ap, a + i>> : i \in 0 .. s - 1}
  <2>1. s \in Nat
    BY DEF Sizes
  <2> QED
    BY <2>1, BytesFrom
<1> QED
  BY <1>2, <1>3

\* TAR counts up to the end of the block, which is not beyond the page.
LEMMA TarCounts ==
    ASSUME adr \in Nat, n \in Nat, adr % 4 = 0, (adr % PageSize) + n <= PageSize,
           sel = Selected(0), req.ap = apSel, tar[apSel] = adr,
           csw[apSel] = [size |-> 4, inc |-> "single"],
           NEW k \in Elements
    PROVE  /\ TarAt(k) = adr + 4 * k
           /\ Cells(TarAt(k)) = Bytes(adr + 4 * k, adr + 4 * k + 4)
<1>1. k \in Nat /\ 4 * k \in Nat /\ 4 * k + 4 <= n
  BY DEF Elements
<1>2. PageSize \in Nat \ {0} /\ (adr % PageSize) \in 0 .. PageSize - 1
  BY SwdAssumption, DivMod
<1>3. (adr % PageSize) + 4 * k < PageSize
  BY <1>1, <1>2
<1>4. TarAt(k) = PageSize * (adr \div PageSize) + ((adr + 4 * k) % PageSize)
  BY DEF TarAt, Selected
<1>5. TarAt(k) = adr + 4 * k
  BY <1>1, <1>2, <1>3, <1>4, InPage
<1>6. adr + 4 * k \in Nat /\ (adr + 4 * k) % 4 = 0
  BY <1>1
<1> QED
  BY <1>5, <1>6, CellsAligned DEF Sizes

InBlock ==
    /\ adr \in Nat
    /\ n \in Nat
    /\ n % 4 = 0
    /\ adr % 4 = 0
    /\ (adr % PageSize) + n <= PageSize
    /\ sel = Selected(0)
    /\ req.ap = apSel
    /\ tar[apSel] = adr
    /\ csw[apSel] = [size |-> 4, inc |-> "single"]

LEMMA BlockBytes ==
    ASSUME InBlock
    PROVE  /\ \A k : Before(k) \subseteq Bytes(adr, adr + n)
           /\ Bytes(adr, adr + n) \subseteq Whole
<1> USE DEF InBlock
<1>1. ASSUME NEW k \in Elements
      PROVE  /\ Cells(TarAt(k)) = Bytes(adr + 4 * k, adr + 4 * k + 4)
             /\ Cells(TarAt(k)) \subseteq Bytes(adr, adr + n)
  <2>0. /\ adr \in Nat /\ adr + n \in Nat
        /\ adr + 4 * k \in Nat /\ adr + 4 * k + 4 \in Nat
    BY DEF Elements
  <2>1. Cells(TarAt(k)) = Bytes(adr + 4 * k, adr + 4 * k + 4)
    BY TarCounts
  <2>2. k \in Nat /\ 4 * k + 4 <= n
    BY DEF Elements
  <2> QED
    BY <2>0, <2>1, <2>2, BytesWithin
<1>2. ASSUME NEW k PROVE Before(k) \subseteq Bytes(adr, adr + n)
  BY <1>1 DEF Before
<1>3. ASSUME NEW j \in adr .. adr + n - 1 PROVE <<req.ap, j>> \in Whole
  <2> DEFINE k == (j - adr) \div 4
  <2>1. k \in Elements /\ k < n \div 4 /\ j \in adr + 4 * k .. adr + 4 * k + 4 - 1
    BY DEF Elements
  <2>2. <<req.ap, j>> \in Cells(TarAt(k))
    BY <1>1, <2>1 DEF Bytes
  <2> QED
    BY <2>1, <2>2 DEF Whole, Before
<1> QED
  BY <1>2, <1>3 DEF Bytes
----------------------------------------------------------------------------
(* A call that starts in a sound session, step by step.                      *)
SoundCall == MemoryCall /\ req.sound

LEMMA SoundFail ==
    ASSUME UNCHANGED req, touched' \subseteq Range,
           Fail("failed") \/ (Fail("memory") /\ how # "block")
    PROVE  SoundCallInv'
<1>1. pc' = "idle" /\ res' # "ok"
  BY DEF Fail, Finish
<1> QED
  BY <1>1 DEF SoundCallInv, Range, Bytes, InCall

\* A step that sets up a transfer leaves the bytes alone.
LEMMA SoundSetUp ==
    ASSUME Groups, LoopInv, SoundCall => PassedIsDone /\ touched \subseteq Range,
           UNCHANGED <<req, touched, flags, loopVars>>,
           InCall, pc' \notin {"idle", "sticky"},
           SoundCall => InStep'
    PROVE  SoundCallInv'
BY DEF SoundCall, SoundCallInv, PassedIsDone, MemoryCall, Range, Bytes, Ended, loopVars

LEMMA SoundStep1 ==
    ASSUME Groups, LoopInv, SoundCallInv,
           SwitchAP \/ TestSizesAP \/ BankZero \/ SetSize \/ SetTAR \/ NextPiece \/ EndOfCall
    PROVE  SoundCallInv'
<1> SUFFICES ASSUME SoundCall
             PROVE  SoundCallInv'
  BY DEF SoundCallInv, SoundCall, MemoryCall, SwitchAP, TestSizesAP, BankZero, SetSize,
         SetTAR, NextPiece, EndOfCall
<1>1. InCall
  BY DEF InCall, SwitchAP, TestSizesAP, BankZero, SetSize, SetTAR, NextPiece, EndOfCall
<1>2. InStep /\ PassedIsDone /\ touched \subseteq Range
  BY <1>1 DEF SoundCallInv, SoundCall
<1>3. apSel \in AP
  BY DEF Groups, HostType
<1>4. CASE SwitchAP
  <2>1. Go("bank") /\ UNCHANGED <<hostVars, targetVars, req, touched, lost>>
    BY <1>2, <1>4 DEF SwitchAP, InStep, targetVars
  <2>2. InStep'
    BY <1>2, <2>1 DEF InStep, Go, hostVars, targetVars, Selected, Writes
  <2> QED
    BY <1>1, <1>2, <2>1, <2>2, SoundSetUp DEF Go, hostVars, targetVars
<1>5. CASE TestSizesAP
  BY <1>2, <1>5 DEF TestSizesAP, InStep
<1>6. CASE BankZero
  <2>1. CASE Fail("failed")
    BY <1>2, <1>6, <2>1, SoundFail DEF BankZero
  <2>2. CASE Go("size")
    <3>1. apBank' = 0 /\ sel' = Selected(0)
      BY <1>2, <1>6, <2>2 DEF BankZero, WriteSelect, Fail, Finish, Go, selectVars, InStep
    <3>2. InStep'
      BY <1>2, <1>6, <2>2, <3>1 DEF BankZero, InStep, Go, Selected, Writes
    <3> QED
      BY <1>1, <1>2, <1>6, <2>2, <3>2, SoundSetUp DEF BankZero, Go
  <2> QED
    BY <1>6, <2>1, <2>2 DEF BankZero, WriteSelect
<1>7. CASE SetSize
  <2>1. apBank = 0 /\ sel = Selected(0) /\ Reached(0) = apSel
    BY <1>2, <1>7 DEF SetSize, InStep, Reached, Selected
  <2>2. CASE Fail("failed")
    BY <1>2, <1>7, <2>2, SoundFail DEF SetSize
  <2>3. CASE Go(AfterSize) /\ ~Fail("failed")
    <3>1. /\ csw'[apSel] = WantedCsw
          /\ ctx'[apSel].csw = WantedCsw
          /\ ctx'[apSel].known
          /\ UNCHANGED flags
      BY <1>2, <1>3, <1>7, <2>1, <2>3
      DEF SetSize, WriteAP, InStep, Groups, HostType, TargetType
    <3>2. apBank' = 0 /\ sel' = Selected(0)
      BY <1>7, <2>1, <2>3 DEF SetSize, WriteAP, ApSelect, NeedSelect, selectVars
    <3>3. /\ how = "single" => n \in {1, 2}
          /\ how \in {"single", "block", "slow"}
      BY <1>1, <1>7 DEF SetSize, LoopInv, Groups, CallType
    <3>4. /\ pc' = "data" => WantedCsw.size = IF how = "slow" THEN 4 ELSE n
          /\ pc' = "tar" => WantedCsw = [size |-> 4, inc |-> "single"]
          /\ pc' \in {"data", "tar"}
      BY <2>3, <3>3 DEF WantedCsw, AfterSize, Go, Groups, HostType, Csw
    <3>5. InStep'
      BY <1>2, <1>7, <2>3, <3>1, <3>2, <3>4
      DEF SetSize, InStep, Go, loopVars, Selected, Writes
    <3> QED
      BY <1>1, <1>2, <1>7, <2>3, <3>1, <3>4, <3>5, SoundSetUp DEF SetSize, Go
  <2> QED
    BY <1>7, <2>2, <2>3 DEF SetSize, WriteAP
<1>8. CASE SetTAR
  <2>1. apBank = 0 /\ sel = Selected(0) /\ Reached(0) = apSel
    BY <1>2, <1>8 DEF SetTAR, InStep, Reached, Selected
  <2> DEFINE p == IF req.op = "verify" THEN "arm" ELSE "repeat"
  <2>2. CASE Fail("failed")
    BY <1>2, <1>8, <2>2, SoundFail DEF SetTAR
  <2>3. CASE Go(p) /\ ~Fail("failed")
    <3>1. tar'[apSel] = adr /\ UNCHANGED <<csw, flags>>
      BY <1>3, <1>8, <2>1, <2>3 DEF SetTAR, WriteAP, Groups, TargetType
    <3>2. apBank' = 0 /\ sel' = Selected(0)
      BY <1>8, <2>1, <2>3 DEF SetTAR, WriteAP, ApSelect, NeedSelect
    <3>3. InStep'
      BY <1>2, <1>8, <2>3, <3>1, <3>2 DEF SetTAR, InStep, Go, loopVars, Selected, Writes
    <3> QED
      BY <1>1, <1>2, <1>8, <2>3, <3>1, <3>3, SoundSetUp DEF SetTAR, Go
  <2> QED
    BY <1>8, <2>2, <2>3 DEF SetTAR, WriteAP
<1>9. CASE NextPiece
  <2>1. InStep'
    BY <1>2, <1>9 DEF NextPiece, InStep, hostVars, targetVars, Selected, Writes
  <2>2. PassedIsDone'
    BY <1>2, <1>9 DEF NextPiece, InStep, PassedIsDone, targetVars, Bytes
  <2> QED
    BY <1>2, <1>9, <2>1, <2>2 DEF NextPiece, SoundCallInv, Range, Bytes, Ended
<1>10. CASE EndOfCall
  <2>1. adr = req.adr + req.many /\ flags = {}
    BY <1>1, <1>2, <1>10 DEF EndOfCall, LoopInv, Groups, CallType, InStep
  <2>2. Range \subseteq touched
    BY <1>2, <2>1 DEF PassedIsDone, Range
  <2> QED
    BY <1>2, <1>10, <2>2 DEF EndOfCall, Finish, SoundCallInv, Range, Bytes, InCall
<1> QED
  BY <1>4, <1>5, <1>6, <1>7, <1>8, <1>9, <1>10
\* The bytes of the piece in progress are bytes of the call.
LEMMA PieceInRange ==
    ASSUME Groups, LoopInv, InCall, pc # "next",
           NEW k \in Nat, k <= n \/ (how = "slow" /\ pc = "data" /\ k <= 4)
    PROVE  /\ Bytes(adr, adr + k) \subseteq Range
           /\ Bytes(req.adr, adr) \cup Bytes(adr, adr + k) = Bytes(req.adr, adr + k)
<1>1. /\ adr \in Nat /\ many \in Nat /\ n \in Nat /\ req.adr \in Nat /\ req.many \in Nat
      /\ req.adr <= adr /\ adr + many = req.adr + req.many
  BY DEF Groups, CallType, ReqType, LoopInv
<1>2. k <= many
  BY <1>1 DEF LoopInv
<1>3. adr + k \in Nat /\ adr + k <= req.adr + req.many
  BY <1>1, <1>2
<1> QED
  BY <1>1, <1>3, BytesWithin, BytesJoin DEF Range

LEMMA SoundData ==
    ASSUME Groups, LoopInv, SoundCallInv, Data
    PROVE  SoundCallInv'
<1> SUFFICES ASSUME SoundCall
             PROVE  SoundCallInv'
  BY DEF SoundCallInv, SoundCall, MemoryCall, Data
<1>1. InCall /\ pc = "data" /\ UNCHANGED <<hostVars, sel, csw, mode, req>>
  BY DEF Data, InCall
<1>2. InStep /\ PassedIsDone /\ touched \subseteq Range
  BY <1>1 DEF SoundCallInv, SoundCall
<1> DEFINE s == IF how = "slow" THEN 4 ELSE n
<1>3. /\ how \in {"single", "slow"}
      /\ adr \in Nat /\ n \in Nat
      /\ how = "slow" => n >= 4 /\ n % 4 = 0
      /\ s \in Sizes
      /\ adr % s = 0
  BY <1>1 DEF LoopInv, Groups, CallType, Sizes
<1>4. sel = Selected(0) /\ req.ap = apSel /\ csw[apSel].size = s /\ apBank = 0
  BY <1>1, <1>2 DEF InStep
<1> HIDE DEF s
<1>5. Cells(adr) = Bytes(adr, adr + s)
  BY <1>3, <1>4, CellsAligned
<1>6. s \in Nat /\ (s <= n \/ (how = "slow" /\ pc = "data" /\ s <= 4))
  BY <1>1, <1>3 DEF s
<1>7. /\ Bytes(adr, adr + s) \subseteq Range
      /\ Bytes(req.adr, adr) \cup Bytes(adr, adr + s) = Bytes(req.adr, adr + s)
  BY <1>1, <1>6, PieceInRange
<1>8. CASE Fail("failed") \/ Fail("memory")
  <2>1. touched' \in {touched, touched \cup Cells(adr)}
    BY <1>8 DEF Data
  <2> QED
    BY <1>1, <1>2, <1>3, <1>5, <1>7, <1>8, <2>1, SoundFail
<1>9. CASE /\ flags = {}
           /\ AfterData
           /\ \/ touched' = touched \cup Cells(adr) /\ UNCHANGED flags
              \/ flags' = {"err"} /\ UNCHANGED touched
  <2>1. touched' \subseteq Range
    BY <1>2, <1>5, <1>7, <1>9
  <2>2. InStep'
    BY <1>1, <1>2, <1>9
    DEF InStep, AfterData, Go, Advance, loopVars, hostVars, Selected, Writes
  <2>3. Bytes(req.adr, adr) \subseteq touched
    BY <1>2, <1>9 DEF PassedIsDone
  <2>4. PassedIsDone'
    <3>1. CASE how = "slow"
      <4>1. how' = "slow" /\ adr' = adr + s /\ pc' \in {"sticky", "switch"}
        BY <1>9, <3>1 DEF AfterData, Advance, s
      <4>2. CASE flags' # {}
        BY <4>1, <4>2 DEF PassedIsDone
      <4>3. CASE touched' = touched \cup Cells(adr)
        <5>1. Bytes(req.adr, adr + s) \subseteq touched'
          BY <1>5, <1>7, <2>3, <4>3
        <5>2. Bytes(req.adr, adr)' = Bytes(req.adr, adr + s)
          BY <1>1, <4>1 DEF Bytes
        <5> QED
          BY <4>1, <5>1, <5>2 DEF PassedIsDone
      <4> QED
        BY <1>9, <4>2, <4>3
    <3>2. CASE how = "single"
      <4>1. UNCHANGED <<adr, n, how>> /\ s = n
        BY <1>9, <3>2 DEF AfterData, Go, loopVars, s
      <4>2. Bytes(req.adr, adr)' = Bytes(req.adr, adr) /\ Bytes(adr, adr + n)' = Bytes(adr, adr + n)
        BY <1>1, <4>1 DEF Bytes
      <4> QED
        BY <1>5, <1>9, <2>3, <3>2, <4>1, <4>2 DEF PassedIsDone
    <3> QED
      BY <1>3, <3>1, <3>2
  <2>5. pc' \notin {"idle", "check", "restore", "registers"}
    BY <1>9 DEF AfterData, Go
  <2> QED
    BY <1>1, <2>1, <2>2, <2>4, <2>5 DEF SoundCallInv, Range, Bytes, Ended
<1>10. CASE /\ mode = "verify" /\ Writes
  BY <1>2, <1>10 DEF InStep
<1> QED
  BY <1>8, <1>9, <1>10 DEF Data, ClearSticky
\* A block in a sound call starts at its address.
LEMMA SoundBlock ==
    ASSUME Groups, LoopInv, InStep, pc \in {"repeat", "arm", "compare"}
    PROVE  /\ InBlock
           /\ n <= many
           /\ \A k : Before(k) \subseteq Range
           /\ Bytes(adr, adr + n) = Whole
           /\ Whole \subseteq Range
<1>1. InCall
  BY DEF InCall
<1>2. InBlock /\ n <= many
  BY <1>1 DEF InBlock, LoopInv, InStep, Groups, CallType
<1>3. Bytes(adr, adr + n) \subseteq Range
  BY <1>1, <1>2, PieceInRange DEF InBlock
<1>4. \A k : Before(k) \subseteq Bytes(adr, adr + n)
  BY <1>2, BlockBytes
<1>5. Bytes(adr, adr + n) \subseteq Whole
  BY <1>2, BlockBytes
<1>6. Whole \subseteq Bytes(adr, adr + n)
  BY <1>4 DEF Whole
<1> QED
  BY <1>2, <1>3, <1>4, <1>5, <1>6

\* After the piece, what was passed ends n bytes later.
LEMMA SoundPassed ==
    ASSUME Groups, LoopInv, SoundCall, InCall, pc # "next", InStep,
           pc' = "next", flags' = {}, UNCHANGED <<how, req, hostVars, sel, csw>>,
           Writes => mode' = "normal",
           touched' \subseteq Range,
           \/ /\ adr' = adr + n
              /\ Bytes(req.adr, adr) \cup Bytes(adr, adr + n) \subseteq touched'
           \/ /\ adr' = adr
              /\ Bytes(req.adr, adr) \subseteq touched'
    PROVE  SoundCallInv'
<1>1. InStep'
  BY DEF InStep, hostVars, Selected, Writes
<1>2. n \in Nat
  BY DEF Groups, CallType
<1>3. Bytes(req.adr, adr)' = Bytes(req.adr, adr')
  BY DEF Bytes
<1>4. Bytes(req.adr, adr)' \subseteq touched'
  BY <1>2, <1>3, PieceInRange
<1>5. PassedIsDone'
  BY <1>4 DEF PassedIsDone
<1> QED
  BY <1>1, <1>5 DEF SoundCallInv, Range, Bytes, Ended

LEMMA SoundRepeat ==
    ASSUME Groups, LoopInv, SoundCallInv, Repeat
    PROVE  SoundCallInv'
<1> SUFFICES ASSUME SoundCall
             PROVE  SoundCallInv'
  BY DEF SoundCallInv, SoundCall, MemoryCall, Repeat
<1>1. InCall /\ pc = "repeat" /\ UNCHANGED <<hostVars, sel, csw, tar, mode, req>>
  BY DEF Repeat, InCall
<1>2. InStep /\ PassedIsDone /\ touched \subseteq Range
  BY <1>1 DEF SoundCallInv, SoundCall
<1>3. /\ \A k : Before(k) \subseteq Range
      /\ Bytes(adr, adr + n) = Whole
      /\ Whole \subseteq Range
  BY <1>1, <1>2, SoundBlock
<1>4. how = "block"
  BY <1>1 DEF LoopInv
<1>5. touched' \subseteq Range /\ touched \subseteq touched'
  BY <1>2, <1>3 DEF Repeat
<1>6. CASE Fail("failed")
  BY <1>1, <1>5, <1>6, SoundFail
<1>7. CASE /\ Go("sticky")
           /\ \/ touched' = touched \cup Whole /\ UNCHANGED flags
              \/ flags' = {"err"}
  <2>1. InStep'
    BY <1>1, <1>2, <1>7 DEF InStep, Go, hostVars, Selected, Writes
  <2>2. Bytes(req.adr, adr)' = Bytes(req.adr, adr) /\ Bytes(adr, adr + n)' = Bytes(adr, adr + n)
    BY <1>1, <1>7 DEF Bytes, Go, loopVars
  <2>3. PassedIsDone'
    BY <1>2, <1>3, <1>4, <1>5, <1>7, <2>2 DEF PassedIsDone, Go, loopVars
  <2> QED
    BY <1>1, <1>5, <1>7, <2>1, <2>3 DEF SoundCallInv, Range, Bytes, Ended, Go
<1>8. CASE mode = "verify" /\ Writes
  BY <1>2, <1>8 DEF InStep
<1> QED
  BY <1>6, <1>7, <1>8 DEF Repeat

LEMMA SoundSticky ==
    ASSUME Groups, LoopInv, SoundCallInv, StickyError
    PROVE  SoundCallInv'
<1> SUFFICES ASSUME SoundCall
             PROVE  SoundCallInv'
  BY DEF SoundCallInv, SoundCall, MemoryCall, StickyError
<1>1. InCall /\ pc = "sticky" /\ UNCHANGED <<hostVars, sel, csw, tar, mode, req, touched>>
  BY DEF StickyError, InCall
<1>2. InStep /\ PassedIsDone /\ touched \subseteq Range
  BY <1>1 DEF SoundCallInv, SoundCall
<1>3. CASE /\ "err" \notin flags
           /\ pc' = "next"
           /\ IF how = "slow" THEN UNCHANGED <<adr, many>> ELSE Advance(n)
           /\ UNCHANGED <<how, n, res, flags, lost>>
  <2>1. flags = {}
    BY <1>2, <1>3 DEF InStep
  <2>2. Bytes(req.adr, adr) \subseteq touched
    BY <1>2, <2>1 DEF PassedIsDone
  <2>3. how # "slow" => adr' = adr + n /\ Bytes(adr, adr + n) \subseteq touched
    BY <1>1, <1>2, <1>3, <2>1 DEF PassedIsDone, Advance
  <2>4. Writes => mode' = "normal"
    BY <1>1, <1>2 DEF InStep
  <2> QED
    BY <1>1, <1>2, <1>3, <2>1, <2>2, <2>3, <2>4, SoundPassed
<1>4. CASE Fail("memory") /\ how = "block" /\ flags' = flags \ {"err"}
  <2>1. pc' = "switch" /\ UNCHANGED <<adr, many, n, res>>
    BY <1>4 DEF Fail
  <2>2. flags' = {}
    BY <1>2, <1>4 DEF InStep
  <2>3. InStep'
    BY <1>1, <1>2, <2>1, <2>2 DEF InStep, hostVars, Selected, Writes
  <2>4. Bytes(req.adr, adr) \subseteq touched
    BY <1>2, <1>4 DEF PassedIsDone
  <2>5. PassedIsDone'
    BY <1>1, <2>1, <2>4 DEF PassedIsDone, Bytes
  <2> QED
    BY <1>1, <1>2, <2>1, <2>3, <2>5 DEF SoundCallInv, Range, Bytes, Ended
<1>5. CASE Fail("failed") \/ (Fail("memory") /\ how # "block")
  BY <1>1, <1>2, <1>5, SoundFail
<1> QED
  BY <1>3, <1>4, <1>5 DEF StickyError, ClearSticky

LEMMA SoundVerify ==
    ASSUME Groups, LoopInv, SoundCallInv, Arm \/ Compare
    PROVE  SoundCallInv'
<1> SUFFICES ASSUME SoundCall
             PROVE  SoundCallInv'
  BY DEF SoundCallInv, SoundCall, MemoryCall, Arm, Compare
<1>1. InCall /\ pc \in {"arm", "compare"} /\ UNCHANGED <<hostVars, sel, csw, tar, req>>
  BY DEF Arm, Compare, InCall
<1>2. InStep /\ PassedIsDone /\ touched \subseteq Range
  BY <1>1 DEF SoundCallInv, SoundCall
<1>3. /\ \A k : Before(k) \subseteq Range
      /\ Bytes(adr, adr + n) = Whole
      /\ Whole \subseteq Range
  BY <1>1, <1>2, SoundBlock
<1>4. how = "block" /\ ~Writes
  BY <1>1 DEF LoopInv, Writes
<1>5. CASE Arm
  <2>1. CASE Fail("failed")
    BY <1>1, <1>2, <1>5, <2>1, SoundFail DEF Arm
  <2>2. CASE Go("compare")
    <3>0. flags = {} /\ UNCHANGED flags
      BY <1>5, <2>2 DEF Arm, Go, Fail, Finish
    <3>1. InStep'
      BY <1>1, <1>2, <1>4, <1>5, <2>2, <3>0
      DEF Arm, InStep, Go, loopVars, hostVars, Selected, Writes
    <3> QED
      BY <1>1, <1>2, <1>5, <2>2, <3>1, SoundSetUp DEF Arm, Go
  <2> QED
    BY <1>5, <2>1, <2>2 DEF Arm
<1>6. CASE Compare
  <2>1. touched' \subseteq Range /\ touched \subseteq touched'
    BY <1>2, <1>3, <1>6 DEF Compare
  <2>2. CASE Fail("failed")
    BY <1>1, <2>1, <2>2, SoundFail
  <2>3. CASE pc' = "next" /\ Advance(n) /\ UNCHANGED <<how, flags>>
             /\ touched' = touched \cup Whole
    <3>1. flags = {} /\ flags' = {}
      BY <1>2, <1>6, <2>3 DEF Compare, InStep
    <3> QED
      BY <1>1, <1>2, <1>3, <1>4, <2>1, <2>3, <3>1, SoundPassed DEF PassedIsDone, Advance
  <2>4. CASE Fail("memory") /\ flags' = {"err"}
    <3>1. /\ pc' = "switch" /\ how' = "slow"
          /\ UNCHANGED <<adr, many, n, res>>
      BY <1>4, <2>4 DEF Fail
    <3>2. InStep'
      BY <1>1, <1>2, <1>4, <2>4, <3>1 DEF InStep, hostVars, Selected, Writes
    <3>3. PassedIsDone'
      BY <2>4, <3>1 DEF PassedIsDone
    <3> QED
      BY <1>1, <2>1, <3>1, <3>2, <3>3 DEF SoundCallInv, Range, Bytes, Ended
  <2> QED
    BY <1>6, <2>2, <2>3, <2>4 DEF Compare
<1> QED
  BY <1>5, <1>6
LEMMA SoundOther ==
    ASSUME Groups, LoopInv, SoundCallInv,
           \/ CheckCsw \/ RestoreCsw \/ MoveRegisters
           \/ Call \/ Recover \/ DebugRegisters \/ SelectAP
           \/ UNCHANGED swdVars
    PROVE  SoundCallInv'
<1>1. CASE CheckCsw \/ RestoreCsw \/ MoveRegisters
  BY <1>1 DEF CheckCsw, RestoreCsw, MoveRegisters, LoopInv, SoundCallInv, MemoryCall
<1>2. CASE Call
  <2>1. PICK r \in Requests :
            Start(r) /\ adr' = r.adr /\ pc' = "next"
    BY <1>2 DEF Call
  <2>2. r.adr \in Nat
    BY SwdAssumption DEF RequestType
  <2>3. Sound /\ UNCHANGED <<hostVars, targetVars>> => InStep'
    BY <2>1, <1>2 DEF Call, Start, Sound, InStep, hostVars, targetVars, Selected
  <2>4. req'.adr = adr' /\ adr' \in Nat /\ touched' = {}
    BY <2>1, <2>2 DEF Start
  <2>5. Bytes(req.adr, adr)' = {}
    <3>1. PICK a \in Nat : adr' = a /\ req'.adr = a
      BY <2>4
    <3>2. Bytes(req.adr, adr)' = {<<req'.ap, i>> : i \in a .. a - 1}
      BY <3>1 DEF Bytes
    <3>3. a .. a - 1 = {}
      OBVIOUS
    <3> QED
      BY <3>2, <3>3
  <2>6. PassedIsDone'
    BY <2>1, <2>5 DEF PassedIsDone
  <2> QED
    BY <1>2, <2>1, <2>3, <2>4, <2>6 DEF Call, Start, SoundCallInv, Ended
<1>3. CASE Recover \/ DebugRegisters
  BY <1>3 DEF Recover, DebugRegisters, ARMRegs, SysCall, AtDebugRegisters, Start, NoMemory, SoundCallInv, MemoryCall
<1>4. CASE SelectAP
  BY <1>4 DEF SelectAP, callVars, SoundCallInv, MemoryCall, Range, Bytes, InCall, Ended
<1>5. CASE UNCHANGED swdVars
  BY <1>5
  DEF swdVars, hostVars, targetVars, callVars, SoundCallInv, MemoryCall, Range, Bytes, InCall,
      Ended, InStep, PassedIsDone, Selected, Writes
<1> QED
  BY <1>1, <1>2, <1>3, <1>4, <1>5

----------------------------------------------------------------------------
(* The theorems.                                                             *)
LEMMA InductiveInit == SwdInit => SwdInductive
<1> SUFFICES ASSUME SwdInit
             PROVE  SwdInductive
  OBVIOUS
<1>1. SwdTypeOK
  BY SwdAssumption DEF SwdInit, SwdTypeOK, Banks, Csw, Sizes, Pcs, Ops
<1>2. LoopInv
  BY DEF SwdInit, LoopInv, InCall
<1>3. SoundCallInv
  BY DEF SwdInit, SoundCallInv, InCall, Ended
<1> QED
  BY <1>1, <1>2, <1>3 DEF SwdInductive

LEMMA InductiveStep == SwdInductive /\ [SwdNext]_swdVars => SwdInductive'
<1> SUFFICES ASSUME SwdInductive, [SwdNext]_swdVars
             PROVE  SwdInductive'
  OBVIOUS
<1>1. Groups /\ LoopInv /\ SoundCallInv
  BY TypeGroups DEF SwdInductive, Groups
<1>2. Groups'
  BY <1>1, TypeStep
<1>3. SwdTypeOK'
  BY <1>2
  DEF Groups, SwdTypeOK, HostType, SelectType, TargetType, CallType, ReqType, LostType
<1>4. LoopInv'
  BY <1>1, LoopStep
<1>5. SoundCallInv'
  BY <1>1, SoundStep1, SoundData, SoundRepeat, SoundSticky, SoundVerify, SoundOther
  DEF SwdNext, Step
<1> QED
  BY <1>3, <1>4, <1>5 DEF SwdInductive

\* SwdInductive holds in every state.
THEOREM Inductive == SwdSpec => []SwdInductive
BY InductiveInit, InductiveStep, PTL DEF SwdSpec

\* Every variable of the access layer keeps its type.
THEOREM TypeCorrect == SwdSpec => []SwdTypeOK
<1>1. SwdInductive => SwdTypeOK
  BY DEF SwdInductive
<1> QED
  BY <1>1, Inductive, PTL

\* A read, write or verify from a sound session touches only bytes it was asked for,
\* whatever is lost or refused on the way (SWD_ReadARMMem and the others).
THEOREM OnlyRequestedBytesHolds == SwdSpec => []OnlyRequestedBytes
<1>1. SwdInductive => OnlyRequestedBytes
  BY DEF SwdInductive, SoundCallInv, OnlyRequestedBytes
<1> QED
  BY <1>1, Inductive, PTL

\* Success from a sound session means that every byte was transferred.
THEOREM SuccessIsCompleteHolds == SwdSpec => []SuccessIsComplete
<1>1. SwdInductive => SuccessIsComplete
  BY DEF SwdInductive, SoundCallInv, SuccessIsComplete
<1> QED
  BY <1>1, Inductive, PTL
=============================================================================
