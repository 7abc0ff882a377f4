--------------------------- MODULE DSMonitor_proofs ---------------------------
(***************************************************************************)
(* Proofs about the device state monitor, for any number of users and with *)
(* or without recovery: its type, and its safety properties by way of one  *)
(* inductive invariant.                                                    *)
(***************************************************************************)
EXTENDS DSMonitor, FiniteSetTheorems, SequenceTheorems, TLAPS

-----------------------------------------------------------------------------
(* Stacks.                                                                 *)

\* A stack is at most three calls deep, and a call that returns leaves the
\* stack one shallower; what is below a call is settled by who made it.
LEMMA StackFacts ==
    ASSUME NEW s \in Stacks
    PROVE  /\ Len(s) \in 0 .. 3
           /\ s = <<>> <=> Len(s) = 0
           /\ s # <<>> => Tail(s) \in Stacks /\ Len(Tail(s)) = Len(s) - 1 /\ Head(s) \in Callers
           /\ s # <<>> /\ Head(s) \in {"read", "flash"} => Tail(s) \in {<<>>, <<"flash">>}
           /\ s # <<>> /\ Head(s) = "flash" => Tail(s) = <<>>
           /\ s # <<>> /\ Head(s) = "ext" => Tail(s) # <<>>
<1>1. CASE s = <<>>
    BY <1>1 DEF Stacks, Callers
<1>2. CASE s = <<"flash">>
    BY <1>2, Tail(<<"flash">>) = <<>> DEF Stacks, Callers
<1>3. CASE s = <<"read">>
    BY <1>3, Tail(<<"read">>) = <<>> DEF Stacks, Callers
<1>4. CASE s = <<"read", "flash">>
    BY <1>4, Tail(<<"read", "flash">>) = <<"flash">> DEF Stacks, Callers
<1>5. CASE s = <<"ext", "read">>
    BY <1>5, Tail(<<"ext", "read">>) = <<"read">> DEF Stacks, Callers
<1>6. CASE s = <<"ext", "read", "flash">>
    BY <1>6, Tail(<<"ext", "read", "flash">>) = <<"read", "flash">> DEF Stacks, Callers
<1>7. QED
    BY <1>1, <1>2, <1>3, <1>4, <1>5, <1>6 DEF Stacks

\* A call that is made leaves the stack one deeper.
LEMMA Pushed ==
    /\ <<"flash">> \o <<>> = <<"flash">>
    /\ <<"read">> \o <<>> = <<"read">>
    /\ <<"read">> \o <<"flash">> = <<"read", "flash">>
    /\ <<"ext">> \o <<"read">> = <<"ext", "read">>
    /\ <<"ext">> \o <<"read", "flash">> = <<"ext", "read", "flash">>
<1>1. /\ {<<"flash">>, <<"read">>, <<"ext">>} \subseteq Seq(Callers)
      /\ {<<"read", "flash">>, <<"ext", "read">>} \subseteq Seq(Callers)
      /\ <<"ext", "read", "flash">> \in Seq(Callers)
    BY DEF Callers
<1>2. <<"flash">> \o <<>> = <<"flash">> /\ <<"read">> \o <<>> = <<"read">>
    BY <1>1, ConcatEmptySeq
<1>3. \A c, d \in Callers : <<c>> \o <<d>> = <<c, d>>
  <2> SUFFICES ASSUME NEW c \in Callers, NEW d \in Callers PROVE <<c>> \o <<d>> = <<c, d>>
      OBVIOUS
  <2> DEFINE r == <<c>> \o <<d>>
  <2>1. r \in Seq(Callers) /\ Len(r) = 2 /\ r[1] = c /\ r[2] = d
      BY <1>1, ConcatProperties
  <2> HIDE DEF r
  <2>2. r = <<c, d>>
      BY <2>1, SeqEqual
  <2>3. QED
      BY <2>2 DEF r
<1>4. <<"ext">> \o <<"read", "flash">> = <<"ext", "read", "flash">>
  <2> DEFINE r == <<"ext">> \o <<"read", "flash">>
  <2>1. r \in Seq(Callers) /\ Len(r) = 3 /\ r[1] = "ext" /\ r[2] = "read" /\ r[3] = "flash"
      BY <1>1, ConcatProperties
  <2> HIDE DEF r
  <2>2. r = <<"ext", "read", "flash">>
      BY <1>1, <2>1, SeqEqual
  <2>3. QED
      BY <2>2 DEF r
<1>5. QED
    BY <1>2, <1>3, <1>4 DEF Callers

\* What the three callers put on a stack.
LEMMA EnterFacts ==
    /\ \A s \in {<<>>, <<"flash">>} :
        <<"read">> \o s \in Stacks /\ Len(<<"read">> \o s) = Len(s) + 1
    /\ \A s \in Stacks : s # <<>> /\ Head(s) = "read" =>
        <<"ext">> \o s \in Stacks /\ Len(<<"ext">> \o s) = Len(s) + 1
    /\ <<"flash">> \o <<>> \in Stacks /\ Len(<<"flash">> \o <<>>) = 1
<1>1. \A s \in Stacks : s # <<>> /\ Head(s) = "read" => s \in {<<"read">>, <<"read", "flash">>}
    BY DEF Stacks
<1>2. \A s \in {<<"read">>, <<"read", "flash">>} :
        <<"ext">> \o s \in Stacks /\ Len(<<"ext">> \o s) = Len(s) + 1
  <2> SUFFICES ASSUME NEW s \in {<<"read">>, <<"read", "flash">>}
               PROVE  <<"ext">> \o s \in Stacks /\ Len(<<"ext">> \o s) = Len(s) + 1
      OBVIOUS
  <2>1. CASE s = <<"read">>
    <3>1. <<"ext">> \o s = <<"ext", "read">>
        BY <2>1, Pushed
    <3>2. QED
        BY <2>1, <3>1 DEF Stacks
  <2>2. CASE s = <<"read", "flash">>
    <3>1. <<"ext">> \o s = <<"ext", "read", "flash">>
        BY <2>2, Pushed
    <3>2. QED
        BY <2>2, <3>1 DEF Stacks
  <2>3. QED
      BY <2>1, <2>2
<1>3. \A s \in {<<>>, <<"flash">>} :
        <<"read">> \o s \in Stacks /\ Len(<<"read">> \o s) = Len(s) + 1
  <2> SUFFICES ASSUME NEW s \in {<<>>, <<"flash">>}
               PROVE  <<"read">> \o s \in Stacks /\ Len(<<"read">> \o s) = Len(s) + 1
      OBVIOUS
  <2>1. CASE s = <<>>
    <3>1. <<"read">> \o s = <<"read">>
        BY <2>1, Pushed
    <3>2. QED
        BY <2>1, <3>1 DEF Stacks
  <2>2. CASE s = <<"flash">>
    <3>1. <<"read">> \o s = <<"read", "flash">>
        BY <2>2, Pushed
    <3>2. QED
        BY <2>2, <3>1 DEF Stacks
  <2>3. QED
      BY <2>1, <2>2
<1>4. <<"flash">> \o <<>> \in Stacks /\ Len(<<"flash">> \o <<>>) = 1
    BY Pushed DEF Stacks
<1>5. QED
    BY <1>1, <1>2, <1>3, <1>4

-----------------------------------------------------------------------------
(* Suspensions in force.                                                   *)

\* How deep a user is inside of suspensions.
LEMMA DepthFacts ==
    ASSUME MonitorTypeOK, UsersPlaced, NEW u \in Users
    PROVE  /\ Depth(u) \in 0 .. 3
           /\ stack[u] = <<>> => Depth(u) = 0
<1>1. stack[u] \in Stacks
    BY DEF MonitorTypeOK
<1>2. /\ Len(stack[u]) \in 0 .. 3
      /\ stack[u] = <<>> <=> Len(stack[u]) = 0
    BY <1>1, StackFacts
<1>3. at[u] \in Uncounted => stack[u] # <<>>
    BY DEF UsersPlaced, Placed, Uncounted
<1> DEFINE l == Len(stack[u])
<1>4. Depth(u) = IF at[u] \in Uncounted THEN l - 1 ELSE l
    BY <1>2 DEF Depth
<1>5. at[u] \in Uncounted => l \in 1 .. 3
    BY <1>2, <1>3
<1>6. QED
    BY <1>2, <1>3, <1>4, <1>5

\* The suspensions of the users are finitely many, and some when a user has one.
LEMMA HoldsFacts ==
    ASSUME MonitorTypeOK, UsersPlaced
    PROVE  /\ IsFiniteSet(Holds)
           /\ Cardinality(Holds) \in Nat
           /\ \A u \in Users : Depth(u) > 0 => Cardinality(Holds) > 0
           /\ (\A u \in Users : Depth(u) = 0) => Cardinality(Holds) = 0
<1>1. IsFiniteSet(Users \X (1 .. 3))
  <2>1. 1 \in Int /\ 3 \in Int
      OBVIOUS
  <2>2. IsFiniteSet(Users)
      BY DSMonitorAssumption DEF DSMonitorAssumption
  <2> DEFINE I == 1 .. 3
  <2>3. IsFiniteSet(I)
      BY <2>1, FS_Interval, Zenon
  <2> HIDE DEF I
  <2>4. IsFiniteSet(Users \X I)
      BY <2>2, <2>3, FS_Product
  <2>5. QED
      BY <2>4 DEF I
<1>2. IsFiniteSet(Holds)
    BY <1>1, FS_Subset DEF Holds
<1>3. Cardinality(Holds) \in Nat
    BY <1>2, FS_CardinalityType
<1>4. \A u \in Users : Depth(u) > 0 => Cardinality(Holds) > 0
  <2> SUFFICES ASSUME NEW u \in Users, Depth(u) > 0 PROVE Cardinality(Holds) > 0
      OBVIOUS
  <2>1. <<u, 1>> \in Holds
      BY DepthFacts DEF Holds
  <2>2. Cardinality(Holds) # 0
      BY <1>2, <2>1, FS_EmptySet
  <2>3. QED
      BY <1>3, <2>2
<1>5. (\A u \in Users : Depth(u) = 0) => Cardinality(Holds) = 0
  <2> SUFFICES ASSUME \A u \in Users : Depth(u) = 0 PROVE Cardinality(Holds) = 0
      OBVIOUS
  <2>1. Holds = {}
      BY DEF Holds
  <2>2. QED
      BY <2>1, FS_EmptySet
<1>6. QED
    BY <1>2, <1>3, <1>4, <1>5

\* One user goes one suspension deeper: there is one more.
LEMMA HoldsUp ==
    ASSUME MonitorTypeOK, UsersPlaced, NEW u \in Users, Depth(u) < 3, Depth(u)' = Depth(u) + 1,
           \A v \in Users \ {u} : Depth(v)' = Depth(v)
    PROVE  Cardinality(Holds)' = Cardinality(Holds) + 1
<1> DEFINE h == <<u, Depth(u) + 1>>
<1>1. Depth(u) \in 0 .. 3
    BY DepthFacts
<1>2. Holds' = Holds \cup {h}
    BY <1>1 DEF Holds
<1>3. h \notin Holds
    BY <1>1 DEF Holds
<1>4. QED
    BY <1>2, <1>3, HoldsFacts, FS_AddElement

\* One user leaves a suspension: there is one less.
LEMMA HoldsDown ==
    ASSUME MonitorTypeOK, UsersPlaced, NEW u \in Users, Depth(u) > 0, Depth(u)' = Depth(u) - 1,
           \A v \in Users \ {u} : Depth(v)' = Depth(v)
    PROVE  Cardinality(Holds)' = Cardinality(Holds) - 1
<1> DEFINE h == <<u, Depth(u)>>
<1>1. Depth(u) \in 0 .. 3
    BY DepthFacts
<1>2. Holds' = Holds \ {h}
    BY <1>1 DEF Holds
<1>3. h \in Holds
    BY <1>1 DEF Holds
<1>4. QED
    BY <1>2, <1>3, HoldsFacts, FS_RemoveElement

\* All users stay where they are: so does the number.
LEMMA HoldsStay ==
    ASSUME \A v \in Users : Depth(v)' = Depth(v)
    PROVE  Cardinality(Holds)' = Cardinality(Holds)
<1>1. Holds' = Holds
    BY DEF Holds
<1>2. QED
    BY <1>1

\* Whoever is counted makes the count positive; so does the monitor itself.
LEMMA CountPositive ==
    ASSUME MonitorTypeOK, UsersPlaced, CountBalanced
    PROVE  /\ \A u \in Users : Depth(u) > 0 => suspendCount > 0
           /\ Covering => suspendCount > 0
BY HoldsFacts DEF CountBalanced

-----------------------------------------------------------------------------
(* Frames and returns.                                                     *)

\* The monitor thread, and a link that dies, leave the users alone.
LEMMA MonitorFrame ==
    MonitorThread \/ LinkDies => UNCHANGED userVars
BY DEF MonitorThread, LinkDies, userVars, GateOpens, MonTop, MonParks, MonSignals, MonAwakes, MonLeaves, MonIdles,
       MonSleeps, MonGateExits, MonGateSkips, MonLoadsByte, MonStoresByte, MonBegins,
       MonProceeds, MonCovers, MonLocks, MonAccesses, MonUncovers, MonUnlocks,
       MonExits

\* A user moves nobody but itself.
LEMMA UserFrame ==
    ASSUME MonitorTypeOK, NEW u \in Users, Using(u) \/ Calling(u)
    PROVE  \A v \in Users \ {u} : /\ at'[v] = at[v] /\ stack'[v] = stack[v]
                                  /\ sure'[v] = sure[v] /\ Depth(v)' = Depth(v)
<1>1. at \in [Users -> UserPc] /\ stack \in [Users -> Stacks] /\ sure \in [Users -> BOOLEAN]
    BY DEF MonitorTypeOK
<1>2. \A v \in Users \ {u} : at'[v] = at[v] /\ stack'[v] = stack[v] /\ sure'[v] = sure[v]
  <2>1. Using(u) => \A v \in Users \ {u} : at'[v] = at[v] /\ stack'[v] = stack[v] /\ sure'[v] = sure[v]
      BY <1>1 DEF Using, Suspending, Resuming, LockLink, ReadDone, SetExternalDHCSR, FlashGoesOn,
         UnlockLink, TestCount, TestSuspension, Increment, WakeMonitor, PollSuspended,
         CheckSuspended, CheckAgain, GiveUp, WaitSuspended, FixCount, Decrement, Rouse,
         StopStoresByte, StopWakes, StopJoins, Goes, Enter, Return, userVars
  <2>2. Calling(u) => \A v \in Users \ {u} : at'[v] = at[v] /\ stack'[v] = stack[v] /\ sure'[v] = sure[v]
      BY <1>1 DEF Calling, BeginFlash, EndFlash, BeginRead, SignalWakeup, StartMonitor,
         StopLoadsByte, Goes, Enter, userVars
  <2>3. QED
      BY <2>1, <2>2
<1>3. QED
    BY <1>2 DEF Depth

\* A call that returns goes back into its caller's place.
LEMMA ReturnFacts ==
    ASSUME MonitorTypeOK, NEW u \in Users, stack[u] # <<>>, Return(u)
    PROVE  /\ stack' \in [Users -> Stacks]
           /\ at' \in [Users -> UserPc]
           /\ Len(stack'[u]) = Len(stack[u]) - 1
           /\ \/ at'[u] = "unlock" /\ stack'[u] \in {<<>>, <<"flash">>}
              \/ at'[u] = "resume" /\ stack'[u] # <<>>
              \/ at'[u] = "idle" /\ stack'[u] = <<>>
<1>1. at \in [Users -> UserPc] /\ stack \in [Users -> Stacks]
    BY DEF MonitorTypeOK
<1> DEFINE s == stack[u]
<1>2. /\ Tail(s) \in Stacks /\ Len(Tail(s)) = Len(s) - 1 /\ Caller(u) \in Callers
      /\ Caller(u) \in {"read", "flash"} => Tail(s) \in {<<>>, <<"flash">>}
      /\ Caller(u) = "flash" => Tail(s) = <<>>
      /\ Caller(u) = "ext" => Tail(s) # <<>>
    BY <1>1, StackFacts DEF Caller
<1> HIDE DEF s
<1>3. stack' = [stack EXCEPT ![u] = Tail(s)]
    BY DEF Return, s
<1>4. at' = [at EXCEPT ![u] = CASE Caller(u) = "read" -> "unlock"
                                [] Caller(u) = "ext" -> "resume"
                                [] Caller(u) = "flash" -> "idle"]
    BY DEF Return
<1>5. stack' \in [Users -> Stacks] /\ stack'[u] = Tail(s)
    BY <1>1, <1>2, <1>3
<1>6. CASE Caller(u) = "read"
    BY <1>1, <1>2, <1>4, <1>5, <1>6 DEF UserPc, s
<1>7. CASE Caller(u) = "ext"
    BY <1>1, <1>2, <1>4, <1>5, <1>7 DEF UserPc, s
<1>8. CASE Caller(u) = "flash"
    BY <1>1, <1>2, <1>4, <1>5, <1>8 DEF UserPc, s
<1>9. QED
    BY <1>2, <1>6, <1>7, <1>8 DEF Callers

-----------------------------------------------------------------------------
(* Type correctness.                                                       *)

\* The monitor starts well-typed.
LEMMA MonitorTypeInit == MonitorInit => MonitorTypeOK
<1>1. <<>> \in Stacks
    BY DEF Stacks
<1>2. 0 \in Nat
    OBVIOUS
<1>3. QED
    BY <1>1, <1>2, Zenon DEF MonitorInit, MonitorTypeOK, MonPc, Stages, UserPc

\* Every step keeps the types; a suspension that is given up was counted.
LEMMA MonitorTypeStep ==
    ASSUME MonitorTypeOK, UsersPlaced, MonitorPlaced, CountBalanced
    PROVE  [MonitorNext]_monitorVars => MonitorTypeOK'
<1> USE DEF MonitorTypeOK, MonPc, Stages
<1> USE DEF flagVars, byteVars, sessionVars, monVars, userVars
<1>1. MonitorThread => MonitorTypeOK'
  <2>1. MonTop => MonitorTypeOK'
      BY DEF MonTop
  <2>2. MonParks => MonitorTypeOK'
      BY DEF MonParks, MonGoes
  <2>3. MonSignals => MonitorTypeOK'
      BY DEF MonSignals, MonGoes
  <2>4. MonAwakes => MonitorTypeOK'
      BY DEF MonAwakes, MonGoes
  <2>5. MonLeaves => MonitorTypeOK'
      BY DEF MonLeaves
  <2>6. MonIdles => MonitorTypeOK'
      BY DEF MonIdles
  <2>7. MonSleeps => MonitorTypeOK'
      BY DEF MonSleeps, MonGoes
  <2>8. MonGateExits => MonitorTypeOK'
      BY DEF MonGateExits, MonGoes
  <2>9. MonGateSkips => MonitorTypeOK'
      BY DEF MonGateSkips, MonGoes
  <2>10. MonLoadsByte => MonitorTypeOK'
      BY DEF MonLoadsByte
  <2>11. MonStoresByte => MonitorTypeOK'
      BY DEF MonStoresByte, MonGoes
  <2>12. MonBegins => MonitorTypeOK'
      BY DEF MonBegins
  <2>13. MonProceeds => MonitorTypeOK'
      BY DEF MonProceeds
  <2>14. MonCovers => MonitorTypeOK'
      BY DEF MonCovers
  <2>15. MonLocks => MonitorTypeOK'
      BY DEF MonLocks
  <2>16. MonAccesses => MonitorTypeOK'
      BY DEF MonAccesses
  <2>17. MonUncovers => MonitorTypeOK'
      BY DEF MonUncovers
  <2>18. MonUnlocks => MonitorTypeOK'
      BY DEF MonUnlocks, MonGoes
  <2>19. MonExits => MonitorTypeOK'
      BY DEF MonExits, MonGoes
  <2>20. QED
      BY <2>1, <2>2, <2>3, <2>4, <2>5, <2>6, <2>7, <2>8, <2>9, <2>10, <2>11, <2>12,
         <2>13, <2>14, <2>15, <2>16, <2>17, <2>18, <2>19
      DEF MonitorThread
<1>2. LinkDies => MonitorTypeOK'
    BY DEF LinkDies
<1>3. ASSUME NEW u \in Users PROVE Using(u) => MonitorTypeOK'
  <2> USE DEF UserPc
  <2>0. stack[u] \in Stacks /\ u \in Users \cup {Monitor, Free} /\ Free \in Users \cup {Monitor, Free}
      OBVIOUS
  <2>1. LockLink(u) => MonitorTypeOK'
    <3> SUFFICES ASSUME LockLink(u) PROVE MonitorTypeOK'
        OBVIOUS
    <3>1. <<"read">> \o stack[u] \in Stacks
        BY EnterFacts DEF LockLink, Goes, UsersPlaced, Placed
    <3>2. stack' \in [Users -> Stacks]
        BY <3>1 DEF LockLink, Enter
    <3>3. at' \in [Users -> UserPc]
        BY DEF LockLink, Goes
    <3>4. lock' \in Users \cup {Monitor, Free}
        BY <2>0 DEF LockLink
    <3>5. QED
        BY <3>2, <3>3, <3>4 DEF LockLink
  <2>2. ReadDone(u) => MonitorTypeOK'
    <3> SUFFICES ASSUME ReadDone(u) PROVE MonitorTypeOK'
        OBVIOUS
    <3>1. <<"ext">> \o stack[u] \in Stacks
        BY <2>0, EnterFacts DEF ReadDone, Goes, UsersPlaced, Placed, Caller
    <3>2. stack' \in [Users -> Stacks]
        BY <3>1 DEF ReadDone, Enter
    <3>3. QED
        BY <3>2 DEF ReadDone, Goes
  <2>3. SetExternalDHCSR(u) => MonitorTypeOK'
      BY DEF SetExternalDHCSR, Goes
  <2>4. FlashGoesOn(u) => MonitorTypeOK'
      BY DEF FlashGoesOn, Goes
  <2>5. UnlockLink(u) => MonitorTypeOK'
      BY <2>0 DEF UnlockLink, Goes
  <2>6. TestCount(u) => MonitorTypeOK'
      BY DEF TestCount
  <2>7. TestSuspension(u) => MonitorTypeOK'
      BY DEF TestSuspension
  <2>8. Increment(u) => MonitorTypeOK'
      BY DEF Increment, Goes
  <2>9. WakeMonitor(u) => MonitorTypeOK'
      BY DEF WakeMonitor, Goes
  <2>10. PollSuspended(u) => MonitorTypeOK'
      BY DEF PollSuspended
  <2>11. CheckSuspended(u) => MonitorTypeOK'
      BY DEF CheckSuspended, Goes
  <2>12. CheckAgain(u) => MonitorTypeOK'
      BY DEF CheckAgain, Goes
  <2>13. GiveUp(u) => MonitorTypeOK'
    <3> SUFFICES ASSUME GiveUp(u) PROVE MonitorTypeOK'
        OBVIOUS
    <3>1. stack[u] # <<>>
        BY DEF GiveUp, UsersPlaced, Placed
    <3>2. stack' \in [Users -> Stacks] /\ at' \in [Users -> UserPc]
        BY <3>1, ReturnFacts DEF GiveUp
    <3>3. Len(stack[u]) > 0
        BY <2>0, <3>1, StackFacts
    <3>4. Depth(u) > 0
        BY <2>0, <3>3, StackFacts DEF GiveUp, Depth, Uncounted
    <3>5. suspendCount' \in Nat
        BY <3>4, CountPositive DEF GiveUp
    <3>6. QED
        BY <3>2, <3>5 DEF GiveUp
  <2>14. WaitSuspended(u) => MonitorTypeOK'
      BY DEF WaitSuspended, Goes
  <2>15. FixCount(u) => MonitorTypeOK'
      BY DEF FixCount, Goes
  <2>16. Decrement(u) => MonitorTypeOK'
    <3> SUFFICES ASSUME Decrement(u) PROVE MonitorTypeOK'
        OBVIOUS
    <3>1. stack[u] # <<>>
        BY DEF Decrement, UsersPlaced, Placed
    <3>2. stack' \in [Users -> Stacks] /\ at' \in [Users -> UserPc]
        BY <3>1, ReturnFacts DEF Decrement
    <3>3. suspendCount' \in Nat
        BY DEF Decrement
    <3>4. sure' \in [Users -> BOOLEAN]
        BY DEF Decrement
    <3>5. QED
        BY <3>2, <3>3, <3>4 DEF Decrement
  <2>17. Rouse(u) => MonitorTypeOK'
    <3> SUFFICES ASSUME Rouse(u) PROVE MonitorTypeOK'
        OBVIOUS
    <3>1. stack[u] # <<>>
        BY DEF Rouse, UsersPlaced, Placed
    <3>2. stack' \in [Users -> Stacks] /\ at' \in [Users -> UserPc]
        BY <3>1, ReturnFacts DEF Rouse
    <3>3. wakeup' \in BOOLEAN
        BY DEF Rouse
    <3>4. QED
        BY <3>2, <3>3 DEF Rouse
  <2>18. StopStoresByte(u) => MonitorTypeOK'
      BY DEF StopStoresByte, Goes
  <2>19. StopWakes(u) => MonitorTypeOK'
      BY DEF StopWakes, Goes
  <2>20. StopJoins(u) => MonitorTypeOK'
      BY DEF StopJoins, Goes
  <2>21. QED
      BY <2>1, <2>2, <2>3, <2>4, <2>5, <2>6, <2>7, <2>8, <2>9, <2>10, <2>11, <2>12,
         <2>13, <2>14, <2>15, <2>16, <2>17, <2>18, <2>19, <2>20
      DEF Using, Suspending, Resuming
<1>4. ASSUME NEW u \in Users PROVE Calling(u) => MonitorTypeOK'
  <2> USE DEF UserPc
  <2>1. BeginFlash(u) => MonitorTypeOK'
    <3> SUFFICES ASSUME BeginFlash(u) PROVE MonitorTypeOK'
        OBVIOUS
    <3>1. <<"flash">> \o stack[u] \in Stacks
        BY EnterFacts DEF BeginFlash
    <3>2. stack' \in [Users -> Stacks]
        BY <3>1 DEF BeginFlash, Enter
    <3>3. at' \in [Users -> UserPc]
        BY DEF BeginFlash, Goes
    <3>4. QED
        BY <3>2, <3>3 DEF BeginFlash
  <2>2. EndFlash(u) => MonitorTypeOK'
      BY DEF EndFlash, Goes
  <2>3. BeginRead(u) => MonitorTypeOK'
      BY DEF BeginRead, Goes
  <2>4. SignalWakeup(u) => MonitorTypeOK'
      BY DEF SignalWakeup
  <2>5. StartMonitor(u) => MonitorTypeOK'
    <3>1. 0 \in Nat
        OBVIOUS
    <3>2. QED
        BY <3>1, Zenon DEF StartMonitor
  <2>6. StopLoadsByte(u) => MonitorTypeOK'
      BY DEF StopLoadsByte, Goes
  <2>7. QED
      BY <2>1, <2>2, <2>3, <2>4, <2>5, <2>6
      DEF Calling
<1>5. UNCHANGED monitorVars => MonitorTypeOK'
    BY DEF monitorVars
<1>6. QED
    BY <1>1, <1>2, <1>3, <1>4, <1>5 DEF MonitorNext

-----------------------------------------------------------------------------
(* What surrounds a user.                                                  *)

\* Every step of a user leaves it in a place that fits what it is inside of.
LEMMA PlacedStep ==
    ASSUME MonitorTypeOK, UsersPlaced, NEW u \in Users, Using(u) \/ Calling(u)
    PROVE  Placed(at'[u], stack'[u])
<1>1. at \in [Users -> UserPc] /\ stack \in [Users -> Stacks] /\ stack[u] \in Stacks
    BY DEF MonitorTypeOK
<1>2. Placed(at[u], stack[u])
    BY DEF UsersPlaced
<1>3. CASE LockLink(u)
  <2>1. <<"read">> \o stack[u] # <<>>
    <3>1. stack[u] \in {<<>>, <<"flash">>}
        BY <1>2, <1>3 DEF LockLink, Goes, Placed
    <3>2. QED
        BY <3>1, Pushed
  <2>2. stack'[u] # <<>> /\ at'[u] = "enter"
      BY <1>1, <1>3, <2>1 DEF LockLink, Goes, Enter
  <2>3. QED
      BY <2>2 DEF Placed
<1>4. CASE ReadDone(u)
  <2>1. stack[u] # <<>> /\ <<"ext">> \o stack[u] # <<>>
    <3>1. stack[u] # <<>> /\ Head(stack[u]) = "read"
        BY <1>2, <1>4 DEF ReadDone, Caller, Placed
    <3>2. <<"ext">> \o stack[u] \in Stacks /\ Len(<<"ext">> \o stack[u]) = Len(stack[u]) + 1
        BY <1>1, <3>1, EnterFacts
    <3>3. Len(stack[u]) \in Nat
        BY <1>1, StackFacts
    <3>4. Len(<<"ext">> \o stack[u]) # 0
        BY <3>2, <3>3
    <3>5. QED
        BY <3>1, <3>2, <3>4, StackFacts
  <2>2. stack'[u] # <<>>
      BY <1>1, <1>4, <2>1 DEF ReadDone, Enter
  <2>3. at'[u] \in {"enter", "resume"}
      BY <1>1, <1>4 DEF ReadDone, Goes
  <2>4. QED
      BY <2>2, <2>3 DEF Placed
<1>5. CASE SetExternalDHCSR(u)
    BY <1>1, <1>2, <1>5 DEF SetExternalDHCSR, Goes, Placed
<1>6. CASE FlashGoesOn(u)
  <2>1. stack[u] = <<"flash">>
      BY <1>1, <1>2, <1>6 DEF FlashGoesOn, Goes, Caller, Stacks, Placed
  <2>2. QED
      BY <1>1, <1>6, <2>1 DEF FlashGoesOn, Goes, Placed
<1>7. CASE UnlockLink(u)
    BY <1>1, <1>2, <1>7 DEF UnlockLink, Goes, Placed
<1>8. CASE TestCount(u)
    BY <1>1, <1>2, <1>8 DEF TestCount, Placed
<1>9. CASE TestSuspension(u)
    BY <1>1, <1>2, <1>9 DEF TestSuspension, Placed
<1>10. CASE Increment(u)
    BY <1>1, <1>2, <1>10 DEF Increment, Goes, Placed
<1>11. CASE WakeMonitor(u)
    BY <1>1, <1>2, <1>11 DEF WakeMonitor, Goes, Placed
<1>12. CASE PollSuspended(u)
    BY <1>1, <1>2, <1>12 DEF PollSuspended, Placed
<1>13. CASE CheckSuspended(u)
    BY <1>1, <1>2, <1>13 DEF CheckSuspended, Goes, Placed
<1>14. CASE CheckAgain(u)
    BY <1>1, <1>2, <1>14 DEF CheckAgain, Goes, Placed
<1>15. CASE GiveUp(u)
  <2>1. stack[u] # <<>>
      BY <1>2, <1>15 DEF GiveUp, Placed
  <2>2. QED
      BY <1>15, <2>1, ReturnFacts DEF GiveUp, Placed
<1>16. CASE WaitSuspended(u)
    BY <1>1, <1>2, <1>16 DEF WaitSuspended, Goes, Placed
<1>17. CASE FixCount(u)
    BY <1>1, <1>2, <1>17 DEF FixCount, Goes, Placed
<1>18. CASE Decrement(u)
  <2>1. stack[u] # <<>>
      BY <1>2, <1>18 DEF Decrement, Placed
  <2>2. CASE suspendCount = 0
      BY <1>18, <2>1, <2>2, ReturnFacts DEF Decrement, Placed
  <2>3. CASE suspendCount # 0
      BY <1>1, <1>18, <2>1, <2>3 DEF Decrement, Placed
  <2>4. QED
      BY <2>2, <2>3
<1>19. CASE Rouse(u)
  <2>1. stack[u] # <<>>
      BY <1>2, <1>19 DEF Rouse, Placed
  <2>2. QED
      BY <1>19, <2>1, ReturnFacts DEF Rouse, Placed
<1>20. CASE StopStoresByte(u)
    BY <1>1, <1>2, <1>20 DEF StopStoresByte, Goes, Placed
<1>21. CASE StopWakes(u)
    BY <1>1, <1>2, <1>21 DEF StopWakes, Goes, Placed
<1>22. CASE StopJoins(u)
    BY <1>1, <1>2, <1>22 DEF StopJoins, Goes, Placed
<1>23. CASE BeginFlash(u)
  <2>1. <<"flash">> \o stack[u] # <<>>
    <3>1. stack[u] = <<>>
        BY <1>23 DEF BeginFlash
    <3>2. QED
        BY <3>1, Pushed
  <2>2. stack'[u] # <<>> /\ at'[u] = "enter"
      BY <1>1, <1>23, <2>1 DEF BeginFlash, Goes, Enter
  <2>3. QED
      BY <2>2 DEF Placed
<1>24. CASE EndFlash(u)
  <2>1. <<"flash">> # <<>>
      OBVIOUS
  <2>2. at'[u] = "resume" /\ stack'[u] = <<"flash">>
      BY <1>1, <1>24 DEF EndFlash, Goes
  <2>3. QED
      BY <2>1, <2>2 DEF Placed
<1>25. CASE BeginRead(u)
    BY <1>1, <1>2, <1>25 DEF BeginRead, Goes, Placed
<1>26. CASE SignalWakeup(u)
    BY <1>1, <1>2, <1>26 DEF SignalWakeup, Placed, userVars
<1>27. CASE StartMonitor(u)
    BY <1>1, <1>2, <1>27 DEF StartMonitor, Placed, Quiet
<1>28. CASE StopLoadsByte(u)
    BY <1>1, <1>2, <1>28 DEF StopLoadsByte, Goes, Placed, Quiet
<1>29. QED
    BY <1>3, <1>4, <1>5, <1>6, <1>7, <1>8, <1>9, <1>10, <1>11, <1>12, <1>13, <1>14,
       <1>15, <1>16, <1>17, <1>18, <1>19, <1>20, <1>21, <1>22, <1>23, <1>24, <1>25,
       <1>26, <1>27, <1>28
    DEF Using, Suspending, Resuming, Calling

\* Every step keeps the users placed.
LEMMA UsersPlacedStep ==
    ASSUME MonitorTypeOK, UsersPlaced
    PROVE  [MonitorNext]_monitorVars => UsersPlaced'
<1>1. MonitorThread \/ LinkDies => UsersPlaced'
    BY MonitorFrame DEF UsersPlaced, userVars
<1>2. ASSUME NEW u \in Users, Using(u) \/ Calling(u) PROVE UsersPlaced'
    BY <1>2, PlacedStep, UserFrame DEF UsersPlaced
<1>3. UNCHANGED monitorVars => UsersPlaced'
    BY DEF UsersPlaced, monitorVars, userVars
<1>4. QED
    BY <1>1, <1>2, <1>3 DEF MonitorNext

-----------------------------------------------------------------------------
(* What surrounds the monitor.                                             *)

\* A user at work, which a start of a session is not, leaves the monitor and
\* inSuspension alone; handle falls only when the thread is gone.
LEMMA SessionFrame ==
    ASSUME NEW u \in Users, Using(u) \/ Calling(u)
    PROVE  \/ StartMonitor(u)
           \/ /\ UNCHANGED <<monVars, inSuspension, playDead>>
              /\ handle' = handle \/ mon = "none"
BY DEF Using, Suspending, Resuming, Calling, Goes, flagVars, sessionVars, userVars,
   LockLink, ReadDone, SetExternalDHCSR, FlashGoesOn, UnlockLink, TestCount,
   TestSuspension, Increment, WakeMonitor, PollSuspended, CheckSuspended, CheckAgain,
   GiveUp, WaitSuspended, FixCount, Decrement, Rouse, StopStoresByte, StopWakes,
   StopJoins, BeginFlash, EndFlash, BeginRead, SignalWakeup, StopLoadsByte

\* Every step keeps the monitor placed.
LEMMA MonitorPlacedStep ==
    ASSUME MonitorTypeOK, MonitorPlaced
    PROVE  [MonitorNext]_monitorVars => MonitorPlaced'
<1> USE DEF MonitorPlaced, flagVars, sessionVars
<1>1. MonitorThread => MonitorPlaced'
  <2>1. MonTop => MonitorPlaced'
      BY DEF MonTop
  <2>2. MonParks => MonitorPlaced'
      BY DEF MonParks, MonGoes
  <2>3. MonSignals => MonitorPlaced'
      BY DEF MonSignals, MonGoes
  <2>4. MonAwakes => MonitorPlaced'
      BY DEF MonAwakes, MonGoes
  <2>5. MonLeaves => MonitorPlaced'
      BY DEF MonLeaves
  <2>6. MonIdles => MonitorPlaced'
      BY DEF MonIdles
  <2>7. MonSleeps => MonitorPlaced'
      BY DEF MonSleeps, MonGoes
  <2>8. MonGateExits => MonitorPlaced'
      BY DEF MonGateExits, MonGoes
  <2>9. MonGateSkips => MonitorPlaced'
      BY DEF MonGateSkips, MonGoes
  <2>10. MonLoadsByte => MonitorPlaced'
      BY DEF MonLoadsByte, GateOpens
  <2>11. MonStoresByte => MonitorPlaced'
      BY DEF MonStoresByte, MonGoes
  <2>12. MonBegins => MonitorPlaced'
      BY DEF MonBegins, GateOpens
  <2>13. MonProceeds => MonitorPlaced'
      BY DEF MonProceeds, GateOpens
  <2>14. MonCovers => MonitorPlaced'
      BY DEF MonCovers
  <2>15. MonLocks => MonitorPlaced'
      BY DEF MonLocks
  <2>16. MonAccesses => MonitorPlaced'
      BY DEF MonAccesses
  <2>17. MonUncovers => MonitorPlaced'
      BY DEF MonUncovers
  <2>18. MonUnlocks => MonitorPlaced'
      BY DEF MonUnlocks, MonGoes
  <2>19. MonExits => MonitorPlaced'
      BY DEF MonExits, MonGoes
  <2>20. QED
      BY <2>1, <2>2, <2>3, <2>4, <2>5, <2>6, <2>7, <2>8, <2>9, <2>10, <2>11, <2>12,
         <2>13, <2>14, <2>15, <2>16, <2>17, <2>18, <2>19
      DEF MonitorThread
<1>2. LinkDies => MonitorPlaced'
    BY DEF LinkDies, monVars
<1>3. ASSUME NEW u \in Users, Using(u) \/ Calling(u) PROVE MonitorPlaced'
  <2>1. CASE StartMonitor(u)
      BY <2>1 DEF StartMonitor
  <2>2. CASE UNCHANGED <<monVars, inSuspension, playDead>> /\ (handle' = handle \/ mon = "none")
      BY <2>2 DEF monVars
  <2>3. QED
      BY <1>3, <2>1, <2>2, SessionFrame
<1>4. UNCHANGED monitorVars => MonitorPlaced'
    BY DEF monitorVars, monVars
<1>5. QED
    BY <1>1, <1>2, <1>3, <1>4 DEF MonitorNext

-----------------------------------------------------------------------------
(* The count.                                                              *)

\* Steps of a user that neither enter nor leave the count.
Even(u) ==
    \/ LockLink(u) \/ ReadDone(u) \/ SetExternalDHCSR(u) \/ FlashGoesOn(u) \/ UnlockLink(u)
    \/ TestCount(u) \/ TestSuspension(u) \/ WakeMonitor(u) \/ PollSuspended(u)
    \/ CheckSuspended(u) \/ CheckAgain(u) \/ WaitSuspended(u) \/ Rouse(u)
    \/ StopStoresByte(u) \/ StopWakes(u) \/ StopJoins(u)
    \/ BeginFlash(u) \/ EndFlash(u) \/ BeginRead(u) \/ SignalWakeup(u) \/ StopLoadsByte(u)

\* They leave the user as deep in suspensions as it was.
LEMMA EvenStep ==
    ASSUME MonitorTypeOK, UsersPlaced, NEW u \in Users, Even(u)
    PROVE  Depth(u)' = Depth(u) /\ suspendCount' = suspendCount
<1>1. at \in [Users -> UserPc] /\ stack \in [Users -> Stacks] /\ stack[u] \in Stacks
    BY DEF MonitorTypeOK
<1>2. Len(stack[u]) \in 0 .. 3
    BY <1>1, StackFacts
<1> DEFINE n == Len(stack[u])
           m == Len(stack'[u])
<1>3. /\ Depth(u) = IF at[u] \in Uncounted THEN n - 1 ELSE n
      /\ Depth(u)' = IF at'[u] \in Uncounted THEN m - 1 ELSE m
    BY <1>1, <1>2 DEF Depth
<1>4. CASE LockLink(u)
  <2>1. stack[u] \in {<<>>, <<"flash">>}
      BY <1>4 DEF LockLink, Goes, UsersPlaced, Placed
  <2>2. Len(<<"read">> \o stack[u]) = n + 1
      BY <2>1, EnterFacts
  <2>3. m = n + 1
      BY <1>1, <1>4, <2>2 DEF LockLink, Enter
  <2>4. at[u] \notin Uncounted /\ at'[u] \in Uncounted /\ suspendCount' = suspendCount
      BY <1>1, <1>4 DEF LockLink, Goes, Uncounted, flagVars
  <2>5. QED
      BY <1>2, <1>3, <2>3, <2>4
<1>5. CASE ReadDone(u)
  <2>1. stack[u] # <<>> /\ Head(stack[u]) = "read"
      BY <1>5 DEF ReadDone, Caller, UsersPlaced, Placed
  <2>2. Len(<<"ext">> \o stack[u]) = n + 1
      BY <1>1, <2>1, EnterFacts
  <2>3. CASE Goes(u, "held", "enter") /\ Enter(u, "ext")
    <3>1. m = n + 1
        BY <1>1, <2>2, <2>3 DEF Enter
    <3>2. at[u] \notin Uncounted /\ at'[u] \in Uncounted /\ suspendCount' = suspendCount
        BY <1>1, <1>5, <2>3 DEF ReadDone, Goes, Uncounted, flagVars
    <3>3. QED
        BY <1>2, <1>3, <3>1, <3>2
  <2>4. CASE Goes(u, "held", "resume") /\ UNCHANGED stack
    <3>1. at[u] \notin Uncounted /\ at'[u] \notin Uncounted /\ suspendCount' = suspendCount
        BY <1>1, <1>5, <2>4 DEF ReadDone, Goes, Uncounted, flagVars
    <3>2. QED
        BY <1>2, <1>3, <2>4, <3>1
  <2>5. QED
      BY <1>5, <2>3, <2>4 DEF ReadDone
<1>6. CASE BeginFlash(u)
  <2>1. stack[u] = <<>> /\ n = 0
      BY <1>1, <1>6, StackFacts DEF BeginFlash
  <2>2. m = n + 1
      BY <1>1, <1>6, <2>1, EnterFacts DEF BeginFlash, Enter
  <2>3. at[u] \notin Uncounted /\ at'[u] \in Uncounted /\ suspendCount' = suspendCount
      BY <1>1, <1>6 DEF BeginFlash, Goes, Uncounted, flagVars
  <2>4. QED
      BY <1>2, <1>3, <2>2, <2>3
<1>7. CASE Rouse(u)
  <2>1. stack[u] # <<>>
      BY <1>7 DEF Rouse, UsersPlaced, Placed
  <2>2. m = n - 1 /\ at'[u] \in {"unlock", "resume", "idle"}
      BY <1>7, <2>1, ReturnFacts DEF Rouse
  <2>3. at[u] \in Uncounted /\ at'[u] \notin Uncounted /\ suspendCount' = suspendCount
      BY <1>7, <2>2 DEF Rouse, Uncounted
  <2>4. QED
      BY <1>2, <1>3, <2>2, <2>3
<1>8. ASSUME at'[u] \in Uncounted <=> at[u] \in Uncounted, UNCHANGED <<stack, suspendCount>>
      PROVE  Depth(u)' = Depth(u) /\ suspendCount' = suspendCount
    BY <1>2, <1>3, <1>8
<1>9. CASE SetExternalDHCSR(u)
    BY <1>1, <1>8, <1>9 DEF SetExternalDHCSR, Goes, Uncounted, flagVars
<1>10. CASE FlashGoesOn(u)
    BY <1>1, <1>8, <1>10 DEF FlashGoesOn, Goes, Uncounted, flagVars
<1>11. CASE UnlockLink(u)
    BY <1>1, <1>8, <1>11 DEF UnlockLink, Goes, Uncounted, flagVars
<1>12. CASE TestCount(u)
    BY <1>1, <1>8, <1>12 DEF TestCount, Uncounted, flagVars
<1>13. CASE TestSuspension(u)
    BY <1>1, <1>8, <1>13 DEF TestSuspension, Uncounted, flagVars
<1>14. CASE WakeMonitor(u)
    BY <1>1, <1>8, <1>14 DEF WakeMonitor, Goes, Uncounted, flagVars
<1>15. CASE PollSuspended(u)
    BY <1>1, <1>8, <1>15 DEF PollSuspended, Uncounted, flagVars
<1>16. CASE CheckSuspended(u)
    BY <1>1, <1>8, <1>16 DEF CheckSuspended, Goes, Uncounted, flagVars
<1>17. CASE CheckAgain(u)
    BY <1>1, <1>8, <1>17 DEF CheckAgain, Goes, Uncounted, flagVars
<1>18. CASE WaitSuspended(u)
    BY <1>1, <1>8, <1>18 DEF WaitSuspended, Goes, Uncounted, flagVars
<1>19. CASE StopStoresByte(u)
    BY <1>1, <1>8, <1>19 DEF StopStoresByte, Goes, Uncounted, flagVars
<1>20. CASE StopWakes(u)
    BY <1>1, <1>8, <1>20 DEF StopWakes, Goes, Uncounted, flagVars
<1>21. CASE StopJoins(u)
    BY <1>1, <1>8, <1>21 DEF StopJoins, Goes, Uncounted, flagVars
<1>22. CASE EndFlash(u)
    BY <1>1, <1>8, <1>22 DEF EndFlash, Goes, Uncounted, flagVars
<1>23. CASE BeginRead(u)
    BY <1>1, <1>8, <1>23 DEF BeginRead, Goes, Uncounted, flagVars
<1>24. CASE SignalWakeup(u)
    BY <1>1, <1>8, <1>24 DEF SignalWakeup, Uncounted, flagVars, userVars
<1>25. CASE StopLoadsByte(u)
    BY <1>1, <1>8, <1>25 DEF StopLoadsByte, Goes, Uncounted, flagVars
<1>26. QED
    BY <1>4, <1>5, <1>6, <1>7, <1>9, <1>10, <1>11, <1>12, <1>13, <1>14, <1>15, <1>16,
       <1>17, <1>18, <1>19, <1>20, <1>21, <1>22, <1>23, <1>24, <1>25
    DEF Even

\* A suspension is counted once, and one that is resumed or given up is taken
\* back once: the tests for a count of zero never find one.
LEMMA UnevenStep ==
    ASSUME MonitorTypeOK, UsersPlaced, CountBalanced, NEW u \in Users
    PROVE  /\ Increment(u) => /\ Depth(u) < 3
                              /\ Depth(u)' = Depth(u) + 1
                              /\ suspendCount' = suspendCount + 1
           /\ GiveUp(u) \/ Decrement(u) => /\ Depth(u) > 0
                                           /\ Depth(u)' = Depth(u) - 1
                                           /\ suspendCount' = suspendCount - 1
           /\ FixCount(u) => Depth(u)' = Depth(u) /\ suspendCount' = suspendCount
<1>1. at \in [Users -> UserPc] /\ stack \in [Users -> Stacks] /\ stack[u] \in Stacks
    BY DEF MonitorTypeOK
<1>2. Len(stack[u]) \in 0 .. 3 /\ (stack[u] # <<>> => Len(stack[u]) > 0)
    BY <1>1, StackFacts
<1> DEFINE n == Len(stack[u])
           m == Len(stack'[u])
<1>3. /\ Depth(u) = IF at[u] \in Uncounted THEN n - 1 ELSE n
      /\ Depth(u)' = IF at'[u] \in Uncounted THEN m - 1 ELSE m
    BY <1>1, <1>2 DEF Depth
<1>4. CASE Increment(u)
  <2>1. stack' = stack /\ suspendCount' = suspendCount + 1
      BY <1>4 DEF Increment
  <2>2. at[u] \in Uncounted /\ at'[u] \notin Uncounted
      BY <1>1, <1>4 DEF Increment, Goes, Uncounted
  <2>3. Depth(u) < 3 /\ Depth(u)' = Depth(u) + 1
    <3>1. m = n /\ n \in 0 .. 3
        BY <1>2, <2>1
    <3>2. Depth(u) = n - 1
        BY <1>3, <2>2
    <3>3. Depth(u)' = m
        BY <1>3, <2>2
    <3> HIDE DEF n, m
    <3>4. QED
        BY <3>1, <3>2, <3>3
  <2>4. at[u] \in {"first", "second", "third"}
      BY <1>4 DEF Increment, Goes
  <2>5. ~GiveUp(u) /\ ~Decrement(u) /\ ~FixCount(u)
      BY <2>4 DEF GiveUp, Decrement, FixCount, Goes
  <2>6. QED
      BY <2>1, <2>3, <2>5
<1>5. CASE GiveUp(u)
  <2>1. n > 0
      BY <1>2, <1>5 DEF GiveUp, UsersPlaced, Placed
  <2>2. m = n - 1 /\ at'[u] \in {"unlock", "resume", "idle"}
      BY <1>2, <1>5, <2>1, ReturnFacts, StackFacts DEF GiveUp, UsersPlaced, Placed
  <2>3. at[u] = "undo" /\ suspendCount' = suspendCount - 1
      BY <1>5 DEF GiveUp
  <2>4. at[u] \notin Uncounted /\ at'[u] \notin Uncounted
      BY <2>2, <2>3 DEF Uncounted
  <2>5. QED
      BY <1>2, <1>3, <2>1, <2>2, <2>3, <2>4 DEF Increment, FixCount, Goes
<1>6. CASE Decrement(u)
  <2>1. n > 0 /\ at[u] = "resume" /\ at[u] \notin Uncounted
      BY <1>2, <1>6 DEF Decrement, UsersPlaced, Placed, Uncounted
  <2>2. suspendCount > 0
      BY <1>3, <2>1, CountPositive
  <2>3. stack' = stack /\ at'[u] = "rouse" /\ suspendCount' = suspendCount - 1
      BY <1>1, <1>6, <2>2 DEF Decrement
  <2>4. at'[u] \in Uncounted
      BY <2>3 DEF Uncounted
  <2>5. QED
      BY <1>2, <1>3, <2>1, <2>3, <2>4 DEF Increment, FixCount, Goes
<1>7. CASE FixCount(u)
  <2>1. n > 0 /\ at[u] = "fix" /\ at[u] \notin Uncounted
      BY <1>2, <1>7 DEF FixCount, Goes, UsersPlaced, Placed, Uncounted
  <2>2. suspendCount > 0
      BY <1>3, <2>1, CountPositive
  <2>3. stack' = stack /\ at'[u] = "held" /\ suspendCount' = suspendCount
      BY <1>1, <1>7, <2>2 DEF FixCount, Goes
  <2>4. at'[u] \notin Uncounted
      BY <2>3 DEF Uncounted
  <2>5. QED
      BY <1>2, <1>3, <2>1, <2>3, <2>4 DEF Increment, GiveUp, Decrement, Goes
<1>8. QED
    BY <1>4, <1>5, <1>6, <1>7

\* Every step of a user but the start of a session is one of these.
LEMMA UserSteps ==
    ASSUME NEW u \in Users
    PROVE  Using(u) \/ Calling(u) <=>
               Even(u) \/ Increment(u) \/ GiveUp(u) \/ Decrement(u) \/ FixCount(u) \/ StartMonitor(u)
BY DEF Using, Calling, Suspending, Resuming, Even

\* At the start of a session nobody is in a suspension.
LEMMA QuietDepth ==
    ASSUME MonitorTypeOK, UsersPlaced, Quiet
    PROVE  (\A u \in Users : Depth(u) = 0) /\ Cardinality(Holds) = 0
<1>1. \A u \in Users : Depth(u) = 0
    BY DepthFacts DEF Quiet
<1>2. QED
    BY <1>1, HoldsFacts
-----------------------------------------------------------------------------
(* The count is balanced.                                                  *)

\* The monitor counts its own suspension when it begins and ends it.
LEMMA CoveringStep ==
    ASSUME MonitorTypeOK, UsersPlaced, MonitorPlaced, CountBalanced, MonitorThread
    PROVE  suspendCount' - (IF Covering' THEN 1 ELSE 0) = suspendCount - (IF Covering THEN 1 ELSE 0)
<1>1. suspendCount \in Nat /\ (Covering => suspendCount > 0)
    BY CountPositive DEF MonitorTypeOK
<1>2. CASE MonTop
  <2>1. Covering' = Covering
      BY <1>2 DEF MonTop, Covering
  <2>2. QED
      BY <1>1, <1>2, <2>1 DEF MonTop, flagVars
<1>3. CASE MonParks
  <2>1. Covering' = Covering
      BY <1>3 DEF MonParks, MonGoes, Covering
  <2>2. QED
      BY <1>1, <1>3, <2>1 DEF MonParks, flagVars
<1>4. CASE MonSignals
  <2>1. Covering' = Covering
      BY <1>4 DEF MonSignals, MonGoes, Covering
  <2>2. QED
      BY <1>1, <1>4, <2>1 DEF MonSignals, flagVars
<1>5. CASE MonAwakes
  <2>1. Covering' = Covering
      BY <1>5 DEF MonAwakes, MonGoes, Covering
  <2>2. QED
      BY <1>1, <1>5, <2>1 DEF MonAwakes, flagVars
<1>6. CASE MonLeaves
  <2>1. Covering' = Covering
      BY <1>6 DEF MonLeaves, Covering
  <2>2. QED
      BY <1>1, <1>6, <2>1 DEF MonLeaves, flagVars
<1>7. CASE MonIdles
  <2>1. Covering' = Covering
      BY <1>7 DEF MonIdles, Covering
  <2>2. QED
      BY <1>1, <1>7, <2>1 DEF MonIdles, flagVars
<1>8. CASE MonSleeps
  <2>1. Covering' = Covering
      BY <1>8 DEF MonSleeps, MonGoes, Covering
  <2>2. QED
      BY <1>1, <1>8, <2>1 DEF MonSleeps, flagVars
<1>9. CASE MonGateExits
  <2>1. Covering' = Covering
      BY <1>9 DEF MonGateExits, MonGoes, Covering
  <2>2. QED
      BY <1>1, <1>9, <2>1 DEF MonGateExits, flagVars
<1>10. CASE MonGateSkips
  <2>1. Covering' = Covering
      BY <1>10 DEF MonGateSkips, MonGoes, Covering
  <2>2. QED
      BY <1>1, <1>10, <2>1 DEF MonGateSkips, flagVars
<1>11. CASE MonLoadsByte
  <2>1. Covering' = Covering
      BY <1>11 DEF MonLoadsByte, GateOpens, Covering
  <2>2. QED
      BY <1>1, <1>11, <2>1 DEF MonLoadsByte, flagVars
<1>12. CASE MonStoresByte
  <2>1. Covering' = Covering
      BY <1>12 DEF MonStoresByte, MonGoes, Covering
  <2>2. QED
      BY <1>1, <1>12, <2>1 DEF MonStoresByte, flagVars
<1>13. CASE MonBegins
  <2>1. Covering' = Covering
      BY <1>13 DEF MonBegins, GateOpens, Covering
  <2>2. QED
      BY <1>1, <1>13, <2>1 DEF MonBegins, flagVars
<1>14. CASE MonProceeds
  <2>1. Covering' = Covering
      BY <1>14 DEF MonProceeds, GateOpens, Covering
  <2>2. QED
      BY <1>1, <1>14, <2>1 DEF MonProceeds, flagVars
<1>15. CASE MonCovers
  <2>1. ~Covering /\ suspendCount' = suspendCount + 1
      BY <1>15 DEF MonCovers, Covering
  <2>2. stage \in {"recover", "read", "notify", "update"} /\ stage' = stage
      BY <1>15 DEF MonCovers, MonitorPlaced
  <2>3. Covering'
      BY <1>15, <2>2 DEF MonCovers, Covering
  <2>4. QED
      BY <1>1, <2>1, <2>3
<1>16. CASE MonLocks
  <2>1. Covering' = Covering
      BY <1>16 DEF MonLocks, Covering
  <2>2. QED
      BY <1>1, <1>16, <2>1 DEF MonLocks, flagVars
<1>17. CASE MonAccesses
  <2>1. Covering' = Covering
      BY <1>17 DEF MonAccesses, Covering, MonitorPlaced
  <2>2. QED
      BY <1>1, <1>17, <2>1 DEF MonAccesses, flagVars
<1>18. CASE MonUncovers
  <2>1. Covering /\ suspendCount' = suspendCount - 1
      BY <1>1, <1>18 DEF MonUncovers, Covering
  <2>2. ~Covering'
      BY <1>18 DEF MonUncovers, Covering
  <2>3. QED
      BY <1>1, <2>1, <2>2
<1>19. CASE MonUnlocks
  <2>1. Covering' = Covering
      BY <1>19 DEF MonUnlocks, MonGoes, Covering
  <2>2. QED
      BY <1>1, <1>19, <2>1 DEF MonUnlocks, flagVars
<1>20. CASE MonExits
  <2>1. Covering' = Covering
      BY <1>20 DEF MonExits, MonGoes, Covering
  <2>2. QED
      BY <1>1, <1>20, <2>1 DEF MonExits, flagVars
<1>21. QED
    BY <1>2, <1>3, <1>4, <1>5, <1>6, <1>7, <1>8, <1>9, <1>10, <1>11, <1>12, <1>13,
       <1>14, <1>15, <1>16, <1>17, <1>18, <1>19, <1>20
    DEF MonitorThread

\* Every step keeps the count balanced.
LEMMA CountBalancedStep ==
    ASSUME MonitorTypeOK, UsersPlaced, MonitorPlaced, CountBalanced
    PROVE  [MonitorNext]_monitorVars => CountBalanced'
<1>1. /\ suspendCount \in Nat /\ Cardinality(Holds) \in Nat
      /\ suspendCount = Cardinality(Holds) + (IF Covering THEN 1 ELSE 0)
    BY HoldsFacts DEF MonitorTypeOK, CountBalanced
<1>2. ASSUME UNCHANGED userVars PROVE Cardinality(Holds)' = Cardinality(Holds)
    BY <1>2, HoldsStay DEF userVars, Depth
<1>3. MonitorThread => CountBalanced'
  <2> SUFFICES ASSUME MonitorThread PROVE CountBalanced'
      OBVIOUS
  <2>1. Cardinality(Holds)' = Cardinality(Holds)
      BY <1>2, MonitorFrame
  <2>2. suspendCount' - (IF Covering' THEN 1 ELSE 0) = suspendCount - (IF Covering THEN 1 ELSE 0)
      BY CoveringStep
  <2>3. suspendCount' \in Nat
      BY MonitorTypeStep DEF MonitorNext, MonitorTypeOK
  <2>4. QED
      BY <1>1, <2>1, <2>2, <2>3 DEF CountBalanced
<1>4. LinkDies => CountBalanced'
  <2> SUFFICES ASSUME LinkDies PROVE CountBalanced'
      OBVIOUS
  <2>1. Cardinality(Holds)' = Cardinality(Holds)
      BY <1>2, MonitorFrame
  <2>2. suspendCount' = suspendCount /\ Covering' = Covering
      BY DEF LinkDies, flagVars, monVars, Covering
  <2>3. QED
      BY <1>1, <2>1, <2>2 DEF CountBalanced
<1>5. ASSUME NEW u \in Users, Using(u) \/ Calling(u) PROVE CountBalanced'
  <2>1. \A v \in Users \ {u} : Depth(v)' = Depth(v)
      BY <1>5, UserFrame
  <2>2. CASE StartMonitor(u)
    <3>1. Quiet' /\ suspendCount' = 0 /\ ~Covering'
        BY <2>2 DEF StartMonitor, Quiet, Covering
    <3>2. Quiet /\ UNCHANGED <<at, stack>>
        BY <2>2 DEF StartMonitor
    <3>3. Cardinality(Holds) = 0
        BY <3>2, QuietDepth
    <3>4. Cardinality(Holds)' = Cardinality(Holds)
        BY <3>2, HoldsStay DEF Depth
    <3>5. QED
        BY <3>1, <3>3, <3>4 DEF CountBalanced
  <2>3. CASE ~StartMonitor(u)
    <3>1. Covering' = Covering
        BY <1>5, <2>3, SessionFrame DEF monVars, Covering
    <3>2. CASE Even(u) \/ FixCount(u)
      <4>1. Depth(u)' = Depth(u) /\ suspendCount' = suspendCount
          BY <3>2, EvenStep, UnevenStep
      <4>2. Cardinality(Holds)' = Cardinality(Holds)
          BY <2>1, <4>1, HoldsStay
      <4>3. QED
          BY <1>1, <3>1, <4>1, <4>2 DEF CountBalanced
    <3>3. CASE Increment(u)
      <4>1. Depth(u) < 3 /\ Depth(u)' = Depth(u) + 1 /\ suspendCount' = suspendCount + 1
          BY <3>3, UnevenStep
      <4>2. Cardinality(Holds)' = Cardinality(Holds) + 1
          BY <2>1, <4>1, HoldsUp
      <4>3. QED
          BY <1>1, <3>1, <4>1, <4>2 DEF CountBalanced
    <3>4. CASE GiveUp(u) \/ Decrement(u)
      <4>1. Depth(u) > 0 /\ Depth(u)' = Depth(u) - 1 /\ suspendCount' = suspendCount - 1
          BY <3>4, UnevenStep
      <4>2. Cardinality(Holds)' = Cardinality(Holds) - 1
          BY <2>1, <4>1, HoldsDown
      <4>3. QED
          BY <1>1, <3>1, <4>1, <4>2 DEF CountBalanced
    <3>5. QED
        BY <1>5, <2>3, <3>2, <3>3, <3>4, UserSteps
  <2>4. QED
      BY <2>2, <2>3
<1>6. UNCHANGED monitorVars => CountBalanced'
  <2> SUFFICES ASSUME UNCHANGED monitorVars PROVE CountBalanced'
      OBVIOUS
  <2>1. Cardinality(Holds)' = Cardinality(Holds)
      BY <1>2 DEF monitorVars
  <2>2. suspendCount' = suspendCount /\ Covering' = Covering
      BY DEF monitorVars, flagVars, monVars, Covering
  <2>3. QED
      BY <1>1, <2>1, <2>2 DEF CountBalanced
<1>7. QED
    BY <1>3, <1>4, <1>5, <1>6 DEF MonitorNext
-----------------------------------------------------------------------------
(* A suspended monitor is quiet.                                           *)

\* A user becomes sure only by seeing the flag, stays in the count while it
\* is, and has never to poll for the flag again.
LEMMA SureUserStep ==
    ASSUME MonitorTypeOK, UsersPlaced, CountBalanced, SureIsCounted,
           NEW u \in Users, Using(u) \/ Calling(u), sure'[u]
    PROVE  /\ Depth(u)' > 0
           /\ at'[u] \notin {"first", "wake", "poll", "check", "undo"}
           /\ sure[u] \/ CheckSuspended(u)
<1>1. /\ at \in [Users -> UserPc] /\ stack \in [Users -> Stacks] /\ sure \in [Users -> BOOLEAN]
      /\ stack[u] \in Stacks
    BY DEF MonitorTypeOK
<1>2. Depth(u) \in 0 .. 3 /\ Len(stack[u]) \in 0 .. 3
    BY <1>1, DepthFacts, StackFacts
<1>3. sure[u] => Depth(u) > 0 /\ suspendCount > 0 /\ at[u] \notin {"first", "wake", "poll", "check", "undo"}
    BY CountPositive DEF SureIsCounted
<1>4. CASE CheckSuspended(u)
  <2>1. at[u] = "check" /\ at'[u] = "held" /\ stack' = stack /\ stack[u] # <<>>
      BY <1>1, <1>4 DEF CheckSuspended, Goes, UsersPlaced, Placed
  <2>2. Len(stack[u]) > 0
      BY <1>1, <2>1, StackFacts
  <2>3. Depth(u)' = Len(stack[u])
      BY <1>2, <2>1 DEF Depth, Uncounted
  <2>4. QED
      BY <1>4, <2>1, <2>2, <2>3
<1>5. CASE Decrement(u)
  <2>1. at[u] = "resume" /\ stack[u] # <<>>
      BY <1>5 DEF Decrement, UsersPlaced, Placed
  <2>2. suspendCount' = suspendCount - 1 /\ Depth(u)' = Depth(u) - 1 /\ Depth(u) > 0
      BY <1>5, UnevenStep
  <2>3. suspendCount > 0
      BY <2>2, CountPositive
  <2>4. at'[u] = "rouse" /\ sure[u] /\ Len(stack[u]) > 1
    <3>1. /\ at' = [at EXCEPT ![u] = "rouse"]
          /\ sure' = [sure EXCEPT ![u] = @ /\ Len(stack[u]) > 1]
        BY <1>5, <2>3 DEF Decrement
    <3>2. sure'[u] = (sure[u] /\ Len(stack[u]) > 1)
        BY <1>1, <3>1, Zenon
    <3>3. at'[u] = "rouse"
        BY <1>1, <3>1
    <3>4. QED
        BY <3>2, <3>3, Zenon
  <2>5. Depth(u) = Len(stack[u])
      BY <1>2, <2>1 DEF Depth, Uncounted
  <2>6. QED
      BY <1>2, <2>2, <2>4, <2>5
<1>6. CASE Increment(u) \/ GiveUp(u) \/ FixCount(u) \/ StartMonitor(u)
  <2>1. sure[u]
      BY <1>6 DEF Increment, GiveUp, FixCount, StartMonitor
  <2>2. ~GiveUp(u) /\ at[u] # "first"
      BY <1>3, <2>1 DEF GiveUp
  <2>3. CASE Increment(u)
    <3>1. Depth(u)' = Depth(u) + 1
        BY <2>3, UnevenStep
    <3>2. at'[u] \in {"wait", "held"}
        BY <1>1, <2>2, <2>3 DEF Increment, Goes
    <3>3. QED
        BY <1>2, <2>1, <3>1, <3>2
  <2>4. CASE FixCount(u)
    <3>1. Depth(u)' = Depth(u)
        BY <2>4, UnevenStep
    <3>2. at'[u] = "held"
        BY <1>1, <2>4 DEF FixCount, Goes
    <3>3. QED
        BY <1>3, <2>1, <3>1, <3>2
  <2>5. CASE StartMonitor(u)
    <3>1. Depth(u) = 0
        BY <2>5, QuietDepth DEF StartMonitor
    <3>2. QED
        BY <1>3, <2>1, <3>1
  <2>6. QED
      BY <1>6, <2>2, <2>3, <2>4, <2>5
<1>7. CASE Even(u) /\ ~CheckSuspended(u)
  <2>1. sure' = sure
      BY <1>7 DEF Even, LockLink, ReadDone, SetExternalDHCSR, FlashGoesOn, UnlockLink, TestCount,
         TestSuspension, WakeMonitor, PollSuspended, CheckAgain, WaitSuspended, Rouse,
         StopStoresByte, StopWakes, StopJoins, BeginFlash, EndFlash, BeginRead, SignalWakeup,
         StopLoadsByte, userVars
  <2>2. Depth(u)' = Depth(u)
      BY <1>7, EvenStep
  <2>3. at'[u] \notin {"first", "wake", "poll", "check", "undo"}
    <3>1. CASE Rouse(u)
        BY <3>1, ReturnFacts DEF Rouse, UsersPlaced, Placed
    <3>2. CASE TestCount(u)
        BY <1>1, <1>3, <2>1, <3>2 DEF TestCount
    <3>3. CASE WakeMonitor(u) \/ PollSuspended(u) \/ CheckAgain(u)
        BY <1>3, <2>1, <3>3 DEF WakeMonitor, PollSuspended, CheckAgain, Goes
    <3>4. CASE \/ LockLink(u) \/ ReadDone(u) \/ SetExternalDHCSR(u) \/ FlashGoesOn(u)
               \/ UnlockLink(u) \/ TestSuspension(u) \/ WaitSuspended(u) \/ StopStoresByte(u)
               \/ StopWakes(u) \/ StopJoins(u) \/ BeginFlash(u) \/ EndFlash(u) \/ BeginRead(u)
               \/ StopLoadsByte(u)
        BY <1>1, <3>4 DEF LockLink, ReadDone, SetExternalDHCSR, FlashGoesOn, UnlockLink,
           TestSuspension, WaitSuspended, StopStoresByte, StopWakes, StopJoins, BeginFlash,
           EndFlash, BeginRead, StopLoadsByte, Goes
    <3>5. CASE SignalWakeup(u)
        BY <1>3, <2>1, <3>5 DEF SignalWakeup, userVars
    <3>6. QED
        BY <1>7, <3>1, <3>2, <3>3, <3>4, <3>5 DEF Even
  <2>4. QED
      BY <1>3, <2>1, <2>2, <2>3
<1>8. QED
    BY <1>4, <1>5, <1>6, <1>7, UserSteps

\* Every step keeps whoever is sure in the count.
LEMMA SureIsCountedStep ==
    ASSUME MonitorTypeOK, UsersPlaced, CountBalanced, SureIsCounted
    PROVE  [MonitorNext]_monitorVars => SureIsCounted'
<1>1. ASSUME UNCHANGED userVars PROVE SureIsCounted'
    BY <1>1 DEF SureIsCounted, userVars, Depth
<1>2. ASSUME NEW u \in Users, Using(u) \/ Calling(u) PROVE SureIsCounted'
    BY <1>2, SureUserStep, UserFrame DEF SureIsCounted
<1>3. QED
    BY <1>1, <1>2, MonitorFrame DEF MonitorNext, monitorVars

\* The monitor goes to work only when the count is zero, and nobody is sure
\* then; a user becomes sure only while the monitor is asleep.
LEMMA SuspendedIsQuietStep ==
    ASSUME MonitorTypeOK, UsersPlaced, MonitorPlaced, CountBalanced, SureIsCounted, SuspendedIsQuiet
    PROVE  [MonitorNext]_monitorVars => SuspendedIsQuiet'
<1>1. MonitorThread => SuspendedIsQuiet'
  <2> SUFFICES ASSUME MonitorThread, NEW u \in Users, sure'[u] PROVE mon' \notin Iterating
      BY DEF SuspendedIsQuiet
  <2>1. sure[u] /\ mon \notin Iterating
      BY MonitorFrame DEF userVars, SuspendedIsQuiet
  <2>2. suspendCount > 0
      BY <2>1, CountPositive DEF SureIsCounted
  <2>3. ~GateOpens
      BY <2>2 DEF GateOpens
  <2>4. QED
      BY <2>1, <2>3 DEF Iterating, MonitorThread, MonGoes,
         MonTop, MonParks, MonSignals, MonAwakes, MonLeaves, MonIdles, MonSleeps,
         MonGateExits, MonGateSkips, MonLoadsByte, MonStoresByte, MonBegins,
         MonProceeds, MonCovers, MonLocks, MonAccesses, MonUncovers, MonUnlocks,
         MonExits
<1>2. LinkDies => SuspendedIsQuiet'
    BY DEF LinkDies, monVars, userVars, SuspendedIsQuiet
<1>3. ASSUME NEW u \in Users, Using(u) \/ Calling(u) PROVE SuspendedIsQuiet'
  <2>1. CASE StartMonitor(u)
      BY <2>1 DEF StartMonitor, SuspendedIsQuiet, Iterating
  <2>2. CASE ~StartMonitor(u)
    <3> SUFFICES ASSUME NEW v \in Users, sure'[v] PROVE mon' \notin Iterating
        BY DEF SuspendedIsQuiet
    <3>1. mon' = mon
        BY <1>3, <2>2, SessionFrame DEF monVars
    <3>2. sure[v] \/ CheckSuspended(v)
        BY <1>3, SureUserStep, UserFrame
    <3>3. CheckSuspended(v) => mon \notin Iterating
        BY DEF CheckSuspended, MonitorPlaced, Iterating
    <3>4. QED
        BY <3>1, <3>2, <3>3 DEF SuspendedIsQuiet
  <2>3. QED
      BY <2>1, <2>2
<1>4. UNCHANGED monitorVars => SuspendedIsQuiet'
    BY DEF monitorVars, monVars, userVars, SuspendedIsQuiet
<1>5. QED
    BY <1>1, <1>2, <1>3, <1>4 DEF MonitorNext

-----------------------------------------------------------------------------
(* No wake-up is lost.                                                     *)

\* Every step keeps a wake-up coming: only a resume takes the count to zero
\* without giving up, and it sets the event before it returns.
LEMMA WakeUpComesStep ==
    ASSUME MonitorTypeOK, UsersPlaced, MonitorPlaced, CountBalanced, WakeUpComes
    PROVE  [MonitorNext]_monitorVars => WakeUpComes'
<1> USE DEF WakeUpComes
<1>1. MonitorThread => WakeUpComes'
    BY MonitorFrame DEF MonitorThread, MonGoes, GateOpens, userVars, flagVars,
       MonTop, MonParks, MonSignals, MonAwakes, MonLeaves, MonIdles, MonSleeps,
       MonGateExits, MonGateSkips, MonLoadsByte, MonStoresByte, MonBegins, MonProceeds,
       MonCovers, MonLocks, MonAccesses, MonUncovers, MonUnlocks, MonExits
<1>2. LinkDies => WakeUpComes'
    BY DEF LinkDies, flagVars, monVars, userVars
<1>3. ASSUME NEW u \in Users, Using(u) \/ Calling(u) PROVE WakeUpComes'
  <2> DEFINE Others == \A v \in Users \ {u} : at'[v] = at[v]
  <2>1. Others /\ at \in [Users -> UserPc] /\ suspendCount \in Nat
      BY <1>3, UserFrame DEF MonitorTypeOK
  <2>2. CASE StartMonitor(u)
      BY <2>2 DEF StartMonitor
  <2>3. CASE GiveUp(u)
      BY <2>3 DEF GiveUp
  <2>4. CASE Decrement(u)
    <3>1. at'[u] = "rouse"
      <4>1. suspendCount > 0
          BY <2>4, UnevenStep, CountPositive
      <4>2. QED
          BY <2>1, <2>4, <4>1 DEF Decrement
    <3>2. QED
        BY <3>1
  <2>5. CASE Rouse(u)
    <3>1. UNCHANGED <<mon, timedOut, suspendCount>>
        BY <2>5 DEF Rouse, monVars
    <3>2. mon \in {"park", "signal", "asleep"} => handle
        BY DEF MonitorPlaced
    <3>3. suspendCount = 0 /\ handle => wakeup'
        BY <2>5 DEF Rouse
    <3>4. QED
        BY <3>1, <3>2, <3>3
  <2>6. CASE Increment(u)
      BY <2>1, <2>6 DEF Increment
  <2>7. CASE FixCount(u) \/ (Even(u) /\ ~Rouse(u))
    <3>1. suspendCount' = suspendCount
        BY <2>7, EvenStep, UnevenStep
    <3>2. UNCHANGED <<mon, timedOut>> /\ (wakeup => wakeup') /\ at[u] # "rouse"
        BY <2>7 DEF FixCount, Even, LockLink, ReadDone, SetExternalDHCSR, FlashGoesOn, UnlockLink,
           TestCount, TestSuspension, WakeMonitor, PollSuspended, CheckSuspended, CheckAgain,
           WaitSuspended, StopStoresByte, StopWakes, StopJoins, BeginFlash, EndFlash, BeginRead,
           SignalWakeup, StopLoadsByte, Goes, Quiet, flagVars, monVars, userVars
    <3>3. QED
        BY <2>1, <3>1, <3>2
  <2>8. QED
      BY <1>3, <2>2, <2>3, <2>4, <2>5, <2>6, <2>7, UserSteps
<1>4. UNCHANGED monitorVars => WakeUpComes'
    BY DEF monitorVars, flagVars, monVars, userVars
<1>5. QED
    BY <1>1, <1>2, <1>3, <1>4 DEF MonitorNext

-----------------------------------------------------------------------------
(* The theorems.                                                           *)

\* The invariant holds at the start.
LEMMA MonitorInductiveInit == MonitorInit => MonitorInductive
<1> SUFFICES ASSUME MonitorInit PROVE MonitorInductive
    OBVIOUS
<1>1. MonitorTypeOK
    BY MonitorTypeInit
<1>2. UsersPlaced /\ Quiet
    BY DEF MonitorInit, UsersPlaced, Placed, Quiet
<1>3. CountBalanced
    BY <1>1, <1>2, QuietDepth DEF MonitorInit, CountBalanced, Covering
<1>4. MonitorPlaced /\ SureIsCounted /\ SuspendedIsQuiet /\ WakeUpComes
    BY DEF MonitorInit, MonitorPlaced, SureIsCounted, SuspendedIsQuiet, WakeUpComes
<1>5. QED
    BY <1>1, <1>2, <1>3, <1>4 DEF MonitorInductive

\* Every step keeps it.
LEMMA MonitorInductiveStep == MonitorInductive /\ [MonitorNext]_monitorVars => MonitorInductive'
BY MonitorTypeStep, UsersPlacedStep, MonitorPlacedStep, CountBalancedStep, SureIsCountedStep,
   SuspendedIsQuietStep, WakeUpComesStep DEF MonitorInductive

\* The parts of the invariant hold together, whoever suspends and resumes, gives
\* up, starts and stops, and whatever the monitor does meanwhile.
THEOREM MonitorInductiveCorrect == MonitorSpec => []MonitorInductive
BY MonitorInductiveInit, MonitorInductiveStep, PTL DEF MonitorSpec

\* Every variable keeps its type; a suspend count never gets below zero.
THEOREM MonitorTypeCorrect == MonitorSpec => []MonitorTypeOK
<1>1. MonitorInductive => MonitorTypeOK
    BY DEF MonitorInductive
<1>2. QED
    BY <1>1, MonitorInductiveCorrect, PTL

\* The suspend count is the number of suspensions in force (DSM_SuspendMonitor,
\* DSM_ResumeMonitor), for any number of users.
THEOREM CountBalancedCorrect == MonitorSpec => []CountBalanced
<1>1. MonitorInductive => CountBalanced
    BY DEF MonitorInductive
<1>2. QED
    BY <1>1, MonitorInductiveCorrect, PTL

\* A monitor that was seen suspended does not work on the target until the
\* user that has seen it resumes it.
THEOREM SuspendedIsQuietCorrect == MonitorSpec => []SuspendedIsQuiet
<1>1. MonitorInductive => SuspendedIsQuiet
    BY DEF MonitorInductive
<1>2. QED
    BY <1>1, MonitorInductiveCorrect, PTL

\* No resume leaves the monitor asleep.
THEOREM NoLostWakeUpCorrect == MonitorSpec => []NoLostWakeUp
<1>1. MonitorInductive => NoLostWakeUp
    BY DEF MonitorInductive, WakeUpComes, NoLostWakeUp
<1>2. QED
    BY <1>1, MonitorInductiveCorrect, PTL
=============================================================================
