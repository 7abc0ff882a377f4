------------------------------ MODULE DSMonitor ------------------------------
(***************************************************************************)
(* The device state monitor of the AGDI driver: a thread that polls the    *)
(* target's DHCSR, and the driver's other threads (the users) that suspend *)
(* it while they use the target themselves.                                *)
(*                                                                         *)
(* They share suspendCount (atomic), the flag inSuspension, the auto-reset *)
(* events wakeup and suspended, and a byte of bit-fields with kill and     *)
(* extDHCSR in it, which both sides write without a lock.  Accesses to the *)
(* target are serialised by the recursive mutex of the link layer, which a *)
(* read of DHCSR takes before it suspends the monitor, and which every     *)
(* access of the monitor takes as well.                                    *)
(*                                                                         *)
(* stack[u] lists the callers of DSM_SuspendMonitor that user u is inside  *)
(* of: a Flash operation, a read of DHCSR, and DSM_ExternalDHCSR at its    *)
(* end.  Sessions are started and stopped while no other user is in a call.*)
(* DSM_WaitForState and DSM_ConfigureMonitor only wake the monitor here:   *)
(* what they match, and their stores into the bit-fields, are left out.    *)
(***************************************************************************)
EXTENDS Integers, Sequences, FiniteSets

CONSTANTS
    Users,      \* the driver's threads beside the monitor
    Readers,    \* those that read DHCSR and run sessions, beside Flash operations
    Monitor,    \* the monitor thread
    Free,       \* the owner of the mutex when nobody has it
    Recovery    \* TRUE: the debugger supports recovery of the debug access

ASSUME DSMonitorAssumption ==
    /\ IsFiniteSet(Users)
    /\ Readers \subseteq Users
    /\ Monitor \notin Users
    /\ Free \notin Users \cup {Monitor}
    /\ Recovery \in BOOLEAN

VARIABLES
    \* DSMonitorThread
    suspendCount,
    inSuspension,
    wakeup,         \* event
    suspended,      \* event
    extDHCSR,
    kill,
    handle,         \* h is not NULL: between DSM_StartMonitor and DSM_StopMonitor
    playDead,       \* PlayDead, not because of a regular shutdown
    \* the monitor thread
    mon,            \* where it is
    stage,          \* what its next gate, or its access in progress, is for
    second,         \* it stops at the second of the two points of suspension
    loadedKill,     \* kill in the byte it is about to store
    \* the users
    at,             \* where each of them is
    stack,          \* whose suspensions it is inside of
    loadedExt,      \* extDHCSR in the byte DSM_StopMonitor is about to store
    \* the link layer
    lock,           \* the owner of kSWDOpMutex (kJTAGOpMutex)
    \* history
    sure,           \* the outermost suspension of the user was seen in effect
    timedOut        \* a suspension was given up in this session

flagVars  == <<suspendCount, inSuspension, wakeup, suspended>>
byteVars  == <<extDHCSR, kill, loadedKill, loadedExt>>
sessionVars == <<handle, playDead>>
monVars   == <<mon, stage, second>>
userVars  == <<at, stack, sure, timedOut>>
monitorVars == <<flagVars, byteVars, sessionVars, monVars, userVars, lock>>

MonPc == {"none", "top", "park", "signal", "asleep", "leave", "idle", "sleep", "gate",
          "taken", "cover", "lock", "access", "uncover", "unlock", "exit"}
Stages == {"fresh", "recover", "read", "detect", "notify", "update", "regs"}
UserPc == {"idle", "lock", "enter", "test", "first", "wake", "poll", "check", "undo",
           "second", "wait", "fix", "third", "held", "resume", "rouse", "unlock",
           "kill", "killed", "join"}
Callers == {"flash", "read", "ext"}
\* The innermost caller comes first.
Stacks == {<<>>, <<"flash">>, <<"read">>, <<"read", "flash">>, <<"ext", "read">>,
           <<"ext", "read", "flash">>}

MonitorTypeOK ==
    /\ suspendCount \in Nat
    /\ inSuspension \in BOOLEAN
    /\ wakeup \in BOOLEAN
    /\ suspended \in BOOLEAN
    /\ extDHCSR \in BOOLEAN
    /\ kill \in BOOLEAN
    /\ handle \in BOOLEAN
    /\ playDead \in BOOLEAN
    /\ mon \in MonPc
    /\ stage \in Stages
    /\ second \in BOOLEAN
    /\ loadedKill \in BOOLEAN
    /\ at \in [Users -> UserPc]
    /\ stack \in [Users -> Stacks]
    /\ loadedExt \in BOOLEAN
    /\ lock \in Users \cup {Monitor, Free}
    /\ sure \in [Users -> BOOLEAN]
    /\ timedOut \in BOOLEAN

\* InitDSMonitor: no thread, everything cleared.
MonitorInit ==
    /\ suspendCount = 0
    /\ inSuspension = FALSE
    /\ wakeup = FALSE
    /\ suspended = FALSE
    /\ extDHCSR = FALSE
    /\ kill = FALSE
    /\ handle = FALSE
    /\ playDead = FALSE
    /\ mon = "none"
    /\ stage = "fresh"
    /\ second = FALSE
    /\ loadedKill = FALSE
    /\ at = [u \in Users |-> "idle"]
    /\ stack = [u \in Users |-> <<>>]
    /\ loadedExt = FALSE
    /\ lock = Free
    /\ sure = [u \in Users |-> FALSE]
    /\ timedOut = FALSE

-----------------------------------------------------------------------------
(* The monitor thread.                                                     *)

MonGoes(from, to) == mon = from /\ mon' = to

\* The top of the loop: suspended here, or on to the periodic wait.
MonTop ==
    /\ mon = "top"
    /\ mon' = IF suspendCount > 0 THEN "park" ELSE "idle"
    /\ UNCHANGED <<flagVars, byteVars, sessionVars, stage, second, userVars, lock>>

MonParks ==
    /\ MonGoes("park", "signal")
    /\ inSuspension' = TRUE
    /\ UNCHANGED <<suspendCount, wakeup, suspended, byteVars, sessionVars, stage, second,
                   userVars, lock>>

MonSignals ==
    /\ MonGoes("signal", "asleep")
    /\ suspended' = TRUE
    /\ UNCHANGED <<suspendCount, inSuspension, wakeup, byteVars, sessionVars, stage, second,
                   userVars, lock>>

\* WaitForMultipleObjects(wakeup, INFINITE).
MonAwakes ==
    /\ MonGoes("asleep", "leave")
    /\ wakeup
    /\ wakeup' = FALSE
    /\ UNCHANGED <<suspendCount, inSuspension, suspended, byteVars, sessionVars, stage, second,
                   userVars, lock>>

\* A match in progress or a target in reset skips the second point.
MonLeaves ==
    /\ mon = "leave"
    /\ \/ mon' = "gate"
       \/ ~second /\ mon' = "idle"
    /\ inSuspension' = FALSE
    /\ second' = FALSE
    /\ UNCHANGED <<suspendCount, wakeup, suspended, byteVars, sessionVars, stage, userVars, lock>>

\* The second point of suspension, or the start of the periodic wait.
MonIdles ==
    /\ mon = "idle"
    /\ \/ mon' = "gate" /\ UNCHANGED second
       \/ suspendCount > 0 /\ mon' = "park" /\ second' = TRUE
       \/ suspendCount = 0 /\ mon' = "sleep" /\ UNCHANGED second
    /\ UNCHANGED <<flagVars, byteVars, sessionVars, stage, userVars, lock>>

\* The wait ends with its timeout or with the event, which it consumes.
MonSleeps ==
    /\ MonGoes("sleep", "gate")
    /\ wakeup' = FALSE
    /\ UNCHANGED <<suspendCount, inSuspension, suspended, byteVars, sessionVars, stage, second,
                   userVars, lock>>

\* The three tests that stand before each part of an iteration.
\* Mutant: they do not look at kill.
MutMonGateExits ==
    /\ MonGoes("gate", "exit")
    /\ playDead
    /\ UNCHANGED <<flagVars, byteVars, sessionVars, stage, second, userVars, lock>>

MonGateExits ==
    /\ MonGoes("gate", "exit")
    /\ playDead \/ kill
    /\ UNCHANGED <<flagVars, byteVars, sessionVars, stage, second, userVars, lock>>

MonGateSkips ==
    /\ MonGoes("gate", "top")
    /\ ~playDead /\ ~kill
    /\ suspendCount > 0
    /\ stage' = "fresh"
    /\ UNCHANGED <<flagVars, byteVars, sessionVars, second, userVars, lock>>

\* Mutant: the iteration does not look at the count any more.
MutGateOpens == mon = "gate" /\ ~playDead /\ ~kill

GateOpens == mon = "gate" /\ ~playDead /\ ~kill /\ suspendCount = 0

\* A value handed over by a user is taken instead of a read.  Clearing
\* extDHCSR loads and stores the byte that kill is in.
MonLoadsByte ==
    /\ GateOpens
    /\ stage = "fresh"
    /\ extDHCSR
    /\ mon' = "taken"
    /\ loadedKill' = kill
    /\ UNCHANGED <<flagVars, extDHCSR, kill, loadedExt, sessionVars, stage, second, userVars, lock>>

MonStoresByte ==
    /\ MonGoes("taken", "gate")
    /\ extDHCSR' = FALSE
    /\ kill' = loadedKill
    /\ loadedKill' = FALSE
    /\ stage' = "update"
    /\ UNCHANGED <<flagVars, loadedExt, sessionVars, second, userVars, lock>>

\* DebugAccessRecovery, or the read at once without recovery.
MonBegins ==
    /\ GateOpens
    /\ stage = "fresh"
    /\ ~extDHCSR
    /\ IF Recovery THEN mon' = "cover" /\ stage' = "recover" ELSE mon' = "lock" /\ stage' = "read"
    /\ UNCHANGED <<flagVars, byteVars, sessionVars, second, userVars, lock>>

\* DebugAccessDetection after an error, UV_DBG_ACCESS_LEVEL after a change,
\* and DSMonitor_UpdateCPUState with its hooks and periodic updates.
MonProceeds ==
    /\ GateOpens
    /\ \/ stage = "detect" /\ mon' = "lock" /\ UNCHANGED stage
       \/ stage = "detect" /\ mon' = "gate" /\ stage' = "notify"
       \/ stage \in {"notify", "update"} /\ mon' = "cover" /\ UNCHANGED stage
       \/ stage = "update" /\ mon' = "lock" /\ stage' = "regs"
       \/ stage = "notify" /\ mon' = "gate" /\ stage' = "update"
       \/ stage \in {"notify", "update"} /\ mon' = "top" /\ stage' = "fresh"
    /\ UNCHANGED <<flagVars, byteVars, sessionVars, second, userVars, lock>>

\* DSM_SuspendMonitor called by the monitor itself; recovery and updates
\* may then use the target.
MonCovers ==
    /\ mon = "cover"
    /\ suspendCount' = suspendCount + 1
    /\ mon' \in CASE stage = "read" -> {"access"}
                  [] stage = "notify" -> {"uncover"}
                  [] OTHER -> {"lock", "uncover"}
    /\ UNCHANGED <<inSuspension, wakeup, suspended, byteVars, sessionVars, stage, second,
                   userVars, lock>>

MonLocks ==
    /\ mon = "lock"
    /\ lock = Free
    /\ lock' = Monitor
    /\ mon' = IF stage = "read" THEN "cover" ELSE "access"
    /\ UNCHANGED <<flagVars, byteVars, sessionVars, stage, second, userVars>>

\* The access itself; a read of DHCSR keeps the mutex until it has resumed.
MonAccesses ==
    /\ mon = "access"
    /\ mon' = CASE stage = "detect" -> "gate" [] stage = "regs" -> "top" [] OTHER -> "uncover"
    /\ stage' = CASE stage = "detect" -> "notify" [] stage = "regs" -> "fresh" [] OTHER -> stage
    /\ lock' = IF stage = "read" THEN lock ELSE Free
    /\ UNCHANGED <<flagVars, byteVars, sessionVars, second, userVars>>

\* DSM_ResumeMonitor called by the monitor itself: it needs no event.
MonUncovers ==
    /\ mon = "uncover"
    /\ suspendCount' = IF suspendCount = 0 THEN 0 ELSE suspendCount - 1
    /\ \/ stage = "recover" /\ mon' = "lock" /\ stage' = "read"
       \/ stage = "recover" /\ mon' = "gate" /\ stage' = "detect"
       \/ stage = "read" /\ mon' = "unlock" /\ UNCHANGED stage
       \/ stage = "notify" /\ mon' = "gate" /\ stage' = "update"
       \/ stage = "update" /\ mon' = "lock" /\ stage' = "regs"
       \/ stage \in {"notify", "update"} /\ mon' = "top" /\ stage' = "fresh"
    /\ UNCHANGED <<inSuspension, wakeup, suspended, byteVars, sessionVars, second, userVars, lock>>

MonUnlocks ==
    /\ MonGoes("unlock", "gate")
    /\ stage' = IF Recovery THEN "detect" ELSE "update"
    /\ lock' = Free
    /\ UNCHANGED <<flagVars, byteVars, sessionVars, second, userVars>>

MonExits ==
    /\ MonGoes("exit", "none")
    /\ stage' = "fresh"
    /\ UNCHANGED <<flagVars, byteVars, sessionVars, second, userVars, lock>>

MonitorThread ==
    \/ MonTop \/ MonParks \/ MonSignals \/ MonAwakes \/ MonLeaves \/ MonIdles \/ MonSleeps
    \/ MonGateExits \/ MonGateSkips \/ MonLoadsByte \/ MonStoresByte \/ MonBegins \/ MonProceeds
    \/ MonCovers \/ MonLocks \/ MonAccesses \/ MonUncovers \/ MonUnlocks \/ MonExits

-----------------------------------------------------------------------------
(* The users: helpers.                                                     *)

\* User u moves from one place of its program to another.
Goes(u, from, to) == at[u] = from /\ at' = [at EXCEPT ![u] = to]

\* No session is being stopped; every call is made under this condition.
InSession == \A u \in Users : at[u] \notin {"kill", "killed", "join"}

Caller(u) == Head(stack[u])
Enter(u, c) == stack' = [stack EXCEPT ![u] = <<c>> \o @]

\* A suspension that failed or was resumed: back into its caller.
Return(u) ==
    /\ stack' = [stack EXCEPT ![u] = Tail(@)]
    /\ at' = [at EXCEPT ![u] = CASE Caller(u) = "read" -> "unlock"
                                 [] Caller(u) = "ext" -> "resume"
                                 [] Caller(u) = "flash" -> "idle"]

-----------------------------------------------------------------------------
(* The users: what they do.                                                *)

\* A Flash operation suspends the monitor around its work.
BeginFlash(u) ==
    /\ InSession
    /\ Goes(u, "idle", "enter")
    /\ stack[u] = <<>>
    /\ Enter(u, "flash")
    /\ UNCHANGED <<flagVars, byteVars, sessionVars, monVars, lock, sure, timedOut>>

EndFlash(u) ==
    /\ Goes(u, "idle", "resume")
    /\ stack[u] = <<"flash">>
    /\ UNCHANGED <<flagVars, byteVars, sessionVars, monVars, lock, stack, sure, timedOut>>

\* A read of DHCSR, also in the middle of a Flash operation.
BeginRead(u) ==
    /\ InSession
    /\ u \in Readers
    /\ Goes(u, "idle", "lock")
    /\ UNCHANGED <<flagVars, byteVars, sessionVars, monVars, lock, stack, sure, timedOut>>

LockLink(u) ==
    /\ Goes(u, "lock", "enter")
    /\ lock = Free
    /\ lock' = u
    /\ Enter(u, "read")
    /\ UNCHANGED <<flagVars, byteVars, sessionVars, monVars, sure, timedOut>>

\* The value read is handed to the monitor, or the access failed.
ReadDone(u) ==
    /\ at[u] = "held"
    /\ Caller(u) = "read"
    /\ \/ Goes(u, "held", "enter") /\ Enter(u, "ext")
       \/ Goes(u, "held", "resume") /\ UNCHANGED stack
    /\ UNCHANGED <<flagVars, byteVars, sessionVars, monVars, lock, sure, timedOut>>

SetExternalDHCSR(u) ==
    /\ Goes(u, "held", "resume")
    /\ Caller(u) = "ext"
    /\ extDHCSR' = TRUE
    /\ UNCHANGED <<flagVars, kill, loadedKill, loadedExt, sessionVars, monVars, lock, stack, sure,
                   timedOut>>

FlashGoesOn(u) ==
    /\ Goes(u, "held", "idle")
    /\ Caller(u) = "flash"
    /\ UNCHANGED <<flagVars, byteVars, sessionVars, monVars, lock, stack, sure, timedOut>>

UnlockLink(u) ==
    /\ Goes(u, "unlock", "idle")
    /\ lock' = Free
    /\ UNCHANGED <<flagVars, byteVars, sessionVars, monVars, stack, sure, timedOut>>

\* DSM_WaitForState and DSM_ConfigureMonitor signal wakeup.
SignalWakeup(u) ==
    /\ InSession
    /\ at[u] = "idle"
    /\ handle
    /\ wakeup' = TRUE
    /\ UNCHANGED <<suspendCount, inSuspension, suspended, byteVars, sessionVars, monVars,
                   userVars, lock>>

\* The link fails for good (SetPlayDead).
LinkDies ==
    /\ handle
    /\ playDead' = TRUE
    /\ UNCHANGED <<flagVars, byteVars, handle, monVars, userVars, lock>>

-----------------------------------------------------------------------------
(* The users: DSM_SuspendMonitor.                                          *)

TestCount(u) ==
    /\ at[u] = "enter"
    /\ at' = [at EXCEPT ![u] = IF suspendCount = 0 /\ handle THEN "first" ELSE "test"]
    /\ UNCHANGED <<flagVars, byteVars, sessionVars, monVars, lock, stack, sure, timedOut>>

TestSuspension(u) ==
    /\ at[u] = "test"
    /\ at' = [at EXCEPT ![u] = IF inSuspension THEN "third" ELSE "second"]
    /\ UNCHANGED <<flagVars, byteVars, sessionVars, monVars, lock, stack, sure, timedOut>>

\* The three increments: to wait for the flag, for the event, or not at all.
Increment(u) ==
    /\ \/ Goes(u, "first", "wake")
       \/ Goes(u, "second", "wait")
       \/ Goes(u, "third", "held")
    /\ suspendCount' = suspendCount + 1
    /\ UNCHANGED <<inSuspension, wakeup, suspended, byteVars, sessionVars, monVars, lock, stack,
                   sure, timedOut>>

WakeMonitor(u) ==
    /\ Goes(u, "wake", "poll")
    /\ wakeup' = TRUE
    /\ UNCHANGED <<suspendCount, inSuspension, suspended, byteVars, sessionVars, monVars, lock,
                   stack, sure, timedOut>>

\* Up to 50 waits of 20 ms, each ended by the event or its timeout, and by
\* the flag; given up after the last, or at once when the link is dead.
PollSuspended(u) ==
    /\ at[u] = "poll"
    /\ at' = [at EXCEPT ![u] = IF playDead THEN "undo" ELSE "check"]
    /\ suspended' = (suspended /\ playDead)
    /\ UNCHANGED <<suspendCount, inSuspension, wakeup, byteVars, sessionVars, monVars, lock, stack,
                   sure, timedOut>>

CheckSuspended(u) ==
    /\ Goes(u, "check", "held")
    /\ inSuspension
    /\ sure' = [sure EXCEPT ![u] = TRUE]
    /\ UNCHANGED <<flagVars, byteVars, sessionVars, monVars, lock, stack, timedOut>>

CheckAgain(u) ==
    /\ ~inSuspension
    /\ Goes(u, "check", "poll") \/ Goes(u, "check", "undo")
    /\ UNCHANGED <<flagVars, byteVars, sessionVars, monVars, lock, stack, sure, timedOut>>

\* Mutant: the count is not taken back.
MutGiveUp(u) ==
    /\ at[u] = "undo"
    /\ timedOut' = TRUE
    /\ Return(u)
    /\ UNCHANGED <<flagVars, byteVars, sessionVars, monVars, lock, sure>>

\* The count is taken back, and the monitor is not woken.
GiveUp(u) ==
    /\ at[u] = "undo"
    /\ suspendCount' = suspendCount - 1
    /\ timedOut' = TRUE
    /\ Return(u)
    /\ UNCHANGED <<inSuspension, wakeup, suspended, byteVars, sessionVars, monVars, lock, sure>>

\* WaitForSingleObject(suspended, INFINITE); it fails on a closed event.
WaitSuspended(u) ==
    /\ Goes(u, "wait", "fix")
    /\ suspended \/ ~handle
    /\ suspended' = FALSE
    /\ UNCHANGED <<suspendCount, inSuspension, wakeup, byteVars, sessionVars, monVars, lock, stack,
                   sure, timedOut>>

FixCount(u) ==
    /\ Goes(u, "fix", "held")
    /\ suspendCount' = IF suspendCount = 0 THEN 1 ELSE suspendCount
    /\ UNCHANGED <<inSuspension, wakeup, suspended, byteVars, sessionVars, monVars, lock, stack,
                   sure, timedOut>>

\* DSM_ResumeMonitor: the count goes down, and only a count of zero is an
\* error.  What was seen of the monitor ends with the outermost suspension.
Decrement(u) ==
    /\ at[u] = "resume"
    /\ IF suspendCount = 0
       THEN Return(u) /\ UNCHANGED <<suspendCount, sure>>
       ELSE /\ suspendCount' = suspendCount - 1
            /\ at' = [at EXCEPT ![u] = "rouse"]
            /\ sure' = [sure EXCEPT ![u] = @ /\ Len(stack[u]) > 1]
            /\ UNCHANGED stack
    /\ UNCHANGED <<inSuspension, wakeup, suspended, byteVars, sessionVars, monVars, lock, timedOut>>

\* Mutant: the monitor is woken only by a resume that finds it suspended.
MutRouse(u) ==
    /\ at[u] = "rouse"
    /\ wakeup' = (wakeup \/ (suspendCount = 0 /\ handle /\ inSuspension))
    /\ Return(u)
    /\ UNCHANGED <<suspendCount, inSuspension, suspended, byteVars, sessionVars, monVars, lock, sure,
                   timedOut>>

Rouse(u) ==
    /\ at[u] = "rouse"
    /\ wakeup' = (wakeup \/ (suspendCount = 0 /\ handle))
    /\ Return(u)
    /\ UNCHANGED <<suspendCount, inSuspension, suspended, byteVars, sessionVars, monVars, lock, sure,
                   timedOut>>

Suspending(u) ==
    \/ TestCount(u) \/ TestSuspension(u) \/ Increment(u) \/ WakeMonitor(u) \/ PollSuspended(u)
    \/ CheckSuspended(u) \/ CheckAgain(u) \/ GiveUp(u) \/ WaitSuspended(u) \/ FixCount(u)

Resuming(u) == Decrement(u) \/ Rouse(u)

-----------------------------------------------------------------------------
(* Sessions.                                                               *)

Quiet == \A u \in Users : at[u] = "idle" /\ stack[u] = <<>>

\* DSM_StartMonitor clears the structure and waits for the thread.
StartMonitor(u) ==
    /\ u \in Readers
    /\ Quiet
    /\ ~handle /\ mon = "none"
    /\ suspendCount' = 0
    /\ inSuspension' = FALSE
    /\ wakeup' = FALSE
    /\ suspended' = FALSE
    /\ extDHCSR' = FALSE
    /\ kill' = FALSE
    /\ handle' = TRUE
    /\ playDead' = FALSE
    /\ mon' = "top"
    /\ stage' = "fresh"
    /\ second' = FALSE
    /\ timedOut' = FALSE
    /\ UNCHANGED <<loadedKill, loadedExt, at, stack, sure, lock>>

\* DSM_StopMonitor: kill is set in a byte loaded before, the thread is woken
\* and waited for.
StopLoadsByte(u) ==
    /\ u \in Readers
    /\ Quiet
    /\ handle
    /\ Goes(u, "idle", "kill")
    /\ loadedExt' = extDHCSR
    /\ UNCHANGED <<flagVars, extDHCSR, kill, loadedKill, sessionVars, monVars, lock, stack, sure,
                   timedOut>>

StopStoresByte(u) ==
    /\ Goes(u, "kill", "killed")
    /\ kill' = TRUE
    /\ extDHCSR' = loadedExt
    /\ loadedExt' = FALSE
    /\ UNCHANGED <<flagVars, loadedKill, sessionVars, monVars, lock, stack, sure,
                   timedOut>>

StopWakes(u) ==
    /\ Goes(u, "killed", "join")
    /\ wakeup' = TRUE
    /\ UNCHANGED <<suspendCount, inSuspension, suspended, byteVars, sessionVars, monVars, lock,
                   stack, sure, timedOut>>

\* Mutant: the thread is not waited for.
MutStopJoins(u) ==
    /\ Goes(u, "join", "idle")
    /\ handle' = FALSE
    /\ UNCHANGED <<flagVars, byteVars, playDead, monVars, lock, stack, sure, timedOut>>

StopJoins(u) ==
    /\ Goes(u, "join", "idle")
    /\ mon = "none"
    /\ handle' = FALSE
    /\ UNCHANGED <<flagVars, byteVars, playDead, monVars, lock, stack, sure, timedOut>>

-----------------------------------------------------------------------------

Using(u) ==
    \/ LockLink(u) \/ ReadDone(u) \/ SetExternalDHCSR(u) \/ FlashGoesOn(u) \/ UnlockLink(u)
    \/ Suspending(u) \/ Resuming(u)
    \/ StopStoresByte(u) \/ StopWakes(u) \/ StopJoins(u)

Calling(u) ==
    \/ BeginFlash(u) \/ EndFlash(u) \/ BeginRead(u) \/ SignalWakeup(u)
    \/ StartMonitor(u) \/ StopLoadsByte(u)

MonitorNext ==
    \/ MonitorThread
    \/ LinkDies
    \/ \E u \in Users : Using(u) \/ Calling(u)

MonitorSpec == MonitorInit /\ [][MonitorNext]_monitorVars

\* The operating system runs a runnable thread; who calls what is free.
MonitorFairSpec ==
    /\ MonitorSpec
    /\ WF_monitorVars(MonitorThread)
    /\ \A u \in Users : WF_monitorVars(Using(u))

-----------------------------------------------------------------------------
(* Properties.                                                             *)

\* Where the monitor works on the target.
Iterating == {"taken", "cover", "lock", "access", "uncover", "unlock"}

\* The monitor's own suspension is in the count.
Covering ==
    \/ mon = "uncover"
    \/ mon = "access" /\ stage \in {"recover", "read", "update"}
    \/ mon = "lock" /\ stage \in {"recover", "update"}

\* How many suspensions user u has in the count: all but one that is not
\* counted yet, or not any more.
Uncounted == {"enter", "test", "first", "second", "third", "rouse"}
Depth(u) == Len(stack[u]) - (IF at[u] \in Uncounted THEN 1 ELSE 0)
Holds == {h \in Users \X (1 .. 3) : h[2] =< Depth(h[1])}

\* The count is the number of suspensions in force, the monitor's own one
\* included, through every failed, given up and nested one: it neither drops
\* to zero under somebody nor stays up after everybody has resumed.
CountBalanced == suspendCount = Cardinality(Holds) + (IF Covering THEN 1 ELSE 0)

\* While a user is inside a suspension whose effect it has seen, the monitor
\* does not work on the target.
SuspendedIsQuiet == \A u \in Users : sure[u] => mon \notin Iterating

\* The monitor is never left asleep by a resume: once nobody suspends it,
\* its event is set or about to be.  (A suspension given up does leave it.)
NoLostWakeUp ==
    mon = "asleep" /\ suspendCount = 0 /\ ~timedOut =>
        wakeup \/ \E u \in Users : at[u] = "rouse"

\* The inductive invariant, in parts.  What surrounds the call a user is in:
Placed(a, s) ==
    /\ a \in {"idle", "lock", "unlock"} => s \in {<<>>, <<"flash">>}
    /\ a \in {"kill", "killed", "join"} => s = <<>>
    /\ a \notin {"idle", "lock", "unlock", "kill", "killed", "join"} => s # <<>>
UsersPlaced == \A u \in Users : Placed(at[u], stack[u])

\* what the monitor may be doing where it is;
MonitorPlaced ==
    /\ mon = "cover" => stage \in {"recover", "read", "notify", "update"}
    /\ mon \in {"lock", "access"} => stage \in {"recover", "read", "detect", "update", "regs"}
    /\ inSuspension => mon \in {"signal", "asleep", "leave"}
    /\ mon # "none" => handle

\* a user that has seen the monitor suspended is in the count since;
SureIsCounted == \A u \in Users :
    sure[u] => Depth(u) > 0 /\ at[u] \notin {"first", "wake", "poll", "check", "undo"}

\* a monitor about to sleep will find its event set, like one that sleeps.
WakeUpComes ==
    mon \in {"park", "signal", "asleep"} /\ suspendCount = 0 /\ ~timedOut =>
        wakeup \/ \E u \in Users : at[u] = "rouse"

MonitorInductive ==
    /\ MonitorTypeOK
    /\ UsersPlaced
    /\ MonitorPlaced
    /\ CountBalanced
    /\ SureIsCounted
    /\ SuspendedIsQuiet
    /\ WakeUpComes

\* A killed monitor comes to its end, whatever it was doing, unless its own
\* store of the byte undoes the kill.
KillEnds == kill ~> mon = "none" \/ ~kill

\* A suspension that waits without a timeout comes back, as long as the link
\* is alive.
SuspendReturns == \A u \in Users : at[u] = "wait" ~> at[u] # "wait" \/ playDead
=============================================================================
