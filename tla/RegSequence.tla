---------------------------- MODULE RegSequence ----------------------------
(***************************************************************************)
(* What a register access of the RDDI library promises its caller, without *)
(* commands, batches or responses: of the asked register transfers the     *)
(* target makes the first ones, each once, and the call succeeds only when *)
(* it has made them all.                                                   *)
(***************************************************************************)
EXTENDS Integers

VARIABLES
    asked,      \* transfers in the call
    done,       \* transfers made
    result      \* "pending" inside a call

seqVars == <<asked, done, result>>

Errors == {"failed", "sticky", "internal"}

SeqInit == asked = 0 /\ done = 0 /\ result = "idle"

\* A call, refused at once when no proxy is ready.
Ask ==
    /\ result # "pending"
    /\ asked' \in Nat
    /\ done' = 0
    /\ result' \in {"pending", "failed"}

Make ==
    /\ result = "pending"
    /\ done' \in (done + 1) .. asked
    /\ UNCHANGED <<asked, result>>

Succeed ==
    /\ result = "pending"
    /\ done = asked
    /\ result' = "ok"
    /\ UNCHANGED <<asked, done>>

Fail ==
    /\ result = "pending"
    /\ result' \in Errors
    /\ UNCHANGED <<asked, done>>

SeqNext == Ask \/ Make \/ Succeed \/ Fail

SeqSpec == SeqInit /\ [][SeqNext]_seqVars
=============================================================================
