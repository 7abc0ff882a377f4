--------------------------- MODULE ProxyLifecycle ---------------------------
(***************************************************************************)
(* What the proxy promises to its two observers, without threads, sockets  *)
(* or timers.  The debugger sees whether the page is ready; the application*)
(* sees the status callbacks.                                              *)
(*                                                                         *)
(*   off       no client exists                                            *)
(*   trying    a connection, or a reconnection, is being made              *)
(*   serving   the page is ready for the debugger                          *)
(*   over      a final failure: nothing happens until the next start       *)
(*   stopping  el_proxy_stop is at work; it ends with the page not ready   *)
(***************************************************************************)
VARIABLES phase, ready, told

vars == <<phase, ready, told>>

Told == {"none", "up", "down"}

Init == phase = "off" /\ ready = FALSE /\ told = "none"

\* A start either launches a client or fails on the spot.
Begin ==
    /\ phase = "off"
    /\ phase' \in {"trying", "over"}
    /\ UNCHANGED <<ready, told>>

\* The page becomes ready; only a client that has not failed may do that.
Connect ==
    /\ phase = "trying"
    /\ told # "down"
    /\ phase' = "serving"
    /\ ready' = TRUE
    /\ UNCHANGED told

Announce ==
    /\ phase = "serving"
    /\ told # "down"
    /\ told' = "up"
    /\ UNCHANGED <<phase, ready>>

\* The connection is lost and another one will be tried.
Lose ==
    /\ phase = "serving"
    /\ told # "down"
    /\ phase' = "trying"
    /\ ready' = FALSE
    /\ UNCHANGED told

\* A final failure is reported first, then the page is withdrawn.
Report ==
    /\ phase \in {"trying", "serving"}
    /\ told' = "down"
    /\ UNCHANGED <<phase, ready>>

Finish ==
    /\ phase \in {"trying", "serving"}
    /\ told = "down"
    /\ phase' = "over"
    /\ ready' = FALSE
    /\ UNCHANGED told

\* Stopping overlaps whatever the client was doing, which may still publish
\* and report; it is complete only once the page is not ready.
BeginStop ==
    /\ phase \in {"trying", "serving", "over"}
    /\ phase' = "stopping"
    /\ UNCHANGED <<ready, told>>

WhileStopping ==
    /\ phase = "stopping"
    /\ ready' \in BOOLEAN
    /\ told' \in Told
    /\ UNCHANGED phase

EndStop ==
    /\ phase = "stopping"
    /\ ~ready
    /\ phase' = "off"
    /\ told' = "none"
    /\ UNCHANGED ready

Next == Begin \/ Connect \/ Announce \/ Lose \/ Report \/ Finish
        \/ BeginStop \/ WhileStopping \/ EndStop

Spec == Init /\ [][Next]_vars
=============================================================================
