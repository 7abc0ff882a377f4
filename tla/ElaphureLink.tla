---------------------------- MODULE ElaphureLink ----------------------------
(***************************************************************************)
(* The whole link: the proxy (module Proxy) and a debugger that drives the *)
(* RDDI library in its own process.  They share the producer page (the     *)
(* request), the consumer page (the response), the ready flag and the two  *)
(* auto-reset events.                                                      *)
(*                                                                         *)
(* The debugger is one thread at a time: the AGDI driver serialises its    *)
(* accesses.  A request is a number of 1..Requests, used round and round,  *)
(* so that two requests in a row differ; 0 is the page nobody has written. *)
(***************************************************************************)
EXTENDS Proxy

CONSTANT Requests       \* bound: how many requests are told apart

ASSUME LinkAssumption == Requests \in Nat \ {0}

VARIABLES
    handle,     \* kContext.rddi_handle_ is not the invalid handle
    attached,   \* RddiOpenInstance told the driver that it may go on
    dbg,        \* where the debugger's thread is
    request,    \* the last request it made
    page,       \* the request in the producer page
    wire,       \* the request the proxy has sent and not had answered
    reply,      \* consumer_page.command_response, with what it answers
    withdrawn,  \* history: the page was withdrawn since the call found it ready
    calm        \* history: both sides were in step, and no withdrawal since

rddiVars    == <<handle, attached, dbg, request>>
historyVars == <<withdrawn, calm>>
linkVars    == <<rddiVars, page, wire, reply, historyVars>>
allVars     == <<vars, linkVars>>

None    == 0
Invalid == -1           \* 0xFFFFFFFF
Fault   == -2           \* any status of the host other than DAP_RES_OK

DbgPc == {"idle", "resetConsumer", "resetProducer", "fill", "signal", "wait", "read"}

LinkTypeOK ==
    /\ TypeOK
    /\ handle \in BOOLEAN
    /\ attached \in BOOLEAN
    /\ dbg \in DbgPc
    /\ request \in 0 .. Requests
    /\ page \in 0 .. Requests
    /\ wire \in 0 .. Requests
    /\ reply \in {Fault, Invalid} \cup 0 .. Requests
    /\ withdrawn \in BOOLEAN
    /\ calm \in BOOLEAN

LinkInit ==
    /\ Init
    /\ handle = FALSE
    /\ attached = FALSE
    /\ dbg = "idle"
    /\ request = None
    /\ page = None
    /\ wire = None
    /\ reply = None
    /\ withdrawn = FALSE
    /\ calm = TRUE

-----------------------------------------------------------------------------
(* The debugger: RddiOpenInstance and the RDDI functions.                  *)

DbgStep(from, to) == dbg = from /\ dbg' = to

\* get_rddi_handle() drops the handle whenever the page is not ready.
ValidHandle == handle /\ ready

\* RDDI_Open refused: already open, which the driver takes for a success.
OpenAgain ==
    /\ dbg = "idle"
    /\ ValidHandle
    /\ attached' = TRUE
    /\ UNCHANGED <<vars, handle, dbg, request, page, wire, reply, historyVars>>

OpenNotReady ==
    /\ dbg = "idle"
    /\ ~ready
    /\ handle' = FALSE
    /\ attached' = FALSE
    /\ UNCHANGED <<vars, dbg, request, page, wire, reply, historyVars>>

\* RDDI_Open accepted: both events are reset "to prevent false wake up".
Open ==
    /\ DbgStep("idle", "resetConsumer")
    /\ ready /\ ~handle
    /\ handle' = TRUE
    /\ UNCHANGED <<vars, attached, request, page, wire, reply, historyVars>>

OpenResetsConsumer ==
    /\ DbgStep("resetConsumer", "resetProducer")
    /\ DebuggerResetsConsumer
    /\ UNCHANGED <<handle, attached, request, page, wire, reply, historyVars>>

\* Mutant: the producer event is not reset.
MutOpenResetsProducer ==
    /\ DbgStep("resetProducer", "idle")
    /\ attached' = TRUE
    /\ calm' = (calm \/ (io = "wait" /\ ~consumer))
    /\ UNCHANGED <<vars, handle, request, page, wire, reply, withdrawn>>

\* The two sides are in step again if the proxy is waiting for a request.
OpenResetsProducer ==
    /\ DbgStep("resetProducer", "idle")
    /\ DebuggerResetsProducer
    /\ attached' = TRUE
    /\ calm' = (calm \/ (io = "wait" /\ ~consumer))
    /\ UNCHANGED <<handle, request, page, wire, reply, withdrawn>>

\* Mutant: closing the library marks the proxy not ready.
MutRddiClose ==
    /\ dbg = "idle"
    /\ attached
    /\ handle' = FALSE
    /\ attached' = FALSE
    /\ ready' = FALSE
    /\ UNCHANGED <<managerVars, clientVars, ioVars, producer, consumer, dbg, request,
                   page, wire, reply, historyVars>>

RddiClose ==
    /\ dbg = "idle"
    /\ attached
    /\ handle' = FALSE
    /\ attached' = FALSE
    /\ UNCHANGED <<vars, dbg, request, page, wire, reply, historyVars>>

\* Register accesses look at the ready flag only, not at the handle.
AccessRegister ==
    /\ DbgStep("idle", "fill")
    /\ attached
    /\ ready
    /\ withdrawn' = FALSE
    /\ UNCHANGED <<vars, handle, attached, request, page, wire, reply, calm>>

\* The CMSIS_DAP_ functions check the handle, and drop it when not ready.
ProbeCommand ==
    /\ attached
    /\ dbg = "idle"
    /\ dbg' = IF ValidHandle THEN "fill" ELSE "idle"
    /\ handle' = ValidHandle
    /\ withdrawn' = (withdrawn /\ ~ValidHandle)
    /\ UNCHANGED <<vars, attached, request, page, wire, reply, calm>>

\* The request goes to the page and the response is invalidated.
Fill ==
    /\ DbgStep("fill", "signal")
    /\ request' = (request % Requests) + 1
    /\ page' = request'
    /\ reply' = Invalid
    /\ UNCHANGED <<vars, handle, attached, wire, historyVars>>

Signal ==
    /\ DbgStep("signal", "wait")
    /\ DebuggerSignals
    /\ UNCHANGED <<handle, attached, request, page, wire, reply, historyVars>>

\* Mutant: the wait has a timeout.
MutWake ==
    /\ DbgStep("wait", "read")
    /\ consumer' = FALSE
    /\ UNCHANGED <<managerVars, clientVars, ioVars, ready, producer, handle, attached,
                   request, page, wire, reply, historyVars>>

Wake ==
    /\ DbgStep("wait", "read")
    /\ DebuggerWakes
    /\ UNCHANGED <<handle, attached, request, page, wire, reply, historyVars>>

\* The response is read and the function returns; one that transfers a
\* block in pieces goes on after DAP_RES_OK without looking at ready again.
Read ==
    /\ dbg = "read"
    /\ \/ dbg' = "idle"
       \/ reply > 0 /\ dbg' = "fill"
    /\ UNCHANGED <<vars, handle, attached, request, page, wire, reply, historyVars>>

Rddi == OpenAgain \/ OpenNotReady \/ Open \/ OpenResetsConsumer \/ OpenResetsProducer
        \/ RddiClose \/ AccessRegister \/ ProbeCommand \/ Fill \/ Signal \/ Wake \/ Read

-----------------------------------------------------------------------------
(* The proxy's steps that touch the pages.                                 *)

\* kill(), close() and close_socket_only() invalidate the response.
Withdraw ==
    /\ StopPage \/ Close \/ LostRetries
    /\ reply' = Invalid
    /\ withdrawn' = TRUE
    /\ calm' = FALSE
    /\ UNCHANGED <<rddiVars, page, wire>>

\* What the page holds now is sent, whoever signalled.
Send ==
    /\ SendOk
    /\ wire' = page
    /\ UNCHANGED <<rddiVars, page, reply, historyVars>>

\* The host answers what it was sent; an empty page is not a request.  The
\* response is checked against the count in the page as it is by then.
Receive ==
    /\ ReceiveOk
    /\ wire # None
    /\ reply' \in {wire, Fault}
    /\ UNCHANGED <<rddiVars, page, wire, historyVars>>

\* Every other step of the proxy.
Elsewhere ==
    /\ \/ CallStart \/ CallStop \/ StopFlags \/ StopSocket \/ StopContext \/ StopJoin
       \/ Start \/ DisableAutoReconnect
       \/ \E c \in Config : EnableAutoReconnect(c)
       \/ Network
       \/ Handlers
       \/ HandshakeOk \/ HandshakeFails \/ DeviceInfoOk \/ DeviceInfoFails
       \/ Publish \/ NotifyFlag \/ NotifyStatus \/ NotifyAll
       \/ TakeRequest \/ WokenToStop \/ SendFails \/ ReceiveFails \/ Answer \/ LostGivesUp
    /\ UNCHANGED linkVars

LinkNext == Rddi \/ Withdraw \/ Send \/ Receive \/ Elsewhere

LinkSpec == LinkInit /\ [][LinkNext]_allVars

\* The debugger's thread runs on once it is inside a function.
RddiFairness == WF_allVars(OpenResetsConsumer \/ OpenResetsProducer \/ Fill \/ Signal
                           \/ Wake \/ Read)

\* The host answers what it is asked, again and again if need be.
LinkFairSpec ==
    /\ LinkSpec
    /\ RddiFairness
    /\ WF_allVars(Elsewhere /\ MainThread)
    /\ WF_allVars(Elsewhere /\ ClosedUnderRead)
    /\ WF_allVars(Elsewhere /\ Stop)
    /\ WF_allVars(Withdraw)
    /\ WF_allVars(Send)
    /\ WF_allVars(Receive)

-----------------------------------------------------------------------------
(* Properties.                                                             *)

\* In step, the debugger never reads anything but the answer to the request
\* it has just made.
ReplyMatches == calm /\ dbg = "read" => reply \in {request, Fault}

\* In step, the producer page belongs to the proxy while it sends it: the
\* debugger is waiting and the page holds its request.
PageIsOwned ==
    calm /\ io \in {"send", "recv", "answer"} =>
        dbg = "wait" /\ page = request

\* What being in step means, as an inductive invariant: at most one event is
\* signalled, for a debugger that waits; nothing is sent that it did not ask
\* for; and what was sent, received and left to be read is its last request.
InStep ==
    calm =>
        /\ producer => dbg = "wait" /\ ~consumer
        /\ consumer => dbg = "wait" /\ reply \in {request, Fault}
        /\ io \in {"send", "recv", "answer"} => dbg = "wait" /\ ~producer /\ ~consumer
        /\ io \in {"recv", "answer"} => wire = request
        /\ io = "answer" => reply \in {request, Fault}
        /\ dbg \in {"signal", "wait", "read"} => page = request
        /\ dbg = "read" => reply \in {request, Fault}

\* A request made in step comes back, whatever happens to the connection
\* meanwhile: it is answered, or a withdrawal of the page releases its caller.
RequestReturns == dbg = "wait" /\ calm ~> dbg # "wait"

\* Waking up without an answer means the proxy withdrew the page after the
\* call had found it ready: no event of an earlier session wakes the debugger.
NoFalseWakeUp == dbg = "read" /\ reply = Invalid => withdrawn

\* el_proxy_stop returns: kill() gets the main thread out of every wait, so
\* that ~SocketClient's join comes to an end.
StopReturns == stopper = "flags" ~> stopper \in {"none", "create"}

\* The link is a proxy with one particular debugger.
ImplementsProxy == Spec
=============================================================================
