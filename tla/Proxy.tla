------------------------------- MODULE Proxy -------------------------------
(***************************************************************************)
(* The elaphureLink proxy: ProxyManager and the SocketClient it owns.      *)
(*                                                                         *)
(* Two threads of the proxy's process act on the client.  The application  *)
(* calls the exported functions (el_proxy_start_with_address, el_proxy_    *)
(* stop, the auto-reconnect setters); the main thread of the client runs   *)
(* io_context.run() and, inside the handlers run() dispatches, the         *)
(* handshake, the device information and the whole data phase.  They share *)
(* plain booleans, the io_context, the socket and the shared memory page.  *)
(* The debugger's process reaches the proxy only through that page and two *)
(* auto-reset events; here it may signal, wait and reset at any moment     *)
(* (module ElaphureLink gives it a program).                               *)
(*                                                                         *)
(* One step is the code between two points where another thread can make a *)
(* difference: a blocking call, or the write of a flag the other thread    *)
(* tests.  The program counters are io (main thread), starter (the caller  *)
(* inside start()'s condition wait) and stopper (a caller inside stop()).  *)
(***************************************************************************)
EXTENDS Integers

CONSTANTS
    Limits,           \* values of max_attempts the application uses, beside -1
    CountCap,         \* bound: the counter saturates here when unlimited
    Reconfigure,      \* TRUE: enable/disable may be called while a client runs
    StopDuringStart   \* TRUE: a second thread may stop while start() blocks

ASSUME ProxyAssumption ==
    /\ Limits \subseteq Nat
    /\ CountCap \in Nat \ {0}
    /\ \A l \in Limits : l =< CountCap
    /\ Reconfigure \in BOOLEAN
    /\ StopDuringStart \in BOOLEAN

Unlimited == -1

\* ReconnectConfig, reduced to the fields that decide whether to try again.
Config == [enabled : BOOLEAN, max : Limits \cup {Unlimited}]

DefaultConfig  == [enabled |-> TRUE,  max |-> Unlimited]
DisabledConfig == [enabled |-> FALSE, max |-> Unlimited]

VARIABLES
    \* ProxyManager
    client,       \* client_ is not null
    saved,        \* saved_reconnect_config_
    stopper,      \* where a caller of stop() is
    goal,         \* what that caller does afterwards: "stop" or "start"
    starter,      \* where the caller of start() is
    result,       \* what the last start_with_address returned
    \* SocketClient
    running,      \* is_running_
    postDone,     \* is_running_post_done_
    config,       \* reconnect_config_
    count,        \* current_reconnect_count_
    reconnecting, \* is_reconnecting_
    told,         \* the last status callback: connect ("up"), disconnect ("down")
    io,           \* where main_thread_ is
    outcome,      \* the status notify_connection_status is reporting
    pending,      \* the asynchronous operation in flight, or its handler
    closePosted,  \* a posted get_socket().close() waits in the io_context
    stopped,      \* the io_context is stopped
    sockOpen,     \* socket_ is open and connected
    \* shared memory and events
    ready,        \* info_page.is_proxy_ready
    producer,     \* k_producer_event is signalled
    consumer      \* k_consumer_event is signalled

managerVars == <<client, saved, stopper, goal, starter, result>>
clientVars  == <<running, postDone, config, count, reconnecting, told>>
ioVars      == <<io, outcome, pending, closePosted, stopped, sockOpen>>
sharedVars  == <<ready, producer, consumer>>
vars == <<managerVars, clientVars, ioVars, sharedVars>>

StopPc == {"none", "flags", "page", "socket", "context", "join", "create"}
StartPc == {"none", "check", "block", "asleep", "dangling"}
IoPc == {"none", "poll", "handshake", "info", "publish", "flag", "status", "notify",
         "wait", "send", "recv", "answer", "lost", "sched", "restart", "close", "ended"}
Pending == {"none", "connecting", "connected", "refused", "armed", "tick"}

TypeOK ==
    /\ client \in BOOLEAN
    /\ saved \in Config
    /\ stopper \in StopPc
    /\ goal \in {"stop", "start"}
    /\ starter \in StartPc
    /\ result \in {"none", "ok", "fail"}
    /\ running \in BOOLEAN
    /\ postDone \in BOOLEAN
    /\ config \in Config
    /\ count \in 0 .. CountCap
    /\ reconnecting \in BOOLEAN
    /\ told \in {"none", "up", "down"}
    /\ io \in IoPc
    /\ outcome \in {"up", "down"}
    /\ pending \in Pending
    /\ closePosted \in BOOLEAN
    /\ stopped \in BOOLEAN
    /\ sockOpen \in BOOLEAN
    /\ ready \in BOOLEAN
    /\ producer \in BOOLEAN
    /\ consumer \in BOOLEAN

Init ==
    /\ client = FALSE
    /\ saved = DefaultConfig
    /\ stopper = "none"
    /\ goal = "stop"
    /\ starter = "none"
    /\ result = "none"
    /\ running = FALSE
    /\ postDone = FALSE
    /\ config = DefaultConfig
    /\ count = 0
    /\ reconnecting = FALSE
    /\ told = "none"
    /\ io = "none"
    /\ outcome = "up"
    /\ pending = "none"
    /\ closePosted = FALSE
    /\ stopped = FALSE
    /\ sockOpen = FALSE
    /\ ready = FALSE
    /\ producer = FALSE
    /\ consumer = FALSE

-----------------------------------------------------------------------------
(* Helpers.                                                                *)

\* The main thread moves from one place of its program to another.
IoStep(from, to) == io = from /\ io' = to

\* Mutant: one attempt too many.
MutShouldAttempt == config.max = Unlimited \/ count =< config.max

\* should_attempt_reconnect(): unlimited, or fewer scheduled than allowed.
ShouldAttempt == config.max = Unlimited \/ count < config.max

\* The block kill(), close() and close_socket_only() share: not ready, no
\* valid response, and both waiters woken.
TakeDownPage ==
    /\ ready' = FALSE
    /\ producer' = TRUE
    /\ consumer' = TRUE

\* The fields of a client that does not exist (or was just constructed).
BlankClient ==
    /\ running' = FALSE
    /\ postDone' = FALSE
    /\ count' = 0
    /\ reconnecting' = FALSE
    /\ told' = "none"
    /\ outcome' = "up"
    /\ closePosted' = FALSE
    /\ stopped' = FALSE
    /\ sockOpen' = FALSE

-----------------------------------------------------------------------------
(* The application: ProxyManager.                                          *)

\* No exported function is in progress: they are documented thread unsafe.
ApiIdle == stopper = "none" /\ starter = "none"

\* el_proxy_start_with_address: its first act is stop().
CallStart ==
    /\ ApiIdle
    /\ stopper' = IF client THEN "flags" ELSE "create"
    /\ goal' = "start"
    /\ UNCHANGED <<client, saved, starter, result, clientVars, ioVars, sharedVars>>

\* el_proxy_stop, "at any time" when StopDuringStart.
CallStop ==
    /\ stopper = "none"
    /\ starter = "none" \/ (StopDuringStart /\ starter \in {"check", "block", "asleep"})
    /\ client
    /\ stopper' = "flags"
    /\ goal' = "stop"
    /\ UNCHANGED <<client, saved, starter, result, clientVars, ioVars, sharedVars>>

\* kill(): the flags, then the timer.  A timer that has already expired
\* keeps its successful completion in the queue.
StopFlags ==
    /\ stopper = "flags"
    /\ stopper' = "page"
    /\ running' = FALSE
    /\ reconnecting' = FALSE
    /\ pending' = IF pending = "armed" THEN "none" ELSE pending
    /\ UNCHANGED <<client, saved, goal, starter, result, postDone, config, count, told,
                   io, outcome, closePosted, stopped, sockOpen, sharedVars>>

StopPage ==
    /\ stopper = "page"
    /\ stopper' = "socket"
    /\ TakeDownPage
    /\ UNCHANGED <<client, saved, goal, starter, result, clientVars, ioVars>>

StopSocket ==
    /\ stopper = "socket"
    /\ stopper' = "context"
    /\ sockOpen' = FALSE
    /\ pending' = IF pending = "connecting" THEN "refused" ELSE pending
    /\ UNCHANGED <<client, saved, goal, starter, result, clientVars,
                   io, outcome, closePosted, stopped, sharedVars>>

StopContext ==
    /\ stopper = "context"
    /\ stopper' = "join"
    /\ stopped' = TRUE
    /\ UNCHANGED <<client, saved, goal, starter, result, clientVars,
                   io, outcome, pending, closePosted, sockOpen, sharedVars>>

\* Mutant: the main thread is detached, not joined.
MutStopJoin ==
    /\ stopper = "join"
    /\ stopper' = IF goal = "start" THEN "create" ELSE "none"
    /\ client' = FALSE
    /\ starter' = IF starter = "none" THEN "none" ELSE "dangling"
    /\ io' = "none"
    /\ pending' = "none"
    /\ BlankClient
    /\ UNCHANGED <<saved, goal, result, config, sharedVars>>

\* client_.reset(): ~SocketClient joins the main thread.  A caller still
\* inside start() is left waiting on a destroyed condition variable.
StopJoin ==
    /\ stopper = "join"
    /\ io \in {"none", "ended"}
    /\ stopper' = IF goal = "start" THEN "create" ELSE "none"
    /\ client' = FALSE
    /\ starter' = IF starter = "none" THEN "none" ELSE "dangling"
    /\ io' = "none"
    /\ pending' = "none"
    /\ BlankClient
    /\ UNCHANGED <<saved, goal, result, config, sharedVars>>

\* The new client: only an enabled saved configuration is applied to it.
FreshConfig == IF saved.enabled THEN saved ELSE DefaultConfig

\* init_socket fails to resolve the address: the client stays, unstarted.
CreateUnresolved ==
    /\ stopper = "create"
    /\ stopper' = "none"
    /\ client' = TRUE
    /\ result' = "fail"
    /\ config' = FreshConfig
    /\ BlankClient
    /\ UNCHANGED <<saved, goal, starter, io, pending, sharedVars>>

\* init_socket succeeds and start() launches the connection and the thread.
CreateAndStart ==
    /\ stopper = "create"
    /\ stopper' = "none"
    /\ client' = TRUE
    /\ starter' = "check"
    /\ config' = FreshConfig
    /\ running' = TRUE
    /\ postDone' = FALSE
    /\ count' = 0
    /\ reconnecting' = FALSE
    /\ told' = "none"
    /\ outcome' = "up"
    /\ io' = "poll"
    /\ pending' = "connecting"
    /\ closePosted' = FALSE
    /\ stopped' = FALSE
    /\ sockOpen' = FALSE
    /\ UNCHANGED <<saved, goal, result, sharedVars>>

\* running_cv_.wait: the predicate holds, and start() returns !is_running_.
StartReturns ==
    /\ starter = "check"
    /\ postDone
    /\ starter' = "none"
    /\ result' = IF running THEN "ok" ELSE "fail"
    /\ UNCHANGED <<client, saved, stopper, goal, clientVars, ioVars, sharedVars>>

\* The predicate is false: the caller is about to block.  The main thread
\* does not take the mutex, so it can notify before the caller sleeps.
StartBlocks ==
    /\ starter = "check"
    /\ ~postDone
    /\ starter' = "block"
    /\ UNCHANGED <<client, saved, stopper, goal, result, clientVars, ioVars, sharedVars>>

StartSleeps ==
    /\ starter = "block"
    /\ starter' = "asleep"
    /\ UNCHANGED <<client, saved, stopper, goal, result, clientVars, ioVars, sharedVars>>

\* A condition variable may wake its waiter for no reason.
StartWakesSpuriously ==
    /\ starter = "asleep"
    /\ starter' = "check"
    /\ UNCHANGED <<client, saved, stopper, goal, result, clientVars, ioVars, sharedVars>>

\* enable_auto_reconnect and disable_auto_reconnect.
SetReconnectConfig(c) ==
    /\ ApiIdle
    /\ ~client \/ Reconfigure
    /\ saved' = c
    /\ config' = IF client THEN c ELSE config
    /\ UNCHANGED <<client, stopper, goal, starter, result, running, postDone, count,
                   reconnecting, told, ioVars, sharedVars>>

EnableAutoReconnect(c) == SetReconnectConfig(c)
DisableAutoReconnect == SetReconnectConfig(DisabledConfig)

-----------------------------------------------------------------------------
(* The network and the timer.                                              *)

\* async_connect completes; its handler waits for the main thread.
ConnectSucceeds ==
    /\ pending = "connecting"
    /\ pending' = "connected"
    /\ sockOpen' = TRUE
    /\ UNCHANGED <<managerVars, clientVars, io, outcome, closePosted, stopped, sharedVars>>

ConnectFails ==
    /\ pending = "connecting"
    /\ pending' = "refused"
    /\ UNCHANGED <<managerVars, clientVars, io, outcome, closePosted, stopped, sockOpen,
                   sharedVars>>

TimerExpires ==
    /\ pending = "armed"
    /\ pending' = "tick"
    /\ UNCHANGED <<managerVars, clientVars, io, outcome, closePosted, stopped, sockOpen,
                   sharedVars>>

-----------------------------------------------------------------------------
(* The main thread: io_context.run() and its handlers.                     *)

\* run() dispatches handlers in the order they were queued: a posted close
\* was queued before the operation started after it.
Dispatches == io = "poll" /\ ~stopped
DispatchesOperation(p) == Dispatches /\ ~closePosted /\ pending = p

\* run() returns: the context is stopped or has no work left.
RunReturns ==
    /\ io = "poll"
    /\ stopped \/ (pending = "none" /\ ~closePosted)
    /\ io' = "ended"
    /\ UNCHANGED <<managerVars, clientVars, outcome, pending, closePosted, stopped,
                   sockOpen, sharedVars>>

\* The lambda posted by close() and close_socket_only().
HandlePostedClose ==
    /\ Dispatches
    /\ closePosted
    /\ closePosted' = FALSE
    /\ sockOpen' = FALSE
    /\ UNCHANGED <<managerVars, clientVars, io, outcome, pending, stopped, sharedVars>>

\* do_connect's handler on success: the counter starts again, then the
\* handshake.
HandleConnected ==
    /\ DispatchesOperation("connected")
    /\ sockOpen
    /\ io' = "handshake"
    /\ pending' = "none"
    /\ count' = 0
    /\ reconnecting' = FALSE
    /\ UNCHANGED <<managerVars, running, postDone, config, told, outcome, closePosted,
                   stopped, sockOpen, sharedVars>>

\* set_option throws on a socket kill() has closed: run() is left by the
\* exception and the thread reports it, without is_running_post_done_.
HandleConnectedThrows ==
    /\ DispatchesOperation("connected")
    /\ ~sockOpen
    /\ io' = "ended"
    /\ pending' = "none"
    /\ running' = FALSE
    /\ told' = "down"
    /\ UNCHANGED <<managerVars, postDone, config, count, reconnecting, outcome,
                   closePosted, stopped, sockOpen, sharedVars>>

\* do_connect's handler on failure: try again, or report and close.
HandleRefusedRetries ==
    /\ DispatchesOperation("refused")
    /\ config.enabled /\ ShouldAttempt
    /\ io' = "sched"
    /\ pending' = "none"
    /\ UNCHANGED <<managerVars, clientVars, outcome, closePosted, stopped, sockOpen,
                   sharedVars>>

HandleRefusedGivesUp ==
    /\ DispatchesOperation("refused")
    /\ ~(config.enabled /\ ShouldAttempt)
    /\ io' = "flag"
    /\ outcome' = "down"
    /\ pending' = "none"
    /\ UNCHANGED <<managerVars, clientVars, closePosted, stopped, sockOpen, sharedVars>>

\* The timer's handler when the client stopped or auto-reconnect was
\* switched off meanwhile: nothing happens.
HandleTickIgnored ==
    /\ DispatchesOperation("tick")
    /\ ~running \/ ~config.enabled
    /\ pending' = "none"
    /\ UNCHANGED <<managerVars, clientVars, io, outcome, closePosted, stopped, sockOpen,
                   sharedVars>>

\* Mutant: giving up closes the client without reporting it.
MutHandleTickGivesUp ==
    /\ DispatchesOperation("tick")
    /\ running /\ config.enabled
    /\ ~ShouldAttempt
    /\ io' = "close"
    /\ outcome' = "down"
    /\ pending' = "none"
    /\ reconnecting' = FALSE
    /\ UNCHANGED <<managerVars, running, postDone, config, count, told, closePosted,
                   stopped, sockOpen, sharedVars>>

\* attempt_reconnect() with the attempts used up.
HandleTickGivesUp ==
    /\ DispatchesOperation("tick")
    /\ running /\ config.enabled
    /\ ~ShouldAttempt
    /\ io' = "flag"
    /\ outcome' = "down"
    /\ pending' = "none"
    /\ reconnecting' = FALSE
    /\ UNCHANGED <<managerVars, running, postDone, config, count, told, closePosted,
                   stopped, sockOpen, sharedVars>>

\* attempt_reconnect() past its guards.
HandleTickRetries ==
    /\ DispatchesOperation("tick")
    /\ running /\ config.enabled
    /\ ShouldAttempt
    /\ io' = "restart"
    /\ pending' = "none"
    /\ UNCHANGED <<managerVars, clientVars, outcome, closePosted, stopped, sockOpen,
                   sharedVars>>

\* Mutant: the new connection is started on the old socket.
MutRestart ==
    /\ IoStep("restart", "poll")
    /\ stopped' = FALSE
    /\ pending' = "connected"
    /\ UNCHANGED <<managerVars, clientVars, outcome, closePosted, sockOpen, sharedVars>>

\* The rest of attempt_reconnect(): a stopped context is restarted, a new
\* socket replaces the old one and do_connect starts.
Restart ==
    /\ IoStep("restart", "poll")
    /\ stopped' = FALSE
    /\ sockOpen' = FALSE
    /\ pending' = "connecting"
    /\ UNCHANGED <<managerVars, clientVars, outcome, closePosted, sharedVars>>

\* Mutants: the timer is set up but never waited for; the counter runs down.
MutScheduleNoTimer ==
    /\ IoStep("sched", "poll")
    /\ count' = IF count < CountCap THEN count + 1 ELSE count
    /\ reconnecting' = TRUE
    /\ UNCHANGED <<managerVars, running, postDone, config, told, outcome, pending,
                   closePosted, stopped, sockOpen, sharedVars>>

MutScheduleDown ==
    /\ IoStep("sched", "poll")
    /\ count' = count - 1
    /\ reconnecting' = TRUE
    /\ pending' = "armed"
    /\ UNCHANGED <<managerVars, running, postDone, config, told, outcome, closePosted,
                   stopped, sockOpen, sharedVars>>

\* schedule_reconnect(): count, announce and arm the timer.
Schedule ==
    /\ IoStep("sched", "poll")
    /\ count' = IF count < CountCap THEN count + 1 ELSE count
    /\ reconnecting' = TRUE
    /\ pending' = "armed"
    /\ UNCHANGED <<managerVars, running, postDone, config, told, outcome, closePosted,
                   stopped, sockOpen, sharedVars>>

-----------------------------------------------------------------------------
(* The main thread: handshake, device information, data phase.             *)

\* A blocking write or read works only on an open socket; it may fail on
\* any socket, and so may the checks on what was read.
BlockingOk(from, to) ==
    /\ sockOpen
    /\ IoStep(from, to)
    /\ UNCHANGED <<managerVars, clientVars, outcome, pending, closePosted, stopped,
                   sockOpen, sharedVars>>

BlockingFails(from) ==
    /\ IoStep(from, "lost")
    /\ UNCHANGED <<managerVars, clientVars, outcome, pending, closePosted, stopped,
                   sockOpen, sharedVars>>

HandshakeOk == BlockingOk("handshake", "info")
HandshakeFails == BlockingFails("handshake")

\* The four DAP_Info exchanges; one failing is enough to lose the session.
DeviceInfoOk == BlockingOk("info", "publish")

\* Mutant: a failed exchange is not returned from.
MutDeviceInfoFails ==
    /\ IoStep("info", "wait")
    /\ UNCHANGED <<managerVars, clientVars, outcome, pending, closePosted, stopped,
                   sockOpen, sharedVars>>

DeviceInfoFails == BlockingFails("info")

Publish ==
    /\ IoStep("publish", "flag")
    /\ ready' = TRUE
    /\ outcome' = "up"
    /\ UNCHANGED <<managerVars, clientVars, pending, closePosted, stopped, sockOpen,
                   producer, consumer>>

\* Mutant: only a success releases the caller of start().
MutNotifyFlag ==
    /\ IoStep("flag", "status")
    /\ postDone' = (postDone \/ outcome = "up")
    /\ UNCHANGED <<managerVars, running, config, count, reconnecting, told, outcome,
                   pending, closePosted, stopped, sockOpen, sharedVars>>

\* notify_connection_status: is_running_post_done_, then is_running_ and the
\* callback, then notify_all, none of them under the mutex.
NotifyFlag ==
    /\ IoStep("flag", "status")
    /\ postDone' = TRUE
    /\ UNCHANGED <<managerVars, running, config, count, reconnecting, told, outcome,
                   pending, closePosted, stopped, sockOpen, sharedVars>>

NotifyStatus ==
    /\ IoStep("status", "notify")
    /\ running' = (outcome = "up")
    /\ told' = outcome
    /\ UNCHANGED <<managerVars, postDone, config, count, reconnecting, outcome, pending,
                   closePosted, stopped, sockOpen, sharedVars>>

NotifyAll ==
    /\ io = "notify"
    /\ io' = IF outcome = "up" THEN "wait" ELSE "close"
    /\ starter' = IF starter = "asleep" THEN "check" ELSE starter
    /\ UNCHANGED <<client, saved, stopper, goal, result, clientVars, outcome, pending,
                   closePosted, stopped, sockOpen, sharedVars>>

\* Mutant: the page stays ready after a final failure.
MutClose ==
    /\ IoStep("close", "poll")
    /\ running' = IF ~config.enabled \/ ~reconnecting THEN FALSE ELSE running
    /\ producer' = TRUE
    /\ consumer' = TRUE
    /\ closePosted' = TRUE
    /\ UNCHANGED <<managerVars, postDone, config, count, reconnecting, told, outcome,
                   pending, stopped, sockOpen, ready>>

\* close() after a final failure.
Close ==
    /\ IoStep("close", "poll")
    /\ running' = IF ~config.enabled \/ ~reconnecting THEN FALSE ELSE running
    /\ TakeDownPage
    /\ closePosted' = TRUE
    /\ UNCHANGED <<managerVars, postDone, config, count, reconnecting, told, outcome,
                   pending, stopped, sockOpen>>

\* Mutant: the producer event is not an auto-reset event.
MutTakeRequest ==
    /\ IoStep("wait", "send")
    /\ producer
    /\ running
    /\ UNCHANGED <<managerVars, clientVars, outcome, pending, closePosted, stopped,
                   sockOpen, sharedVars>>

\* do_data_process: WaitForSingleObject(k_producer_event, INFINITE).
TakeRequest ==
    /\ IoStep("wait", "send")
    /\ producer
    /\ running
    /\ producer' = FALSE
    /\ UNCHANGED <<managerVars, clientVars, outcome, pending, closePosted, stopped,
                   sockOpen, ready, consumer>>

WokenToStop ==
    /\ IoStep("wait", "poll")
    /\ producer
    /\ ~running
    /\ producer' = FALSE
    /\ UNCHANGED <<managerVars, clientVars, outcome, pending, closePosted, stopped,
                   sockOpen, ready, consumer>>

\* The request is written; the response is read and parsed, an unknown
\* command in it being one more way to lose the connection.
SendOk == BlockingOk("send", "recv")
SendFails == BlockingFails("send")
ReceiveOk == BlockingOk("recv", "answer")
ReceiveFails == BlockingFails("recv")

\* Mutant: the debugger is not woken for a response.
MutAnswer ==
    /\ IoStep("answer", "wait")
    /\ UNCHANGED <<managerVars, clientVars, outcome, pending, closePosted, stopped,
                   sockOpen, sharedVars>>

Answer ==
    /\ IoStep("answer", "wait")
    /\ consumer' = TRUE
    /\ UNCHANGED <<managerVars, clientVars, outcome, pending, closePosted, stopped,
                   sockOpen, ready, producer>>

\* Mutant: the page is not withdrawn while reconnecting.
MutLostRetries ==
    /\ IoStep("lost", "sched")
    /\ config.enabled /\ ShouldAttempt /\ running
    /\ closePosted' = TRUE
    /\ UNCHANGED <<managerVars, clientVars, outcome, pending, stopped, sockOpen,
                   sharedVars>>

\* on_connection_lost: close_socket_only() and schedule, or give up.
LostRetries ==
    /\ IoStep("lost", "sched")
    /\ config.enabled /\ ShouldAttempt /\ running
    /\ TakeDownPage
    /\ closePosted' = TRUE
    /\ UNCHANGED <<managerVars, clientVars, outcome, pending, stopped, sockOpen>>

LostGivesUp ==
    /\ IoStep("lost", "flag")
    /\ ~(config.enabled /\ ShouldAttempt /\ running)
    /\ outcome' = "down"
    /\ reconnecting' = FALSE
    /\ UNCHANGED <<managerVars, running, postDone, config, count, told, pending,
                   closePosted, stopped, sockOpen, sharedVars>>

-----------------------------------------------------------------------------
(* The debugger's process, reduced to what it can do to the events.        *)

DebuggerSignals ==
    /\ producer' = TRUE
    /\ UNCHANGED <<managerVars, clientVars, ioVars, ready, consumer>>

DebuggerWakes ==
    /\ consumer
    /\ consumer' = FALSE
    /\ UNCHANGED <<managerVars, clientVars, ioVars, ready, producer>>

DebuggerResetsConsumer ==
    /\ consumer' = FALSE
    /\ UNCHANGED <<managerVars, clientVars, ioVars, ready, producer>>

DebuggerResetsProducer ==
    /\ producer' = FALSE
    /\ UNCHANGED <<managerVars, clientVars, ioVars, ready, consumer>>

-----------------------------------------------------------------------------

Stop == StopFlags \/ StopPage \/ StopSocket \/ StopContext \/ StopJoin
Start == CreateUnresolved \/ CreateAndStart \/ StartReturns \/ StartBlocks
         \/ StartSleeps \/ StartWakesSpuriously
Application ==
    \/ CallStart \/ CallStop \/ Stop \/ Start
    \/ \E c \in Config : EnableAutoReconnect(c)
    \/ DisableAutoReconnect

Network == ConnectSucceeds \/ ConnectFails \/ TimerExpires

Handlers ==
    \/ RunReturns \/ HandlePostedClose \/ HandleConnected \/ HandleConnectedThrows
    \/ HandleRefusedRetries \/ HandleRefusedGivesUp
    \/ HandleTickIgnored \/ HandleTickGivesUp \/ HandleTickRetries
    \/ Restart \/ Schedule

Session ==
    \/ HandshakeOk \/ HandshakeFails \/ DeviceInfoOk \/ DeviceInfoFails
    \/ Publish \/ NotifyFlag \/ NotifyStatus \/ NotifyAll \/ Close
    \/ TakeRequest \/ WokenToStop \/ SendOk \/ SendFails
    \/ ReceiveOk \/ ReceiveFails \/ Answer
    \/ LostRetries \/ LostGivesUp

ProxyStep == Application \/ Network \/ Handlers \/ Session
Debugger == DebuggerSignals \/ DebuggerWakes \/ DebuggerResetsConsumer
            \/ DebuggerResetsProducer

Next == ProxyStep \/ Debugger

Spec == Init /\ [][Next]_vars

(***************************************************************************)
(* Fairness.  The operating system runs a runnable thread, completes a     *)
(* connection attempt and fires a timer.  A blocking read ends by itself   *)
(* only when the socket was closed under it.  A host that is asked again   *)
(* and again answers in the end: that is an assumption on the network, and *)
(* the only one stronger than weak fairness.  The application calls what it likes.*)
(***************************************************************************)
MainThread ==
    \/ Handlers \/ Publish \/ NotifyFlag \/ NotifyStatus \/ NotifyAll \/ Close
    \/ TakeRequest \/ WokenToStop \/ Answer \/ LostRetries \/ LostGivesUp

ClosedUnderRead ==
    ~sockOpen /\ (HandshakeFails \/ DeviceInfoFails \/ SendFails \/ ReceiveFails)

ThreadFairness ==
    /\ WF_vars(MainThread)
    /\ WF_vars(ClosedUnderRead)
    /\ WF_vars(Stop)
    /\ WF_vars(CreateUnresolved \/ CreateAndStart \/ StartReturns \/ StartBlocks \/ StartSleeps)
    /\ WF_vars(ConnectSucceeds \/ ConnectFails)
    /\ WF_vars(TimerExpires)

HostFairness ==
    /\ SF_vars(ConnectSucceeds)
    /\ SF_vars(HandshakeOk)
    /\ SF_vars(DeviceInfoOk)

FairSpec == Spec /\ ThreadFairness /\ HostFairness

-----------------------------------------------------------------------------
(* Properties.                                                             *)

\* Where the main thread is between making the page ready and clearing it.
Exchanging == {"wait", "send", "recv", "answer"}
Serving == Exchanging \cup {"flag", "status", "notify", "lost", "close"}

\* The debugger never finds the page ready without a main thread that will
\* clear it: ready is published before the data phase and withdrawn on
\* every way out of it.  The one gap is the return taken because kill() has
\* cleared is_running_ and is about to clear the page itself.
ReadyHasAThread == ready => io \in Serving \/ stopper = "page"

\* After el_proxy_stop returned the page is not ready, whatever the main
\* thread was doing when kill() wrote it (it may publish after that).
QuietWhenStopped == ~client => ~ready /\ io = "none"

\* A data phase nobody is stopping has been announced everywhere: the page,
\* is_running_, the connect callback and the flag start() waits for.
SessionAnnounced ==
    io \in Exchanging /\ stopper = "none" =>
        ready /\ running /\ told = "up" /\ postDone

\* A caller blocked in start() always has a main thread left to notify it,
\* unless the result is already posted.
StartNotStranded ==
    starter # "none" /\ stopper = "none" /\ io = "ended" => postDone

\* run() comes to an end by itself only after a final failure was reported:
\* is_proxy_running is false, the disconnect callback ran, the page is down.
EndedIsReported ==
    client /\ stopper = "none" /\ io = "ended" =>
        ~running /\ told = "down" /\ ~ready

\* The attempt counter never exceeds max_attempts.
CountWithinLimit == config.max # Unlimited => count =< config.max

\* A lost connection ends in a new data phase, in the disconnect callback or
\* in a stop: auto-reconnect neither stalls nor retries silently for ever.
Recovers ==
    io = "lost" /\ stopper = "none" ~>
        io = "wait" \/ told = "down" \/ stopper # "none"

\* Once kill() has stopped the io_context no new connection is attempted.
NoConnectAfterStop ==
    [][stopper = "join" => ~(pending # "connecting" /\ pending' = "connecting")]_vars

\* An attempt announced to the application is made: the timer of a running,
\* enabled client leads to a connection attempt.
AnnouncedAttemptIsMade ==
    [][pending = "tick" /\ pending' = "none" /\ running /\ config.enabled /\ ~stopped
         => io' = "restart"]_vars

\* With auto-reconnect disabled by the application no reconnection is made.
DisabledMeansDisabled == [][io # "restart" /\ io' = "restart" => saved.enabled]_vars

-----------------------------------------------------------------------------
(* The inductive invariant: what the proofs need besides the properties.   *)

Running == {"poll", "handshake", "info", "publish", "flag", "lost", "sched", "restart"}

\* Who owns the client while stop() is at work.
StopDiscipline ==
    /\ stopper \in {"flags", "page", "socket", "context", "join"} => client
    /\ stopper = "create" => ~client /\ goal = "start"
    /\ stopper # "none" /\ goal = "start" => starter = "none"
    /\ starter = "dangling" => ~client

\* The data phase sees is_running_ cleared on a ready page only while kill()
\* is between its flags and the page.
KillClearsThePage ==
    /\ ready /\ ~running
    /\ io \in Exchanging \/ (io = "notify" /\ outcome = "up")
    => stopper = "page"

\* How far the announcement of a new session has come.
Announcing ==
    stopper = "none" /\ outcome = "up" =>
        /\ io \in {"flag", "status", "notify"} => ready
        /\ io \in {"status", "notify"} => postDone
        /\ io = "notify" => running /\ told = "up"

\* Without a stop under way run() is not stopped and has one operation at a
\* time, on a socket that nothing closes under it.
OneOperation ==
    /\ ~client => pending = "none" /\ told = "none"
    /\ client /\ stopper = "none" =>
        /\ ~stopped
        /\ io # "poll" => pending = "none"
        /\ pending = "connected" => sockOpen
        /\ pending \in {"connecting", "connected"} \/ io = "restart" => ~closePosted

\* Without a stop under way nothing is left to do after the disconnect
\* callback but to withdraw the page, and nothing withdraws it for good before.
FailureIsFinal ==
    client /\ stopper = "none" =>
        /\ told = "down" => io \in {"notify", "close", "poll", "ended"} /\ pending = "none"
        /\ io = "close" \/ (io = "notify" /\ outcome = "down") => told = "down"

\* While start() has nothing to return yet, run() has work.
WorkLeft ==
    starter \in {"check", "block", "asleep"} /\ stopper = "none" /\ ~postDone =>
        /\ client
        /\ io \in Running
        /\ running /\ config.enabled
        /\ io = "poll" => pending # "none"

\* Inductive; it implies the safety properties of this module.
Inductive ==
    /\ TypeOK
    /\ StopDiscipline
    /\ QuietWhenStopped
    /\ ReadyHasAThread
    /\ KillClearsThePage
    /\ Announcing
    /\ SessionAnnounced
    /\ OneOperation
    /\ FailureIsFinal
    /\ WorkLeft

-----------------------------------------------------------------------------
(* Refinement: the client's many places are five phases.                   *)

Failed == io = "none" \/ (told = "down" /\ io \in {"poll", "ended"})

Phase ==
    IF ~client THEN "off"
    ELSE IF stopper # "none" THEN "stopping"
    ELSE IF Failed THEN "over"
    ELSE IF ready THEN "serving"
    ELSE "trying"

Lifecycle == INSTANCE ProxyLifecycle WITH phase <- Phase

\* The proxy implements its abstract lifecycle: a reported failure is final
\* until the next start, the page is ready only while a client serves, and a
\* stop is over only when the page has been withdrawn for good.
ImplementsLifecycle == Lifecycle!Spec
=============================================================================
