------------------------ MODULE ElaphureLink_proofs ------------------------
(***************************************************************************)
(* Proofs about the link, for every value of its constants.  Every step of *)
(* the link is a step of the proxy, so what Proxy_proofs shows of the      *)
(* proxy holds of the link.  InStep is inductive by itself and carries     *)
(* what the debugger may rely on.                                          *)
(***************************************************************************)
EXTENDS ElaphureLink, Proxy_proofs

-----------------------------------------------------------------------------
(* The link implements the proxy.                                          *)

\* What the steps of the debugger and of the two pages are for the proxy.
LEMMA LinkStepIsProxyStep == [LinkNext]_allVars => [Next]_vars
<1>1. ASSUME Rddi PROVE [Next]_vars
    BY <1>1 DEF Rddi, OpenAgain, OpenNotReady, Open, OpenResetsConsumer,
       OpenResetsProducer, RddiClose, AccessRegister, ProbeCommand, Fill, Signal,
       Wake, Read, Next, Debugger
<1>2. ASSUME Withdraw PROVE [Next]_vars
    BY <1>2 DEF Withdraw, Next, ProxyStep, Session, Application, Stop
<1>3. ASSUME Send PROVE [Next]_vars
    BY <1>3 DEF Send, Next, ProxyStep, Session
<1>4. ASSUME Receive PROVE [Next]_vars
    BY <1>4 DEF Receive, Next, ProxyStep, Session
<1>5. ASSUME Elsewhere PROVE [Next]_vars
    BY <1>5 DEF Elsewhere, Next, ProxyStep, Session, Application, Stop
<1>6. UNCHANGED allVars => UNCHANGED vars
    BY DEF allVars
<1>7. QED
    BY <1>1, <1>2, <1>3, <1>4, <1>5, <1>6 DEF LinkNext

\* The link is a proxy with one particular debugger.
THEOREM ProxyImplemented == LinkSpec => ImplementsProxy
<1>1. LinkInit => Init
    BY DEF LinkInit
<1>2. [LinkNext]_allVars => [Next]_vars
    BY LinkStepIsProxyStep
<1>3. QED
    BY <1>1, <1>2, PTL DEF LinkSpec, ImplementsProxy, Spec

\* All that is proved of the proxy's safety holds of the link.
COROLLARY LinkInductiveCorrect == LinkSpec => []Inductive
BY ProxyImplemented, InductiveCorrect, PTL DEF ImplementsProxy

-----------------------------------------------------------------------------
(* Type correctness.                                                       *)

\* What the numbers of requests and replies need to know.
LEMMA RequestFacts ==
    /\ 0 \in 0 .. Requests
    /\ \A n \in 0 .. Requests : (n % Requests) + 1 \in 0 .. Requests
BY LinkAssumption DEF LinkAssumption

\* The link starts well-typed.
LEMMA LinkTypeInit == LinkInit => LinkTypeOK
BY TypeInit, RequestFacts DEF LinkInit, LinkTypeOK, DbgPc, None

\* Every step of the link keeps the types.
LEMMA LinkTypeStep ==
    ASSUME LinkTypeOK, [LinkNext]_allVars
    PROVE  LinkTypeOK'
<1>1. TypeOK'
    BY TypeStep, LinkStepIsProxyStep DEF LinkTypeOK
<1> USE RequestFacts DEF LinkTypeOK, DbgPc, rddiVars, historyVars, DbgStep
<1>2. CASE Rddi
  <2>1. CASE OpenAgain
      BY <1>1, <2>1 DEF OpenAgain
  <2>2. CASE OpenNotReady
      BY <1>1, <2>2 DEF OpenNotReady
  <2>3. CASE Open
      BY <1>1, <2>3 DEF Open
  <2>4. CASE OpenResetsConsumer
      BY <1>1, <2>4 DEF OpenResetsConsumer
  <2>5. CASE OpenResetsProducer
      BY <1>1, <2>5 DEF OpenResetsProducer
  <2>6. CASE RddiClose
      BY <1>1, <2>6 DEF RddiClose
  <2>7. CASE AccessRegister
      BY <1>1, <2>7 DEF AccessRegister
  <2>8. CASE ProbeCommand
      BY <1>1, <2>8 DEF ProbeCommand, ValidHandle, TypeOK
  <2>9. CASE Fill
    <3>1. request' \in 0 .. Requests /\ page' \in 0 .. Requests
        BY <2>9 DEF Fill
    <3>2. QED
        BY <1>1, <2>9, <3>1 DEF Fill
  <2>10. CASE Signal
      BY <1>1, <2>10 DEF Signal
  <2>11. CASE Wake
      BY <1>1, <2>11 DEF Wake
  <2>12. CASE Read
      BY <1>1, <2>12 DEF Read
  <2>13. QED
      BY <1>2, <2>1, <2>2, <2>3, <2>4, <2>5, <2>6, <2>7, <2>8, <2>9, <2>10, <2>11,
         <2>12 DEF Rddi
<1>3. CASE Withdraw
    BY <1>1, <1>3 DEF Withdraw
<1>4. CASE Send
    BY <1>1, <1>4 DEF Send
<1>5. CASE Receive
    BY <1>1, <1>5 DEF Receive
<1>6. CASE Elsewhere
    BY <1>1, <1>6 DEF Elsewhere, linkVars
<1>7. CASE UNCHANGED allVars
    BY <1>1, <1>7 DEF allVars, linkVars
<1>8. QED
    BY <1>2, <1>3, <1>4, <1>5, <1>6, <1>7 DEF LinkNext

\* The variables of the link keep their types.
THEOREM LinkTypeCorrect == LinkSpec => []LinkTypeOK
<1>1. LinkInit => LinkTypeOK
    BY LinkTypeInit
<1>2. LinkTypeOK /\ [LinkNext]_allVars => LinkTypeOK'
    BY LinkTypeStep
<1>3. QED
    BY <1>1, <1>2, PTL DEF LinkSpec

-----------------------------------------------------------------------------
(* The two sides in step.                                                  *)

\* Nobody has asked anything yet.
LEMMA InStepInit == LinkInit => InStep
BY DEF LinkInit, InStep, Init

\* The debugger asks once and reads once.
LEMMA InStepRddi ==
    ASSUME LinkTypeOK, InStep, Rddi
    PROVE  InStep'
<1> USE DEF InStep, DbgStep, vars, managerVars, clientVars, ioVars, sharedVars, historyVars
<1>1. CASE OpenAgain
    BY <1>1 DEF OpenAgain
<1>2. CASE OpenNotReady
    BY <1>2 DEF OpenNotReady
<1>3. CASE Open
    BY <1>3 DEF Open
<1>4. CASE OpenResetsConsumer
    BY <1>4 DEF OpenResetsConsumer, DebuggerResetsConsumer
<1>5. CASE OpenResetsProducer
    BY <1>5 DEF OpenResetsProducer, DebuggerResetsProducer
<1>6. CASE RddiClose
    BY <1>6 DEF RddiClose
<1>7. CASE AccessRegister
    BY <1>7 DEF AccessRegister
<1>8. CASE ProbeCommand
    BY <1>8 DEF ProbeCommand
<1>9. CASE Fill
    BY <1>9 DEF Fill
<1>10. CASE Signal
    BY <1>10 DEF Signal, DebuggerSignals
<1>11. CASE Wake
    BY <1>11 DEF Wake, DebuggerWakes
<1>12. CASE Read
    BY <1>12 DEF Read
<1>13. QED
    BY <1>1, <1>2, <1>3, <1>4, <1>5, <1>6, <1>7, <1>8, <1>9, <1>10, <1>11, <1>12 DEF Rddi

\* What the proxy does elsewhere: it takes a request from the debugger that
\* made it, and answers the one it has received.
LEMMA InStepElsewhere ==
    ASSUME InStep, Elsewhere
    PROVE  InStep'
<1> USE DEF Elsewhere, InStep, managerVars, clientVars, ioVars, sharedVars, linkVars,
        rddiVars, historyVars, IoStep
<1>1. CASE UNCHANGED <<producer, consumer>> /\ io' \notin {"send", "recv", "answer"}
    BY <1>1
<1>2. CASE UNCHANGED <<producer, consumer, io>>
    BY <1>2
<1>3. CASE CallStart \/ CallStop \/ StopFlags \/ StopSocket \/ StopContext
    BY <1>2, <1>3 DEF CallStart, CallStop, StopFlags, StopSocket, StopContext
<1>4. CASE StopJoin
    BY <1>1, <1>4 DEF StopJoin
<1>5. CASE Start
  <2>1. CASE CreateUnresolved
      BY <1>2, <2>1 DEF CreateUnresolved
  <2>2. CASE CreateAndStart
      BY <1>1, <2>2 DEF CreateAndStart
  <2>3. CASE StartReturns \/ StartBlocks \/ StartSleeps \/ StartWakesSpuriously
      BY <1>2, <2>3 DEF StartReturns, StartBlocks, StartSleeps, StartWakesSpuriously
  <2>4. QED
      BY <1>5, <2>1, <2>2, <2>3 DEF Start
<1>6. CASE DisableAutoReconnect \/ \E c \in Config : EnableAutoReconnect(c)
    BY <1>2, <1>6 DEF DisableAutoReconnect, EnableAutoReconnect, SetReconnectConfig
<1>7. CASE Network
    BY <1>2, <1>7 DEF Network, ConnectSucceeds, ConnectFails, TimerExpires
<1>8. CASE Handlers
  <2>1. UNCHANGED <<producer, consumer>> /\ (io' \notin {"send", "recv", "answer"} \/ io' = io)
      BY <1>8 DEF Handlers, RunReturns, HandlePostedClose, HandleConnected,
         HandleConnectedThrows, HandleRefusedRetries, HandleRefusedGivesUp,
         HandleTickIgnored, HandleTickGivesUp, HandleTickRetries, Restart, Schedule
  <2>2. QED
      BY <1>1, <1>2, <2>1
<1>9. CASE HandshakeOk \/ DeviceInfoOk
    BY <1>1, <1>9 DEF HandshakeOk, DeviceInfoOk, BlockingOk
<1>10. CASE HandshakeFails \/ DeviceInfoFails \/ SendFails \/ ReceiveFails
    BY <1>1, <1>10 DEF HandshakeFails, DeviceInfoFails, SendFails, ReceiveFails,
       BlockingFails
<1>11. CASE Publish \/ NotifyFlag \/ NotifyStatus \/ NotifyAll \/ LostGivesUp
    BY <1>1, <1>11 DEF Publish, NotifyFlag, NotifyStatus, NotifyAll, LostGivesUp
<1>12. CASE TakeRequest
    BY <1>12 DEF TakeRequest
<1>13. CASE WokenToStop
    BY <1>13 DEF WokenToStop
<1>14. CASE Answer
    BY <1>14 DEF Answer
<1>15. QED
    BY <1>3, <1>4, <1>5, <1>6, <1>7, <1>8, <1>9, <1>10, <1>11, <1>12, <1>13, <1>14

\* Every step of the link keeps the two sides in step or gives it up.
LEMMA InStepStep ==
    ASSUME LinkTypeOK, InStep, [LinkNext]_allVars
    PROVE  InStep'
<1>1. CASE Rddi
    BY <1>1, InStepRddi
<1>2. CASE Withdraw
    BY <1>2 DEF Withdraw, InStep
<1>3. CASE Send
    BY <1>3 DEF Send, SendOk, BlockingOk, IoStep, InStep, sharedVars, rddiVars, historyVars
<1>4. CASE Receive
    BY <1>4 DEF Receive, ReceiveOk, BlockingOk, IoStep, InStep, sharedVars, rddiVars,
       historyVars
<1>5. CASE Elsewhere
    BY <1>5, InStepElsewhere
<1>6. CASE UNCHANGED allVars
    BY <1>6 DEF allVars, vars, ioVars, sharedVars, linkVars, rddiVars, historyVars, InStep
<1>7. QED
    BY <1>1, <1>2, <1>3, <1>4, <1>5, <1>6 DEF LinkNext

\* While in step the events, the pages and the wire fit the debugger's place.
THEOREM InStepCorrect == LinkSpec => []InStep
<1>1. LinkInit => LinkTypeOK /\ InStep
    BY LinkTypeInit, InStepInit
<1>2. LinkTypeOK /\ InStep /\ [LinkNext]_allVars => LinkTypeOK' /\ InStep'
    BY LinkTypeStep, InStepStep
<1>3. QED
    BY <1>1, <1>2, PTL DEF LinkSpec

\* In step the debugger never reads anything but the answer to the request it
\* has just made.
THEOREM ReplyMatchesCorrect == LinkSpec => []ReplyMatches
<1>1. InStep => ReplyMatches
    BY DEF InStep, ReplyMatches
<1>2. QED
    BY <1>1, InStepCorrect, PTL

\* In step the request page is not rewritten while the proxy sends it.
THEOREM PageIsOwnedCorrect == LinkSpec => []PageIsOwned
<1>1. InStep => PageIsOwned
    BY DEF InStep, PageIsOwned
<1>2. QED
    BY <1>1, InStepCorrect, PTL
=============================================================================
