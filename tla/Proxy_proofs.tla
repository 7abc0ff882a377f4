---------------------------- MODULE Proxy_proofs ----------------------------
(***************************************************************************)
(* Proofs about the proxy, for every value of its constants: its type, and *)
(* its safety properties by way of the invariant Inductive.  Each conjunct *)
(* of Inductive has a lemma saying that a step preserves it, given the     *)
(* conjuncts it rests on; every lemma follows the disjuncts of Next.       *)
(***************************************************************************)
EXTENDS Proxy, TLAPS

-----------------------------------------------------------------------------
(* Type correctness.                                                       *)

\* The configurations the code writes are configurations.
LEMMA ConfigFacts ==
    /\ DefaultConfig \in Config
    /\ DisabledConfig \in Config
    /\ saved \in Config => FreshConfig \in Config
BY DEF DefaultConfig, DisabledConfig, FreshConfig, Config, Unlimited

\* What the counter needs to know of its bound.
LEMMA CapFact == CountCap \in Nat /\ 0 \in 0 .. CountCap
BY ProxyAssumption DEF ProxyAssumption

\* The proxy starts well-typed.
LEMMA TypeInit == Init => TypeOK
BY ConfigFacts, CapFact DEF Init, TypeOK, StopPc, StartPc, IoPc, Pending

\* Every step of the proxy and of its debugger keeps the types.
LEMMA TypeStep ==
    ASSUME TypeOK
    PROVE  [Next]_vars => TypeOK'
<1> USE CapFact DEF TypeOK, StopPc, StartPc, IoPc, Pending
<1> USE DEF managerVars, clientVars, ioVars, sharedVars
<1>1. CallStart => TypeOK'
    BY DEF CallStart, ApiIdle
<1>2. CallStop => TypeOK'
    BY DEF CallStop
<1>3. (\E c \in Config : EnableAutoReconnect(c)) \/ DisableAutoReconnect => TypeOK'
    BY ConfigFacts DEF EnableAutoReconnect, DisableAutoReconnect,
       SetReconnectConfig, ApiIdle
<1>4. Stop => TypeOK'
  <2>1. StopFlags => TypeOK'
      BY DEF StopFlags
  <2>2. StopPage => TypeOK'
      BY DEF StopPage, TakeDownPage
  <2>3. StopSocket => TypeOK'
      BY DEF StopSocket
  <2>4. StopContext => TypeOK'
      BY DEF StopContext
  <2>5. StopJoin => TypeOK'
      BY DEF StopJoin, BlankClient
  <2>6. QED
      BY <2>1, <2>2, <2>3, <2>4, <2>5 DEF Stop
<1>5. Start => TypeOK'
  <2>1. CreateUnresolved => TypeOK'
      BY ConfigFacts DEF CreateUnresolved, BlankClient
  <2>2. CreateAndStart => TypeOK'
      BY ConfigFacts DEF CreateAndStart
  <2>3. StartReturns => TypeOK'
      BY DEF StartReturns
  <2>4. StartBlocks => TypeOK'
      BY DEF StartBlocks
  <2>5. StartSleeps => TypeOK'
      BY DEF StartSleeps
  <2>6. StartWakesSpuriously => TypeOK'
      BY DEF StartWakesSpuriously
  <2>7. QED
      BY <2>1, <2>2, <2>3, <2>4, <2>5, <2>6 DEF Start
<1>6. Network => TypeOK'
    BY DEF Network, ConnectSucceeds, ConnectFails, TimerExpires
<1>7. Handlers => TypeOK'
  <2>1. RunReturns => TypeOK'
      BY DEF RunReturns
  <2>2. HandlePostedClose => TypeOK'
      BY DEF HandlePostedClose, Dispatches
  <2>3. HandleConnected => TypeOK'
      BY DEF HandleConnected, DispatchesOperation, Dispatches
  <2>4. HandleConnectedThrows => TypeOK'
      BY DEF HandleConnectedThrows, DispatchesOperation, Dispatches
  <2>5. HandleRefusedRetries => TypeOK'
      BY DEF HandleRefusedRetries, DispatchesOperation, Dispatches
  <2>6. HandleRefusedGivesUp => TypeOK'
      BY DEF HandleRefusedGivesUp, DispatchesOperation, Dispatches
  <2>7. HandleTickIgnored => TypeOK'
      BY DEF HandleTickIgnored, DispatchesOperation, Dispatches
  <2>8. HandleTickGivesUp => TypeOK'
      BY DEF HandleTickGivesUp, DispatchesOperation, Dispatches
  <2>9. HandleTickRetries => TypeOK'
      BY DEF HandleTickRetries, DispatchesOperation, Dispatches
  <2>10. Restart => TypeOK'
      BY DEF Restart, IoStep
  <2>11. Schedule => TypeOK'
      BY DEF Schedule, IoStep
  <2>12. QED
      BY <2>1, <2>2, <2>3, <2>4, <2>5, <2>6, <2>7, <2>8, <2>9, <2>10, <2>11 DEF
         Handlers
<1>8. Session => TypeOK'
  <2>1. HandshakeOk => TypeOK'
      BY DEF HandshakeOk, BlockingOk, IoStep
  <2>2. HandshakeFails => TypeOK'
      BY DEF HandshakeFails, BlockingFails, IoStep
  <2>3. DeviceInfoOk => TypeOK'
      BY DEF DeviceInfoOk, BlockingOk, IoStep
  <2>4. DeviceInfoFails => TypeOK'
      BY DEF DeviceInfoFails, BlockingFails, IoStep
  <2>5. Publish => TypeOK'
      BY DEF Publish, IoStep
  <2>6. NotifyFlag => TypeOK'
      BY DEF NotifyFlag, IoStep
  <2>7. NotifyStatus => TypeOK'
      BY DEF NotifyStatus, IoStep
  <2>8. NotifyAll => TypeOK'
      BY DEF NotifyAll
  <2>9. Close => TypeOK'
      BY DEF Close, IoStep, TakeDownPage
  <2>10. TakeRequest => TypeOK'
      BY DEF TakeRequest, IoStep
  <2>11. WokenToStop => TypeOK'
      BY DEF WokenToStop, IoStep
  <2>12. SendOk => TypeOK'
      BY DEF SendOk, BlockingOk, IoStep
  <2>13. SendFails => TypeOK'
      BY DEF SendFails, BlockingFails, IoStep
  <2>14. ReceiveOk => TypeOK'
      BY DEF ReceiveOk, BlockingOk, IoStep
  <2>15. ReceiveFails => TypeOK'
      BY DEF ReceiveFails, BlockingFails, IoStep
  <2>16. Answer => TypeOK'
      BY DEF Answer, IoStep
  <2>17. LostRetries => TypeOK'
      BY DEF LostRetries, IoStep, TakeDownPage
  <2>18. LostGivesUp => TypeOK'
      BY DEF LostGivesUp, IoStep
  <2>19. QED
      BY <2>1, <2>2, <2>3, <2>4, <2>5, <2>6, <2>7, <2>8, <2>9, <2>10, <2>11,
         <2>12, <2>13, <2>14, <2>15, <2>16, <2>17, <2>18 DEF Session
<1>9. Debugger => TypeOK'
  <2>1. DebuggerSignals => TypeOK'
      BY DEF DebuggerSignals
  <2>2. DebuggerWakes => TypeOK'
      BY DEF DebuggerWakes
  <2>3. DebuggerResetsConsumer => TypeOK'
      BY DEF DebuggerResetsConsumer
  <2>4. DebuggerResetsProducer => TypeOK'
      BY DEF DebuggerResetsProducer
  <2>5. QED
      BY <2>1, <2>2, <2>3, <2>4 DEF Debugger
<1>10. UNCHANGED vars => TypeOK'
    BY DEF vars
<1>11. QED
    BY <1>1, <1>2, <1>3, <1>4, <1>5, <1>6, <1>7, <1>8, <1>9, <1>10 DEF Next,
       ProxyStep, Application

\* Every variable keeps its type: the counter stays within its bound, the
\* configuration of a client is one the application can set, and no thread
\* is anywhere but at a place of its program.
THEOREM TypeCorrect == Spec => []TypeOK
BY TypeInit, TypeStep, PTL DEF Spec

-----------------------------------------------------------------------------
(* The conjuncts of the inductive invariant, one lemma each.               *)

\* While stop() is at work the client has one owner; once it is destroyed
\* nobody uses it but a caller left in start().
LEMMA StopDisciplineStep ==
    ASSUME TypeOK, StopDiscipline, [Next]_vars
    PROVE  StopDiscipline'
<1> USE DEF StopDiscipline, TypeOK, managerVars, clientVars, ioVars, sharedVars
<1>1. CASE CallStart
    BY <1>1 DEF CallStart, ApiIdle
<1>2. CASE CallStop
    BY <1>2 DEF CallStop
<1>3. CASE (\E c \in Config : EnableAutoReconnect(c)) \/ DisableAutoReconnect
    BY <1>3 DEF EnableAutoReconnect, DisableAutoReconnect, SetReconnectConfig, ApiIdle
<1>4. CASE Stop
    BY <1>4 DEF Stop, StopFlags, StopPage, StopSocket, StopContext, StopJoin,
       TakeDownPage, BlankClient
<1>5. CASE Start
    BY <1>5 DEF Start, CreateUnresolved, CreateAndStart, StartReturns, StartBlocks,
       StartSleeps, StartWakesSpuriously, BlankClient
<1>6. CASE Network
    BY <1>6 DEF Network, ConnectSucceeds, ConnectFails, TimerExpires
<1>7. CASE Handlers
    BY <1>7 DEF Handlers, RunReturns, HandlePostedClose, HandleConnected,
       HandleConnectedThrows, HandleRefusedRetries, HandleRefusedGivesUp,
       HandleTickIgnored, HandleTickGivesUp, HandleTickRetries, Restart, Schedule,
       Dispatches, DispatchesOperation, IoStep
<1>8. CASE Session
  <2>1. CASE HandshakeOk
      BY <2>1 DEF HandshakeOk, BlockingOk, IoStep
  <2>2. CASE HandshakeFails
      BY <2>2 DEF HandshakeFails, BlockingFails, IoStep
  <2>3. CASE DeviceInfoOk
      BY <2>3 DEF DeviceInfoOk, BlockingOk, IoStep
  <2>4. CASE DeviceInfoFails
      BY <2>4 DEF DeviceInfoFails, BlockingFails, IoStep
  <2>5. CASE Publish
      BY <2>5 DEF Publish, IoStep
  <2>6. CASE NotifyFlag
      BY <2>6 DEF NotifyFlag, IoStep
  <2>7. CASE NotifyStatus
      BY <2>7 DEF NotifyStatus, IoStep
  <2>8. CASE NotifyAll
      BY <2>8 DEF NotifyAll
  <2>9. CASE Close
      BY <2>9 DEF Close, IoStep, TakeDownPage
  <2>10. CASE TakeRequest
      BY <2>10 DEF TakeRequest, IoStep
  <2>11. CASE WokenToStop
      BY <2>11 DEF WokenToStop, IoStep
  <2>12. CASE SendOk
      BY <2>12 DEF SendOk, BlockingOk, IoStep
  <2>13. CASE SendFails
      BY <2>13 DEF SendFails, BlockingFails, IoStep
  <2>14. CASE ReceiveOk
      BY <2>14 DEF ReceiveOk, BlockingOk, IoStep
  <2>15. CASE ReceiveFails
      BY <2>15 DEF ReceiveFails, BlockingFails, IoStep
  <2>16. CASE Answer
      BY <2>16 DEF Answer, IoStep
  <2>17. CASE LostRetries
      BY <2>17 DEF LostRetries, IoStep, TakeDownPage
  <2>18. CASE LostGivesUp
      BY <2>18 DEF LostGivesUp, IoStep
  <2>19. QED
      BY <1>8, <2>1, <2>2, <2>3, <2>4, <2>5, <2>6, <2>7, <2>8, <2>9, <2>10, <2>11,
         <2>12, <2>13, <2>14, <2>15, <2>16, <2>17, <2>18 DEF Session
<1>9. CASE Debugger
    BY <1>9 DEF Debugger, DebuggerSignals, DebuggerWakes, DebuggerResetsConsumer,
       DebuggerResetsProducer
<1>10. CASE UNCHANGED vars
    BY <1>10 DEF vars
<1>11. QED
    BY <1>1, <1>2, <1>3, <1>4, <1>5, <1>6, <1>7, <1>8, <1>9, <1>10 DEF Next,
       ProxyStep, Application

\* Joining the main thread leaves the page not ready: a page still ready then
\* would have a thread that is yet to clear it.
LEMMA QuietWhenStoppedStep ==
    ASSUME TypeOK, QuietWhenStopped, StopDiscipline, ReadyHasAThread, [Next]_vars
    PROVE  QuietWhenStopped'
<1> USE DEF QuietWhenStopped, StopDiscipline, ReadyHasAThread, Serving, Exchanging,
   TypeOK, managerVars, clientVars, ioVars, sharedVars
<1>1. CASE CallStart
    BY <1>1 DEF CallStart, ApiIdle
<1>2. CASE CallStop
    BY <1>2 DEF CallStop
<1>3. CASE (\E c \in Config : EnableAutoReconnect(c)) \/ DisableAutoReconnect
    BY <1>3 DEF EnableAutoReconnect, DisableAutoReconnect, SetReconnectConfig, ApiIdle
<1>4. CASE Stop
    BY <1>4 DEF Stop, StopFlags, StopPage, StopSocket, StopContext, StopJoin,
       TakeDownPage, BlankClient
<1>5. CASE Start
    BY <1>5 DEF Start, CreateUnresolved, CreateAndStart, StartReturns, StartBlocks,
       StartSleeps, StartWakesSpuriously, BlankClient
<1>6. CASE Network
    BY <1>6 DEF Network, ConnectSucceeds, ConnectFails, TimerExpires
<1>7. CASE Handlers
    BY <1>7 DEF Handlers, RunReturns, HandlePostedClose, HandleConnected,
       HandleConnectedThrows, HandleRefusedRetries, HandleRefusedGivesUp,
       HandleTickIgnored, HandleTickGivesUp, HandleTickRetries, Restart, Schedule,
       Dispatches, DispatchesOperation, IoStep
<1>8. CASE Session
    BY <1>8 DEF Session, HandshakeOk, HandshakeFails, DeviceInfoOk, DeviceInfoFails,
       Publish, NotifyFlag, NotifyStatus, NotifyAll, Close, TakeRequest, WokenToStop,
       SendOk, SendFails, ReceiveOk, ReceiveFails, Answer, LostRetries, LostGivesUp,
       BlockingOk, IoStep, BlockingFails, TakeDownPage
<1>9. CASE Debugger
    BY <1>9 DEF Debugger, DebuggerSignals, DebuggerWakes, DebuggerResetsConsumer,
       DebuggerResetsProducer
<1>10. CASE UNCHANGED vars
    BY <1>10 DEF vars
<1>11. QED
    BY <1>1, <1>2, <1>3, <1>4, <1>5, <1>6, <1>7, <1>8, <1>9, <1>10 DEF Next,
       ProxyStep, Application

\* Every way out of the data phase passes through the withdrawal of the page,
\* except the return that leaves it to kill().
LEMMA ReadyHasAThreadStep ==
    ASSUME TypeOK, ReadyHasAThread, StopDiscipline, QuietWhenStopped,
       KillClearsThePage, [Next]_vars
    PROVE  ReadyHasAThread'
<1> USE DEF ReadyHasAThread, StopDiscipline, QuietWhenStopped, KillClearsThePage,
   Serving, Exchanging, TypeOK, managerVars, clientVars, ioVars, sharedVars
<1>1. CASE CallStart
    BY <1>1 DEF CallStart, ApiIdle
<1>2. CASE CallStop
    BY <1>2 DEF CallStop
<1>3. CASE (\E c \in Config : EnableAutoReconnect(c)) \/ DisableAutoReconnect
    BY <1>3 DEF EnableAutoReconnect, DisableAutoReconnect, SetReconnectConfig, ApiIdle
<1>4. CASE Stop
    BY <1>4 DEF Stop, StopFlags, StopPage, StopSocket, StopContext, StopJoin,
       TakeDownPage, BlankClient
<1>5. CASE Start
    BY <1>5 DEF Start, CreateUnresolved, CreateAndStart, StartReturns, StartBlocks,
       StartSleeps, StartWakesSpuriously, BlankClient
<1>6. CASE Network
    BY <1>6 DEF Network, ConnectSucceeds, ConnectFails, TimerExpires
<1>7. CASE Handlers
    BY <1>7 DEF Handlers, RunReturns, HandlePostedClose, HandleConnected,
       HandleConnectedThrows, HandleRefusedRetries, HandleRefusedGivesUp,
       HandleTickIgnored, HandleTickGivesUp, HandleTickRetries, Restart, Schedule,
       Dispatches, DispatchesOperation, IoStep
<1>8. CASE Session
    BY <1>8 DEF Session, HandshakeOk, HandshakeFails, DeviceInfoOk, DeviceInfoFails,
       Publish, NotifyFlag, NotifyStatus, NotifyAll, Close, TakeRequest, WokenToStop,
       SendOk, SendFails, ReceiveOk, ReceiveFails, Answer, LostRetries, LostGivesUp,
       BlockingOk, IoStep, BlockingFails, TakeDownPage
<1>9. CASE Debugger
    BY <1>9 DEF Debugger, DebuggerSignals, DebuggerWakes, DebuggerResetsConsumer,
       DebuggerResetsProducer
<1>10. CASE UNCHANGED vars
    BY <1>10 DEF vars
<1>11. QED
    BY <1>1, <1>2, <1>3, <1>4, <1>5, <1>6, <1>7, <1>8, <1>9, <1>10 DEF Next,
       ProxyStep, Application

\* Only kill() clears is_running_ under a data phase.
LEMMA KillClearsThePageStep ==
    ASSUME TypeOK, KillClearsThePage, StopDiscipline, QuietWhenStopped, [Next]_vars
    PROVE  KillClearsThePage'
<1> USE DEF KillClearsThePage, StopDiscipline, QuietWhenStopped, Exchanging, TypeOK,
   managerVars, clientVars, ioVars, sharedVars
<1>1. CASE CallStart
    BY <1>1 DEF CallStart, ApiIdle
<1>2. CASE CallStop
    BY <1>2 DEF CallStop
<1>3. CASE (\E c \in Config : EnableAutoReconnect(c)) \/ DisableAutoReconnect
    BY <1>3 DEF EnableAutoReconnect, DisableAutoReconnect, SetReconnectConfig, ApiIdle
<1>4. CASE Stop
    BY <1>4 DEF Stop, StopFlags, StopPage, StopSocket, StopContext, StopJoin,
       TakeDownPage, BlankClient
<1>5. CASE Start
    BY <1>5 DEF Start, CreateUnresolved, CreateAndStart, StartReturns, StartBlocks,
       StartSleeps, StartWakesSpuriously, BlankClient
<1>6. CASE Network
    BY <1>6 DEF Network, ConnectSucceeds, ConnectFails, TimerExpires
<1>7. CASE Handlers
    BY <1>7 DEF Handlers, RunReturns, HandlePostedClose, HandleConnected,
       HandleConnectedThrows, HandleRefusedRetries, HandleRefusedGivesUp,
       HandleTickIgnored, HandleTickGivesUp, HandleTickRetries, Restart, Schedule,
       Dispatches, DispatchesOperation, IoStep
<1>8. CASE Session
    BY <1>8 DEF Session, HandshakeOk, HandshakeFails, DeviceInfoOk, DeviceInfoFails,
       Publish, NotifyFlag, NotifyStatus, NotifyAll, Close, TakeRequest, WokenToStop,
       SendOk, SendFails, ReceiveOk, ReceiveFails, Answer, LostRetries, LostGivesUp,
       BlockingOk, IoStep, BlockingFails, TakeDownPage
<1>9. CASE Debugger
    BY <1>9 DEF Debugger, DebuggerSignals, DebuggerWakes, DebuggerResetsConsumer,
       DebuggerResetsProducer
<1>10. CASE UNCHANGED vars
    BY <1>10 DEF vars
<1>11. QED
    BY <1>1, <1>2, <1>3, <1>4, <1>5, <1>6, <1>7, <1>8, <1>9, <1>10 DEF Next,
       ProxyStep, Application

\* notify_connection_status undisturbed by a stop leaves its marks in order.
LEMMA AnnouncingStep ==
    ASSUME TypeOK, Announcing, StopDiscipline, QuietWhenStopped, [Next]_vars
    PROVE  Announcing'
<1> USE DEF Announcing, StopDiscipline, QuietWhenStopped, TypeOK, managerVars,
   clientVars, ioVars, sharedVars
<1>1. CASE CallStart
    BY <1>1 DEF CallStart, ApiIdle
<1>2. CASE CallStop
    BY <1>2 DEF CallStop
<1>3. CASE (\E c \in Config : EnableAutoReconnect(c)) \/ DisableAutoReconnect
    BY <1>3 DEF EnableAutoReconnect, DisableAutoReconnect, SetReconnectConfig, ApiIdle
<1>4. CASE Stop
    BY <1>4 DEF Stop, StopFlags, StopPage, StopSocket, StopContext, StopJoin,
       TakeDownPage, BlankClient
<1>5. CASE Start
    BY <1>5 DEF Start, CreateUnresolved, CreateAndStart, StartReturns, StartBlocks,
       StartSleeps, StartWakesSpuriously, BlankClient
<1>6. CASE Network
    BY <1>6 DEF Network, ConnectSucceeds, ConnectFails, TimerExpires
<1>7. CASE Handlers
    BY <1>7 DEF Handlers, RunReturns, HandlePostedClose, HandleConnected,
       HandleConnectedThrows, HandleRefusedRetries, HandleRefusedGivesUp,
       HandleTickIgnored, HandleTickGivesUp, HandleTickRetries, Restart, Schedule,
       Dispatches, DispatchesOperation, IoStep
<1>8. CASE Session
    BY <1>8 DEF Session, HandshakeOk, HandshakeFails, DeviceInfoOk, DeviceInfoFails,
       Publish, NotifyFlag, NotifyStatus, NotifyAll, Close, TakeRequest, WokenToStop,
       SendOk, SendFails, ReceiveOk, ReceiveFails, Answer, LostRetries, LostGivesUp,
       BlockingOk, IoStep, BlockingFails, TakeDownPage
<1>9. CASE Debugger
    BY <1>9 DEF Debugger, DebuggerSignals, DebuggerWakes, DebuggerResetsConsumer,
       DebuggerResetsProducer
<1>10. CASE UNCHANGED vars
    BY <1>10 DEF vars
<1>11. QED
    BY <1>1, <1>2, <1>3, <1>4, <1>5, <1>6, <1>7, <1>8, <1>9, <1>10 DEF Next,
       ProxyStep, Application

\* A data phase begins when the announcement is complete.
LEMMA SessionAnnouncedStep ==
    ASSUME TypeOK, SessionAnnounced, StopDiscipline, QuietWhenStopped, Announcing,
       [Next]_vars
    PROVE  SessionAnnounced'
<1> USE DEF SessionAnnounced, StopDiscipline, QuietWhenStopped, Announcing,
   Exchanging, TypeOK, managerVars, clientVars, ioVars, sharedVars
<1>1. CASE CallStart
    BY <1>1 DEF CallStart, ApiIdle
<1>2. CASE CallStop
    BY <1>2 DEF CallStop
<1>3. CASE (\E c \in Config : EnableAutoReconnect(c)) \/ DisableAutoReconnect
    BY <1>3 DEF EnableAutoReconnect, DisableAutoReconnect, SetReconnectConfig, ApiIdle
<1>4. CASE Stop
    BY <1>4 DEF Stop, StopFlags, StopPage, StopSocket, StopContext, StopJoin,
       TakeDownPage, BlankClient
<1>5. CASE Start
    BY <1>5 DEF Start, CreateUnresolved, CreateAndStart, StartReturns, StartBlocks,
       StartSleeps, StartWakesSpuriously, BlankClient
<1>6. CASE Network
    BY <1>6 DEF Network, ConnectSucceeds, ConnectFails, TimerExpires
<1>7. CASE Handlers
    BY <1>7 DEF Handlers, RunReturns, HandlePostedClose, HandleConnected,
       HandleConnectedThrows, HandleRefusedRetries, HandleRefusedGivesUp,
       HandleTickIgnored, HandleTickGivesUp, HandleTickRetries, Restart, Schedule,
       Dispatches, DispatchesOperation, IoStep
<1>8. CASE Session
    BY <1>8 DEF Session, HandshakeOk, HandshakeFails, DeviceInfoOk, DeviceInfoFails,
       Publish, NotifyFlag, NotifyStatus, NotifyAll, Close, TakeRequest, WokenToStop,
       SendOk, SendFails, ReceiveOk, ReceiveFails, Answer, LostRetries, LostGivesUp,
       BlockingOk, IoStep, BlockingFails, TakeDownPage
<1>9. CASE Debugger
    BY <1>9 DEF Debugger, DebuggerSignals, DebuggerWakes, DebuggerResetsConsumer,
       DebuggerResetsProducer
<1>10. CASE UNCHANGED vars
    BY <1>10 DEF vars
<1>11. QED
    BY <1>1, <1>2, <1>3, <1>4, <1>5, <1>6, <1>7, <1>8, <1>9, <1>10 DEF Next,
       ProxyStep, Application

\* Only kill() closes a socket in use or stops the io_context, and a posted
\* close is dispatched before anything is started on the new socket.
LEMMA OneOperationStep ==
    ASSUME TypeOK, OneOperation, StopDiscipline, QuietWhenStopped, [Next]_vars
    PROVE  OneOperation'
<1> USE DEF OneOperation, StopDiscipline, QuietWhenStopped, TypeOK, managerVars,
   clientVars, ioVars, sharedVars
<1>1. CASE CallStart
    BY <1>1 DEF CallStart, ApiIdle
<1>2. CASE CallStop
    BY <1>2 DEF CallStop
<1>3. CASE (\E c \in Config : EnableAutoReconnect(c)) \/ DisableAutoReconnect
    BY <1>3 DEF EnableAutoReconnect, DisableAutoReconnect, SetReconnectConfig, ApiIdle
<1>4. CASE Stop
    BY <1>4 DEF Stop, StopFlags, StopPage, StopSocket, StopContext, StopJoin,
       TakeDownPage, BlankClient
<1>5. CASE Start
    BY <1>5 DEF Start, CreateUnresolved, CreateAndStart, StartReturns, StartBlocks,
       StartSleeps, StartWakesSpuriously, BlankClient
<1>6. CASE Network
    BY <1>6 DEF Network, ConnectSucceeds, ConnectFails, TimerExpires
<1>7. CASE Handlers
  <2>1. CASE RunReturns
      BY <2>1 DEF RunReturns
  <2>2. CASE HandlePostedClose
      BY <2>2 DEF HandlePostedClose, Dispatches
  <2>3. CASE HandleConnected
      BY <2>3 DEF HandleConnected, DispatchesOperation, Dispatches
  <2>4. CASE HandleConnectedThrows
      BY <2>4 DEF HandleConnectedThrows, DispatchesOperation, Dispatches
  <2>5. CASE HandleRefusedRetries
      BY <2>5 DEF HandleRefusedRetries, DispatchesOperation, Dispatches
  <2>6. CASE HandleRefusedGivesUp
      BY <2>6 DEF HandleRefusedGivesUp, DispatchesOperation, Dispatches
  <2>7. CASE HandleTickIgnored
      BY <2>7 DEF HandleTickIgnored, DispatchesOperation, Dispatches
  <2>8. CASE HandleTickGivesUp
      BY <2>8 DEF HandleTickGivesUp, DispatchesOperation, Dispatches
  <2>9. CASE HandleTickRetries
      BY <2>9 DEF HandleTickRetries, DispatchesOperation, Dispatches
  <2>10. CASE Restart
      BY <2>10 DEF Restart, IoStep
  <2>11. CASE Schedule
      BY <2>11 DEF Schedule, IoStep
  <2>12. QED
      BY <1>7, <2>1, <2>2, <2>3, <2>4, <2>5, <2>6, <2>7, <2>8, <2>9, <2>10, <2>11 DEF
         Handlers
<1>8. CASE Session
  <2>1. CASE HandshakeOk
      BY <2>1 DEF HandshakeOk, BlockingOk, IoStep
  <2>2. CASE HandshakeFails
      BY <2>2 DEF HandshakeFails, BlockingFails, IoStep
  <2>3. CASE DeviceInfoOk
      BY <2>3 DEF DeviceInfoOk, BlockingOk, IoStep
  <2>4. CASE DeviceInfoFails
      BY <2>4 DEF DeviceInfoFails, BlockingFails, IoStep
  <2>5. CASE Publish
      BY <2>5 DEF Publish, IoStep
  <2>6. CASE NotifyFlag
      BY <2>6 DEF NotifyFlag, IoStep
  <2>7. CASE NotifyStatus
      BY <2>7 DEF NotifyStatus, IoStep
  <2>8. CASE NotifyAll
      BY <2>8 DEF NotifyAll
  <2>9. CASE Close
      BY <2>9 DEF Close, IoStep, TakeDownPage
  <2>10. CASE TakeRequest
      BY <2>10 DEF TakeRequest, IoStep
  <2>11. CASE WokenToStop
      BY <2>11 DEF WokenToStop, IoStep
  <2>12. CASE SendOk
      BY <2>12 DEF SendOk, BlockingOk, IoStep
  <2>13. CASE SendFails
      BY <2>13 DEF SendFails, BlockingFails, IoStep
  <2>14. CASE ReceiveOk
      BY <2>14 DEF ReceiveOk, BlockingOk, IoStep
  <2>15. CASE ReceiveFails
      BY <2>15 DEF ReceiveFails, BlockingFails, IoStep
  <2>16. CASE Answer
      BY <2>16 DEF Answer, IoStep
  <2>17. CASE LostRetries
      BY <2>17 DEF LostRetries, IoStep, TakeDownPage
  <2>18. CASE LostGivesUp
      BY <2>18 DEF LostGivesUp, IoStep
  <2>19. QED
      BY <1>8, <2>1, <2>2, <2>3, <2>4, <2>5, <2>6, <2>7, <2>8, <2>9, <2>10, <2>11,
         <2>12, <2>13, <2>14, <2>15, <2>16, <2>17, <2>18 DEF Session
<1>9. CASE Debugger
    BY <1>9 DEF Debugger, DebuggerSignals, DebuggerWakes, DebuggerResetsConsumer,
       DebuggerResetsProducer
<1>10. CASE UNCHANGED vars
    BY <1>10 DEF vars
<1>11. QED
    BY <1>1, <1>2, <1>3, <1>4, <1>5, <1>6, <1>7, <1>8, <1>9, <1>10 DEF Next,
       ProxyStep, Application

\* The disconnect callback comes after the last operation of the client.
LEMMA FailureIsFinalStep ==
    ASSUME TypeOK, FailureIsFinal, StopDiscipline, QuietWhenStopped, Announcing,
       SessionAnnounced, OneOperation, [Next]_vars
    PROVE  FailureIsFinal'
<1> USE DEF FailureIsFinal, StopDiscipline, QuietWhenStopped, Announcing,
   SessionAnnounced, OneOperation, Exchanging, TypeOK, managerVars, clientVars,
   ioVars, sharedVars
<1>1. CASE CallStart
    BY <1>1 DEF CallStart, ApiIdle
<1>2. CASE CallStop
    BY <1>2 DEF CallStop
<1>3. CASE (\E c \in Config : EnableAutoReconnect(c)) \/ DisableAutoReconnect
    BY <1>3 DEF EnableAutoReconnect, DisableAutoReconnect, SetReconnectConfig, ApiIdle
<1>4. CASE Stop
    BY <1>4 DEF Stop, StopFlags, StopPage, StopSocket, StopContext, StopJoin,
       TakeDownPage, BlankClient
<1>5. CASE Start
    BY <1>5 DEF Start, CreateUnresolved, CreateAndStart, StartReturns, StartBlocks,
       StartSleeps, StartWakesSpuriously, BlankClient
<1>6. CASE Network
    BY <1>6 DEF Network, ConnectSucceeds, ConnectFails, TimerExpires
<1>7. CASE Handlers
  <2>1. CASE RunReturns
      BY <2>1 DEF RunReturns
  <2>2. CASE HandlePostedClose
      BY <2>2 DEF HandlePostedClose, Dispatches
  <2>3. CASE HandleConnected
      BY <2>3 DEF HandleConnected, DispatchesOperation, Dispatches
  <2>4. CASE HandleConnectedThrows
      BY <2>4 DEF HandleConnectedThrows, DispatchesOperation, Dispatches
  <2>5. CASE HandleRefusedRetries
      BY <2>5 DEF HandleRefusedRetries, DispatchesOperation, Dispatches
  <2>6. CASE HandleRefusedGivesUp
      BY <2>6 DEF HandleRefusedGivesUp, DispatchesOperation, Dispatches
  <2>7. CASE HandleTickIgnored
      BY <2>7 DEF HandleTickIgnored, DispatchesOperation, Dispatches
  <2>8. CASE HandleTickGivesUp
      BY <2>8 DEF HandleTickGivesUp, DispatchesOperation, Dispatches
  <2>9. CASE HandleTickRetries
      BY <2>9 DEF HandleTickRetries, DispatchesOperation, Dispatches
  <2>10. CASE Restart
      BY <2>10 DEF Restart, IoStep
  <2>11. CASE Schedule
      BY <2>11 DEF Schedule, IoStep
  <2>12. QED
      BY <1>7, <2>1, <2>2, <2>3, <2>4, <2>5, <2>6, <2>7, <2>8, <2>9, <2>10, <2>11 DEF
         Handlers
<1>8. CASE Session
  <2>1. CASE HandshakeOk
      BY <2>1 DEF HandshakeOk, BlockingOk, IoStep
  <2>2. CASE HandshakeFails
      BY <2>2 DEF HandshakeFails, BlockingFails, IoStep
  <2>3. CASE DeviceInfoOk
      BY <2>3 DEF DeviceInfoOk, BlockingOk, IoStep
  <2>4. CASE DeviceInfoFails
      BY <2>4 DEF DeviceInfoFails, BlockingFails, IoStep
  <2>5. CASE Publish
      BY <2>5 DEF Publish, IoStep
  <2>6. CASE NotifyFlag
      BY <2>6 DEF NotifyFlag, IoStep
  <2>7. CASE NotifyStatus
      BY <2>7 DEF NotifyStatus, IoStep
  <2>8. CASE NotifyAll
      BY <2>8 DEF NotifyAll
  <2>9. CASE Close
      BY <2>9 DEF Close, IoStep, TakeDownPage
  <2>10. CASE TakeRequest
      BY <2>10 DEF TakeRequest, IoStep
  <2>11. CASE WokenToStop
      BY <2>11 DEF WokenToStop, IoStep
  <2>12. CASE SendOk
      BY <2>12 DEF SendOk, BlockingOk, IoStep
  <2>13. CASE SendFails
      BY <2>13 DEF SendFails, BlockingFails, IoStep
  <2>14. CASE ReceiveOk
      BY <2>14 DEF ReceiveOk, BlockingOk, IoStep
  <2>15. CASE ReceiveFails
      BY <2>15 DEF ReceiveFails, BlockingFails, IoStep
  <2>16. CASE Answer
      BY <2>16 DEF Answer, IoStep
  <2>17. CASE LostRetries
      BY <2>17 DEF LostRetries, IoStep, TakeDownPage
  <2>18. CASE LostGivesUp
      BY <2>18 DEF LostGivesUp, IoStep
  <2>19. QED
      BY <1>8, <2>1, <2>2, <2>3, <2>4, <2>5, <2>6, <2>7, <2>8, <2>9, <2>10, <2>11,
         <2>12, <2>13, <2>14, <2>15, <2>16, <2>17, <2>18 DEF Session
<1>9. CASE Debugger
    BY <1>9 DEF Debugger, DebuggerSignals, DebuggerWakes, DebuggerResetsConsumer,
       DebuggerResetsProducer
<1>10. CASE UNCHANGED vars
    BY <1>10 DEF vars
<1>11. QED
    BY <1>1, <1>2, <1>3, <1>4, <1>5, <1>6, <1>7, <1>8, <1>9, <1>10 DEF Next,
       ProxyStep, Application

\* A client whose start() still waits always has an operation in flight or a
\* handler at work: its configuration is enabled and its socket is its own.
LEMMA WorkLeftStep ==
    ASSUME TypeOK, WorkLeft, StopDiscipline, QuietWhenStopped, OneOperation,
       [Next]_vars
    PROVE  WorkLeft'
<1> USE DEF WorkLeft, StopDiscipline, QuietWhenStopped, OneOperation, Running,
   FreshConfig, DefaultConfig, TypeOK, managerVars, clientVars, ioVars, sharedVars
<1>1. CASE CallStart
    BY <1>1 DEF CallStart, ApiIdle
<1>2. CASE CallStop
    BY <1>2 DEF CallStop
<1>3. CASE (\E c \in Config : EnableAutoReconnect(c)) \/ DisableAutoReconnect
    BY <1>3 DEF EnableAutoReconnect, DisableAutoReconnect, SetReconnectConfig, ApiIdle
<1>4. CASE Stop
    BY <1>4 DEF Stop, StopFlags, StopPage, StopSocket, StopContext, StopJoin,
       TakeDownPage, BlankClient
<1>5. CASE Start
    BY <1>5 DEF Start, CreateUnresolved, CreateAndStart, StartReturns, StartBlocks,
       StartSleeps, StartWakesSpuriously, BlankClient
<1>6. CASE Network
    BY <1>6 DEF Network, ConnectSucceeds, ConnectFails, TimerExpires
<1>7. CASE Handlers
  <2>1. CASE RunReturns
      BY <2>1 DEF RunReturns
  <2>2. CASE HandlePostedClose
      BY <2>2 DEF HandlePostedClose, Dispatches
  <2>3. CASE HandleConnected
      BY <2>3 DEF HandleConnected, DispatchesOperation, Dispatches
  <2>4. CASE HandleConnectedThrows
      BY <2>4 DEF HandleConnectedThrows, DispatchesOperation, Dispatches
  <2>5. CASE HandleRefusedRetries
      BY <2>5 DEF HandleRefusedRetries, DispatchesOperation, Dispatches
  <2>6. CASE HandleRefusedGivesUp
      BY <2>6 DEF HandleRefusedGivesUp, DispatchesOperation, Dispatches
  <2>7. CASE HandleTickIgnored
      BY <2>7 DEF HandleTickIgnored, DispatchesOperation, Dispatches
  <2>8. CASE HandleTickGivesUp
      BY <2>8 DEF HandleTickGivesUp, DispatchesOperation, Dispatches
  <2>9. CASE HandleTickRetries
      BY <2>9 DEF HandleTickRetries, DispatchesOperation, Dispatches
  <2>10. CASE Restart
      BY <2>10 DEF Restart, IoStep
  <2>11. CASE Schedule
      BY <2>11 DEF Schedule, IoStep
  <2>12. QED
      BY <1>7, <2>1, <2>2, <2>3, <2>4, <2>5, <2>6, <2>7, <2>8, <2>9, <2>10, <2>11 DEF
         Handlers
<1>8. CASE Session
  <2>1. CASE HandshakeOk
      BY <2>1 DEF HandshakeOk, BlockingOk, IoStep
  <2>2. CASE HandshakeFails
      BY <2>2 DEF HandshakeFails, BlockingFails, IoStep
  <2>3. CASE DeviceInfoOk
      BY <2>3 DEF DeviceInfoOk, BlockingOk, IoStep
  <2>4. CASE DeviceInfoFails
      BY <2>4 DEF DeviceInfoFails, BlockingFails, IoStep
  <2>5. CASE Publish
      BY <2>5 DEF Publish, IoStep
  <2>6. CASE NotifyFlag
      BY <2>6 DEF NotifyFlag, IoStep
  <2>7. CASE NotifyStatus
      BY <2>7 DEF NotifyStatus, IoStep
  <2>8. CASE NotifyAll
      BY <2>8 DEF NotifyAll
  <2>9. CASE Close
      BY <2>9 DEF Close, IoStep, TakeDownPage
  <2>10. CASE TakeRequest
      BY <2>10 DEF TakeRequest, IoStep
  <2>11. CASE WokenToStop
      BY <2>11 DEF WokenToStop, IoStep
  <2>12. CASE SendOk
      BY <2>12 DEF SendOk, BlockingOk, IoStep
  <2>13. CASE SendFails
      BY <2>13 DEF SendFails, BlockingFails, IoStep
  <2>14. CASE ReceiveOk
      BY <2>14 DEF ReceiveOk, BlockingOk, IoStep
  <2>15. CASE ReceiveFails
      BY <2>15 DEF ReceiveFails, BlockingFails, IoStep
  <2>16. CASE Answer
      BY <2>16 DEF Answer, IoStep
  <2>17. CASE LostRetries
      BY <2>17 DEF LostRetries, IoStep, TakeDownPage
  <2>18. CASE LostGivesUp
      BY <2>18 DEF LostGivesUp, IoStep
  <2>19. QED
      BY <1>8, <2>1, <2>2, <2>3, <2>4, <2>5, <2>6, <2>7, <2>8, <2>9, <2>10, <2>11,
         <2>12, <2>13, <2>14, <2>15, <2>16, <2>17, <2>18 DEF Session
<1>9. CASE Debugger
    BY <1>9 DEF Debugger, DebuggerSignals, DebuggerWakes, DebuggerResetsConsumer,
       DebuggerResetsProducer
<1>10. CASE UNCHANGED vars
    BY <1>10 DEF vars
<1>11. QED
    BY <1>1, <1>2, <1>3, <1>4, <1>5, <1>6, <1>7, <1>8, <1>9, <1>10 DEF Next,
       ProxyStep, Application

-----------------------------------------------------------------------------
(* The invariant and what follows from it.                                 *)

\* The invariant holds before anything was started.
LEMMA InductiveInit == Init => Inductive
<1> SUFFICES ASSUME Init PROVE Inductive
    OBVIOUS
<1>1. TypeOK
    BY TypeInit
<1>2. StopDiscipline /\ QuietWhenStopped /\ ReadyHasAThread /\ KillClearsThePage
    BY DEF Init, StopDiscipline, QuietWhenStopped, ReadyHasAThread, KillClearsThePage
<1>3. Announcing /\ SessionAnnounced /\ OneOperation /\ FailureIsFinal /\ WorkLeft
    BY DEF Init, Announcing, SessionAnnounced, OneOperation, FailureIsFinal, WorkLeft,
           Exchanging
<1>4. QED
    BY <1>1, <1>2, <1>3 DEF Inductive

\* Every step preserves it.
LEMMA InductiveStep == ASSUME Inductive, [Next]_vars PROVE Inductive'
BY TypeStep, StopDisciplineStep, QuietWhenStoppedStep, ReadyHasAThreadStep,
   KillClearsThePageStep, AnnouncingStep, SessionAnnouncedStep,
   OneOperationStep, FailureIsFinalStep, WorkLeftStep DEF Inductive

\* The invariant is one: TLC checks it on a small instance, here it is proved.
THEOREM InductiveCorrect == Spec => []Inductive
BY InductiveInit, InductiveStep, PTL DEF Spec

\* The debugger never finds the page ready without a main thread (or a kill()
\* under way) that will clear it.
THEOREM ReadyHasAThreadCorrect == Spec => []ReadyHasAThread
<1>1. Inductive => ReadyHasAThread
    BY DEF Inductive
<1>2. QED
    BY <1>1, InductiveCorrect, PTL

\* When el_proxy_stop has returned the page is not ready and stays so.
THEOREM QuietWhenStoppedCorrect == Spec => []QuietWhenStopped
<1>1. Inductive => QuietWhenStopped
    BY DEF Inductive
<1>2. QED
    BY <1>1, InductiveCorrect, PTL

\* A data phase nobody is stopping has been announced to the debugger, to the
\* application and to the caller of start().
THEOREM SessionAnnouncedCorrect == Spec => []SessionAnnounced
<1>1. Inductive => SessionAnnounced
    BY DEF Inductive
<1>2. QED
    BY <1>1, InductiveCorrect, PTL

\* A caller inside start() is never left with a main thread that has ended and
\* no result posted.
THEOREM StartNotStrandedCorrect == Spec => []StartNotStranded
<1>1. Inductive => StartNotStranded
    BY DEF Inductive, TypeOK, StartPc, StopDiscipline, QuietWhenStopped, WorkLeft, Running,
           StartNotStranded
<1>2. QED
    BY <1>1, InductiveCorrect, PTL

-----------------------------------------------------------------------------
(* With a configuration that is left alone while a client runs.            *)

\* What CountWithinLimit needs: a retry is scheduled only below the limit.
Counting ==
    /\ CountWithinLimit
    /\ io = "sched" => ShouldAttempt

\* What EndedIsReported needs: without a stop under way, is_running_ and the last
\* status callback agree, a timer is only ever set with auto-reconnect enabled,
\* and run() has nothing left to do only after the disconnect callback.
Reporting ==
    client /\ stopper = "none" =>
        /\ running <=> io # "none" /\ told # "down"
        /\ pending \in {"armed", "tick"} \/ io \in {"sched", "restart"} => config.enabled
        /\ io = "ended" \/ (io = "poll" /\ pending = "none") => told = "down"

\* A limit is a natural number or none.
LEMMA LimitFacts ==
    /\ config \in Config => config.max = Unlimited \/ config.max \in Nat
    /\ saved \in Config => FreshConfig.max = Unlimited \/ FreshConfig.max \in Nat
BY ProxyAssumption DEF ProxyAssumption, FreshConfig, DefaultConfig, Config, Unlimited

\* Counting from a counter of zero.
LEMMA CountsFromZero ==
    ASSUME TypeOK, count' = 0, io' # "sched", config' \in {config, FreshConfig}
    PROVE  Counting'
BY LimitFacts DEF TypeOK, Counting, CountWithinLimit, ShouldAttempt

\* The counter is counted up only on the way from a test of the limit.
LEMMA CountingStep ==
    ASSUME ~Reconfigure, TypeOK, QuietWhenStopped, StopDiscipline, Counting, [Next]_vars
    PROVE  Counting'
<1> USE DEF Counting, CountWithinLimit, ShouldAttempt, StopDiscipline, QuietWhenStopped, TypeOK, managerVars, clientVars,
   ioVars, sharedVars
<1>1. CASE CallStart
    BY <1>1 DEF CallStart, ApiIdle
<1>2. CASE CallStop
    BY <1>2 DEF CallStop
<1>3. CASE (\E c \in Config : EnableAutoReconnect(c)) \/ DisableAutoReconnect
    BY <1>3 DEF EnableAutoReconnect, DisableAutoReconnect, SetReconnectConfig, ApiIdle
<1>4. CASE Stop
  <2>1. CASE StopJoin
      BY <2>1, CountsFromZero DEF StopJoin, BlankClient
  <2>2. CASE StopFlags \/ StopPage \/ StopSocket \/ StopContext
      BY <2>2 DEF StopFlags, StopPage, StopSocket, StopContext, TakeDownPage
  <2>3. QED
      BY <1>4, <2>1, <2>2 DEF Stop
<1>5. CASE Start
  <2>1. CASE CreateUnresolved
      BY <2>1, CountsFromZero DEF CreateUnresolved, BlankClient
  <2>2. CASE CreateAndStart
      BY <2>2, CountsFromZero DEF CreateAndStart
  <2>3. CASE StartReturns \/ StartBlocks \/ StartSleeps \/ StartWakesSpuriously
      BY <2>3 DEF StartReturns, StartBlocks, StartSleeps, StartWakesSpuriously
  <2>4. QED
      BY <1>5, <2>1, <2>2, <2>3 DEF Start
<1>6. CASE Network
    BY <1>6 DEF Network, ConnectSucceeds, ConnectFails, TimerExpires
<1>7. CASE Handlers
  <2>1. CASE RunReturns
      BY <2>1 DEF RunReturns
  <2>2. CASE HandlePostedClose
      BY <2>2 DEF HandlePostedClose, Dispatches
  <2>3. CASE HandleConnected
      BY <2>3, CountsFromZero DEF HandleConnected, DispatchesOperation, Dispatches
  <2>4. CASE HandleConnectedThrows
      BY <2>4 DEF HandleConnectedThrows, DispatchesOperation, Dispatches
  <2>5. CASE HandleRefusedRetries
      BY <2>5 DEF HandleRefusedRetries, DispatchesOperation, Dispatches
  <2>6. CASE HandleRefusedGivesUp
      BY <2>6 DEF HandleRefusedGivesUp, DispatchesOperation, Dispatches
  <2>7. CASE HandleTickIgnored
      BY <2>7 DEF HandleTickIgnored, DispatchesOperation, Dispatches
  <2>8. CASE HandleTickGivesUp
      BY <2>8 DEF HandleTickGivesUp, DispatchesOperation, Dispatches
  <2>9. CASE HandleTickRetries
      BY <2>9 DEF HandleTickRetries, DispatchesOperation, Dispatches
  <2>10. CASE Restart
      BY <2>10 DEF Restart, IoStep
  <2>11. CASE Schedule
      BY <2>11, LimitFacts, CapFact DEF Schedule, IoStep
  <2>12. QED
      BY <1>7, <2>1, <2>2, <2>3, <2>4, <2>5, <2>6, <2>7, <2>8, <2>9, <2>10, <2>11 DEF
         Handlers
<1>8. CASE Session
  <2>1. CASE HandshakeOk
      BY <2>1 DEF HandshakeOk, BlockingOk, IoStep
  <2>2. CASE HandshakeFails
      BY <2>2 DEF HandshakeFails, BlockingFails, IoStep
  <2>3. CASE DeviceInfoOk
      BY <2>3 DEF DeviceInfoOk, BlockingOk, IoStep
  <2>4. CASE DeviceInfoFails
      BY <2>4 DEF DeviceInfoFails, BlockingFails, IoStep
  <2>5. CASE Publish
      BY <2>5 DEF Publish, IoStep
  <2>6. CASE NotifyFlag
      BY <2>6 DEF NotifyFlag, IoStep
  <2>7. CASE NotifyStatus
      BY <2>7 DEF NotifyStatus, IoStep
  <2>8. CASE NotifyAll
      BY <2>8 DEF NotifyAll
  <2>9. CASE Close
      BY <2>9 DEF Close, IoStep, TakeDownPage
  <2>10. CASE TakeRequest
      BY <2>10 DEF TakeRequest, IoStep
  <2>11. CASE WokenToStop
      BY <2>11 DEF WokenToStop, IoStep
  <2>12. CASE SendOk
      BY <2>12 DEF SendOk, BlockingOk, IoStep
  <2>13. CASE SendFails
      BY <2>13 DEF SendFails, BlockingFails, IoStep
  <2>14. CASE ReceiveOk
      BY <2>14 DEF ReceiveOk, BlockingOk, IoStep
  <2>15. CASE ReceiveFails
      BY <2>15 DEF ReceiveFails, BlockingFails, IoStep
  <2>16. CASE Answer
      BY <2>16 DEF Answer, IoStep
  <2>17. CASE LostRetries
      BY <2>17 DEF LostRetries, IoStep, TakeDownPage
  <2>18. CASE LostGivesUp
      BY <2>18 DEF LostGivesUp, IoStep
  <2>19. QED
      BY <1>8, <2>1, <2>2, <2>3, <2>4, <2>5, <2>6, <2>7, <2>8, <2>9, <2>10, <2>11,
         <2>12, <2>13, <2>14, <2>15, <2>16, <2>17, <2>18 DEF Session
<1>9. CASE Debugger
    BY <1>9 DEF Debugger, DebuggerSignals, DebuggerWakes, DebuggerResetsConsumer,
       DebuggerResetsProducer
<1>10. CASE UNCHANGED vars
    BY <1>10 DEF vars
<1>11. QED
    BY <1>1, <1>2, <1>3, <1>4, <1>5, <1>6, <1>7, <1>8, <1>9, <1>10 DEF Next,
       ProxyStep, Application

\* Every way to an idle or ended run() without a stop goes through the callback.
LEMMA ReportingStep ==
    ASSUME ~Reconfigure, Inductive, Reporting, [Next]_vars
    PROVE  Reporting'
<1> USE DEF Reporting, Inductive, OneOperation, FailureIsFinal, SessionAnnounced, Exchanging,
   StopDiscipline, QuietWhenStopped, TypeOK, managerVars, clientVars, ioVars, sharedVars
<1>1. CASE CallStart
    BY <1>1 DEF CallStart, ApiIdle
<1>2. CASE CallStop
    BY <1>2 DEF CallStop
<1>3. CASE (\E c \in Config : EnableAutoReconnect(c)) \/ DisableAutoReconnect
    BY <1>3 DEF EnableAutoReconnect, DisableAutoReconnect, SetReconnectConfig, ApiIdle
<1>4. CASE Stop
    BY <1>4 DEF Stop, StopFlags, StopPage, StopSocket, StopContext, StopJoin,
       TakeDownPage, BlankClient
<1>5. CASE Start
    BY <1>5 DEF Start, CreateUnresolved, CreateAndStart, StartReturns, StartBlocks,
       StartSleeps, StartWakesSpuriously, BlankClient
<1>6. CASE Network
    BY <1>6 DEF Network, ConnectSucceeds, ConnectFails, TimerExpires
<1>7. CASE Handlers
  <2>1. CASE RunReturns
      BY <2>1 DEF RunReturns
  <2>2. CASE HandlePostedClose
      BY <2>2 DEF HandlePostedClose, Dispatches
  <2>3. CASE HandleConnected
      BY <2>3 DEF HandleConnected, DispatchesOperation, Dispatches
  <2>4. CASE HandleConnectedThrows
      BY <2>4 DEF HandleConnectedThrows, DispatchesOperation, Dispatches
  <2>5. CASE HandleRefusedRetries
      BY <2>5 DEF HandleRefusedRetries, DispatchesOperation, Dispatches
  <2>6. CASE HandleRefusedGivesUp
      BY <2>6 DEF HandleRefusedGivesUp, DispatchesOperation, Dispatches
  <2>7. CASE HandleTickIgnored
      BY <2>7 DEF HandleTickIgnored, DispatchesOperation, Dispatches
  <2>8. CASE HandleTickGivesUp
      BY <2>8 DEF HandleTickGivesUp, DispatchesOperation, Dispatches
  <2>9. CASE HandleTickRetries
      BY <2>9 DEF HandleTickRetries, DispatchesOperation, Dispatches
  <2>10. CASE Restart
      BY <2>10 DEF Restart, IoStep
  <2>11. CASE Schedule
      BY <2>11 DEF Schedule, IoStep
  <2>12. QED
      BY <1>7, <2>1, <2>2, <2>3, <2>4, <2>5, <2>6, <2>7, <2>8, <2>9, <2>10, <2>11 DEF
         Handlers
<1>8. CASE Session
  <2>1. CASE HandshakeOk
      BY <2>1 DEF HandshakeOk, BlockingOk, IoStep
  <2>2. CASE HandshakeFails
      BY <2>2 DEF HandshakeFails, BlockingFails, IoStep
  <2>3. CASE DeviceInfoOk
      BY <2>3 DEF DeviceInfoOk, BlockingOk, IoStep
  <2>4. CASE DeviceInfoFails
      BY <2>4 DEF DeviceInfoFails, BlockingFails, IoStep
  <2>5. CASE Publish
      BY <2>5 DEF Publish, IoStep
  <2>6. CASE NotifyFlag
      BY <2>6 DEF NotifyFlag, IoStep
  <2>7. CASE NotifyStatus
      BY <2>7 DEF NotifyStatus, IoStep
  <2>8. CASE NotifyAll
      BY <2>8 DEF NotifyAll
  <2>9. CASE Close
      BY <2>9 DEF Close, IoStep, TakeDownPage
  <2>10. CASE TakeRequest
      BY <2>10 DEF TakeRequest, IoStep
  <2>11. CASE WokenToStop
      BY <2>11 DEF WokenToStop, IoStep
  <2>12. CASE SendOk
      BY <2>12 DEF SendOk, BlockingOk, IoStep
  <2>13. CASE SendFails
      BY <2>13 DEF SendFails, BlockingFails, IoStep
  <2>14. CASE ReceiveOk
      BY <2>14 DEF ReceiveOk, BlockingOk, IoStep
  <2>15. CASE ReceiveFails
      BY <2>15 DEF ReceiveFails, BlockingFails, IoStep
  <2>16. CASE Answer
      BY <2>16 DEF Answer, IoStep
  <2>17. CASE LostRetries
      BY <2>17 DEF LostRetries, IoStep, TakeDownPage
  <2>18. CASE LostGivesUp
      BY <2>18 DEF LostGivesUp, IoStep
  <2>19. QED
      BY <1>8, <2>1, <2>2, <2>3, <2>4, <2>5, <2>6, <2>7, <2>8, <2>9, <2>10, <2>11,
         <2>12, <2>13, <2>14, <2>15, <2>16, <2>17, <2>18 DEF Session
<1>9. CASE Debugger
    BY <1>9 DEF Debugger, DebuggerSignals, DebuggerWakes, DebuggerResetsConsumer,
       DebuggerResetsProducer
<1>10. CASE UNCHANGED vars
    BY <1>10 DEF vars
<1>11. QED
    BY <1>1, <1>2, <1>3, <1>4, <1>5, <1>6, <1>7, <1>8, <1>9, <1>10 DEF Next,
       ProxyStep, Application

\* With the configuration left alone, the attempt counter never exceeds max_attempts.
THEOREM CountWithinLimitCorrect == ASSUME ~Reconfigure PROVE Spec => []CountWithinLimit
<1>1. Init => Counting
    BY DEF Init, Counting, CountWithinLimit, DefaultConfig
<1>2. Inductive /\ Counting /\ [Next]_vars => Counting'
    BY CountingStep DEF Inductive
<1>3. Counting => CountWithinLimit
    BY DEF Counting
<1>4. QED
    BY <1>1, <1>2, <1>3, InductiveCorrect, PTL DEF Spec

\* With the configuration left alone, run() comes to an end by itself only after a
\* final failure was reported: is_proxy_running is false, the disconnect callback
\* ran, the page is down.
THEOREM EndedIsReportedCorrect == ASSUME ~Reconfigure PROVE Spec => []EndedIsReported
<1>1. Init => Reporting
    BY DEF Init, Reporting
<1>2. Inductive /\ Reporting /\ [Next]_vars => Reporting'
    BY ReportingStep
<1>3. Inductive /\ Reporting => EndedIsReported
    BY DEF Inductive, Reporting, EndedIsReported, ReadyHasAThread, Serving, Exchanging
<1>4. QED
    BY <1>1, <1>2, <1>3, InductiveCorrect, PTL DEF Spec

-----------------------------------------------------------------------------
(* The proxy implements its lifecycle.                                     *)

\* Nothing has been started: the lifecycle is off.
LEMMA LifecycleInit == Init => Lifecycle!Init
BY DEF Init, Lifecycle!Init, Phase

\* A step of the proxy is a step of its lifecycle or leaves it alone.
LEMMA LifecycleStep ==
    ASSUME Inductive, [Next]_vars
    PROVE  [Lifecycle!Next]_(Lifecycle!vars)
<1> USE DEF Inductive, TypeOK, StopPc, IoPc, StopDiscipline, QuietWhenStopped,
   ReadyHasAThread, Announcing, SessionAnnounced, OneOperation, FailureIsFinal,
   Serving, Exchanging, Phase, Failed, managerVars, clientVars, ioVars, sharedVars
<1> USE DEF Lifecycle!Next, Lifecycle!Begin, Lifecycle!Connect, Lifecycle!Announce,
   Lifecycle!Lose, Lifecycle!Report, Lifecycle!Finish, Lifecycle!BeginStop,
   Lifecycle!WhileStopping, Lifecycle!EndStop, Lifecycle!Told, Lifecycle!vars
<1>1. CASE CallStart
    BY <1>1 DEF CallStart, ApiIdle
<1>2. CASE CallStop
    BY <1>2 DEF CallStop
<1>3. CASE (\E c \in Config : EnableAutoReconnect(c)) \/ DisableAutoReconnect
    BY <1>3 DEF EnableAutoReconnect, DisableAutoReconnect, SetReconnectConfig, ApiIdle
<1>4. CASE Stop
  <2>1. CASE StopFlags
      BY <2>1 DEF StopFlags
  <2>2. CASE StopPage
    <3>1. Phase = "stopping" /\ Phase' = "stopping"
        BY <2>2 DEF StopPage
    <3>2. ready' \in BOOLEAN /\ told' \in Lifecycle!Told
        BY <2>2 DEF StopPage, TakeDownPage
    <3>3. QED
        BY <3>1, <3>2
  <2>3. CASE StopSocket
      BY <2>3 DEF StopSocket
  <2>4. CASE StopContext
      BY <2>4 DEF StopContext
  <2>5. CASE StopJoin
      BY <2>5 DEF StopJoin, BlankClient
  <2>6. QED
      BY <1>4, <2>1, <2>2, <2>3, <2>4, <2>5 DEF Stop
<1>5. CASE Start
    BY <1>5 DEF Start, CreateUnresolved, CreateAndStart, StartReturns, StartBlocks,
       StartSleeps, StartWakesSpuriously, BlankClient
<1>6. CASE Network
    BY <1>6 DEF Network, ConnectSucceeds, ConnectFails, TimerExpires
<1>7. CASE Handlers
    BY <1>7 DEF Handlers, RunReturns, HandlePostedClose, HandleConnected,
       HandleConnectedThrows, HandleRefusedRetries, HandleRefusedGivesUp,
       HandleTickIgnored, HandleTickGivesUp, HandleTickRetries, Restart, Schedule,
       Dispatches, DispatchesOperation, IoStep
<1>8. CASE Session
  <2>1. CASE HandshakeOk
      BY <2>1 DEF HandshakeOk, BlockingOk, IoStep
  <2>2. CASE HandshakeFails
      BY <2>2 DEF HandshakeFails, BlockingFails, IoStep
  <2>3. CASE DeviceInfoOk
      BY <2>3 DEF DeviceInfoOk, BlockingOk, IoStep
  <2>4. CASE DeviceInfoFails
      BY <2>4 DEF DeviceInfoFails, BlockingFails, IoStep
  <2>5. CASE Publish
    <3>1. CASE stopper # "none"
      <4>1. Phase = "stopping" /\ Phase' = "stopping"
          BY <2>5, <3>1 DEF Publish, IoStep
      <4>2. ready' \in BOOLEAN /\ told' \in Lifecycle!Told
          BY <2>5 DEF Publish, IoStep
      <4>3. QED
          BY <4>1, <4>2
    <3>2. CASE stopper = "none"
      <4>1. Phase = "trying" /\ Phase' = "serving" /\ told # "down"
          BY <2>5, <3>2 DEF Publish, IoStep
      <4>2. ready' = TRUE /\ told' = told
          BY <2>5 DEF Publish
      <4>3. QED
          BY <4>1, <4>2
    <3>3. QED
        BY <3>1, <3>2
  <2>6. CASE NotifyFlag
      BY <2>6 DEF NotifyFlag, IoStep
  <2>7. CASE NotifyStatus
      BY <2>7 DEF NotifyStatus, IoStep
  <2>8. CASE NotifyAll
      BY <2>8 DEF NotifyAll
  <2>9. CASE Close
    <3>1. CASE stopper # "none"
      <4>1. Phase = "stopping" /\ Phase' = "stopping"
          BY <2>9, <3>1 DEF Close, IoStep
      <4>2. ready' \in BOOLEAN /\ told' \in Lifecycle!Told
          BY <2>9 DEF Close, IoStep, TakeDownPage
      <4>3. QED
          BY <4>1, <4>2
    <3>2. CASE stopper = "none"
      <4>1. Phase \in {"trying", "serving"} /\ Phase' = "over" /\ told = "down"
          BY <2>9, <3>2 DEF Close, IoStep
      <4>2. ready' = FALSE /\ told' = told
          BY <2>9 DEF Close, TakeDownPage
      <4>3. QED
          BY <4>1, <4>2
    <3>3. QED
        BY <3>1, <3>2
  <2>10. CASE TakeRequest
      BY <2>10 DEF TakeRequest, IoStep
  <2>11. CASE WokenToStop
      BY <2>11 DEF WokenToStop, IoStep
  <2>12. CASE SendOk
      BY <2>12 DEF SendOk, BlockingOk, IoStep
  <2>13. CASE SendFails
      BY <2>13 DEF SendFails, BlockingFails, IoStep
  <2>14. CASE ReceiveOk
      BY <2>14 DEF ReceiveOk, BlockingOk, IoStep
  <2>15. CASE ReceiveFails
      BY <2>15 DEF ReceiveFails, BlockingFails, IoStep
  <2>16. CASE Answer
      BY <2>16 DEF Answer, IoStep
  <2>17. CASE LostRetries
    <3>1. CASE stopper # "none"
      <4>1. Phase = "stopping" /\ Phase' = "stopping"
          BY <2>17, <3>1 DEF LostRetries, IoStep
      <4>2. ready' \in BOOLEAN /\ told' \in Lifecycle!Told
          BY <2>17 DEF LostRetries, IoStep, TakeDownPage
      <4>3. QED
          BY <4>1, <4>2
    <3>2. CASE stopper = "none"
      <4>1. told # "down" /\ Phase = (IF ready THEN "serving" ELSE "trying")
          BY <2>17, <3>2 DEF LostRetries, IoStep
      <4>2. Phase' = "trying" /\ ready' = FALSE /\ told' = told
          BY <2>17, <3>2 DEF LostRetries, IoStep, TakeDownPage
      <4>3. QED
          BY <4>1, <4>2
    <3>3. QED
        BY <3>1, <3>2
  <2>18. CASE LostGivesUp
      BY <2>18 DEF LostGivesUp, IoStep
  <2>19. QED
      BY <1>8, <2>1, <2>2, <2>3, <2>4, <2>5, <2>6, <2>7, <2>8, <2>9, <2>10, <2>11,
         <2>12, <2>13, <2>14, <2>15, <2>16, <2>17, <2>18 DEF Session
<1>9. CASE Debugger
    BY <1>9 DEF Debugger, DebuggerSignals, DebuggerWakes, DebuggerResetsConsumer,
       DebuggerResetsProducer
<1>10. CASE UNCHANGED vars
    BY <1>10 DEF vars
<1>11. QED
    BY <1>1, <1>2, <1>3, <1>4, <1>5, <1>6, <1>7, <1>8, <1>9, <1>10 DEF Next,
       ProxyStep, Application

\* The many places of the client are the five phases of its lifecycle: a
\* reported failure is final until the next start, the page is ready only
\* while a client serves, and a stop ends with the page withdrawn.
THEOREM LifecycleImplemented == Spec => ImplementsLifecycle
<1>1. Init => Lifecycle!Init
    BY LifecycleInit
<1>2. Inductive /\ [Next]_vars => [Lifecycle!Next]_(Lifecycle!vars)
    BY LifecycleStep
<1>3. QED
    BY <1>1, <1>2, InductiveCorrect, PTL DEF Spec, ImplementsLifecycle, Lifecycle!Spec
=============================================================================
