------------------------ MODULE IntegrationTestProofs ------------------------
(***************************************************************************)
(* Theorems about the integration tests: whatever a test calls, and for    *)
(* any number of sessions, the logs hold messages only, and the sessions   *)
(* and the Mediator keep the promises of the system without a test thread. *)
(* Then what is exchanged in detail, an invariant of the tests with one    *)
(* session, and what the handlers do in the tests with two, from which     *)
(* PairTestProofs and RepositoryTestsProofs go on.                         *)
(***************************************************************************)
EXTENDS IntegrationTest, P2pscProofs

(* Most leaves are first-order; the ones that are not cite SMT. *)
USE Zenon

HarnessInv == HarnessTypeOK /\ CoreInv

(* The sessions that a call is about. *)
LEMMA Components ==
  ASSUME NEW A, NEW B, NEW c
  PROVE  /\ c \in A \X B => c[1] \in A /\ c[2] \in B
         /\ c \in A \X B \X B => c[1] \in A /\ c[2] \in B /\ c[3] \in B
  BY SMT

(* The calls of a script are calls that a test can make. *)
LEMMA Callee ==
  ASSUME HarnessTypeOK, line <= Len(script.calls)
  PROVE  /\ script.calls[line] \in Call
         /\ \A name \in {"connect_async", "connect_sync", "send", "receive",
                         "assert advertise", "assert identity",
                         "assert received", "assert identification",
                         "assert handshake"} :
              Calling(name) => Who \in Session
<1>1. script.calls \in Seq(Call) /\ line \in 1 .. Len(script.calls)
  BY SMT, HarnessAssumption DEF HarnessTypeOK
<1>2. script.calls[line] \in Call
  BY SMT, <1>1
<1>3. ASSUME NEW c \in Call, c[1] \notin {"run", "block", "await_shutdown"}
      PROVE  c[2] \in Session
  <2>1. CASE c \in {<<"run">>, <<"block">>, <<"await_shutdown">>}
    BY SMT, <1>3, <2>1
  <2>2. CASE c \in {"connect_async", "connect_sync", "send", "receive",
                    "assert advertise", "assert identity", "assert received"}
                     \X Session
    BY <2>2, Components
  <2>3. CASE c \in {"assert identification", "assert handshake"}
                     \X Session \X Session
    BY <2>3, Components
  <2> QED BY <2>1, <2>2, <2>3 DEF Call
<1> QED BY <1>2, <1>3 DEF Calling, Who

(* A non-empty sequence ends with one of its elements. *)
LEMMA Lasts ==
  ASSUME NEW S, NEW q \in Seq(S)
  PROVE  /\ q # <<>> => Last(q) \in S /\ Last(q) = q[Len(q)] /\ Len(q) \in DOMAIN q
         /\ \A m \in S : Append(q, m) \in Seq(S) /\ Last(Append(q, m)) = m
  BY SMT DEF Last

(* The end that a callback got is an end of a p2p connection. *)
LEMMA SocketGiven ==
  ASSUME SessionInv, NEW s \in Session, GivenSocket(s)
  PROVE  /\ GotSocket(s) /\ P2pEnd(s) \in Endpoint
         /\ \E c \in Session : P2pEnd(s) \in {ClientEnd(c), PeerEnd(c)}
<1>1. callbacks[s] \in Seq(ErrorKind \cup {"socket"})
  BY DEF SessionInv, ConnectionTypeOK
<1>2. GotSocket(s)
  BY <1>1, Lasts DEF GivenSocket, GotSocket
<1>3. Partner(s) \in Session
  BY <1>2 DEF SessionInv, Defined
<1> QED BY <1>2, <1>3, P2pEnds DEF Partner, P2pEnd
-----------------------------------------------------------------------------
(* The sockets between two sessions are none of the Mediator's. *)
LEMMA TalkInboxes ==
  ASSUME SessionInv, NetTypeOK, NEW s \in Session, GivenSocket(s),
         Send(P2pEnd(s), ApplicationData) \/ Receive(P2pEnd(s))
  PROVE  \A t \in Session : /\ inbox'[MedEnd(t)] = inbox[MedEnd(t)]
                            /\ inbox'[HandlerEnd(t)] = inbox[HandlerEnd(t)]
<1>1. PICK c \in Session : P2pEnd(s) \in {ClientEnd(c), PeerEnd(c)}
  BY SocketGiven
<1>2. P2pEnd(s) \in Endpoint /\ Far(P2pEnd(s)) \in {ClientEnd(c), PeerEnd(c)}
  BY <1>1, Ends
<1>3. ASSUME NEW t \in Session
      PROVE  \A e \in {MedEnd(t), HandlerEnd(t)} :
               e \in Endpoint /\ e # P2pEnd(s) /\ e # Far(P2pEnd(s))
  <2>1. \A e \in {MedEnd(t), HandlerEnd(t)} :
          e \in Endpoint /\ e # ClientEnd(c) /\ e # PeerEnd(c)
    BY Ends
  <2> QED BY <1>1, <1>2, <2>1
<1>4. CASE Send(P2pEnd(s), ApplicationData)
  BY <1>2, <1>3, <1>4, SendAppends
<1>5. CASE Receive(P2pEnd(s))
  BY <1>2, <1>3, <1>5, ReceiveTakes
<1> QED BY <1>4, <1>5

(* TestSend and TestReceive. *)
LEMMA CoreTalk ==
  ASSUME CoreInv, NEW s \in Session, GivenSocket(s),
         \/ Send(P2pEnd(s), ApplicationData)
         \/ inbox[P2pEnd(s)] # <<>> /\ Receive(P2pEnd(s)),
         UNCHANGED <<open, medVars, peerVars, handlerVars>>
  PROVE  CoreInv'
<1>1. SessionInv /\ KeysInv /\ NetTypeOK
  BY DEF CoreInv, Inv, SessionInv, ConnectionTypeOK
<1>2. PICK c \in Session : P2pEnd(s) \in {ClientEnd(c), PeerEnd(c)}
  BY <1>1, SocketGiven
<1>3. P2pEnd(s) \in Endpoint /\ Far(P2pEnd(s)) \in {ClientEnd(c), PeerEnd(c)}
  BY <1>2, Ends
<1>4. ApplicationData \in Message
  BY Constructors
<1>5. NetTypeOK'
  BY <1>1, <1>3, <1>4, SendAdds, ReceiveRemoves DEF NetTypeOK
<1>6. \A t \in Session : /\ inbox'[MedEnd(t)] = inbox[MedEnd(t)]
                         /\ inbox'[HandlerEnd(t)] = inbox[HandlerEnd(t)]
  BY <1>1, TalkInboxes
<1>7. /\ \A t \in Session : Same(t)
      /\ DialKept
  BY DEF Same, DialKept, medVars, peerVars
<1>8. Verified(s)'
  BY <1>1
  DEF KeysInv, Verified, GotSocket, Partner, Role, medVars, peerVars
<1>9. ASSUME NEW d \in Session
      PROVE  /\ \A m \in Unread(PeerEnd(d))' :
                  m \in Unread(PeerEnd(d)) \/ PeerMayRead(d, m)'
             /\ \A m \in Unread(ClientEnd(d))' :
                  m \in Unread(ClientEnd(d)) \/ ClientMayRead(d, m)'
  <2>1. ApplicationData.type = "ApplicationData"
    BY DEF ApplicationData, Blank
  <2>2. PeerMayRead(d, ApplicationData)' /\ ClientMayRead(d, ApplicationData)'
    BY <2>1 DEF PeerMayRead, ClientMayRead
  <2>3. CASE Send(P2pEnd(s), ApplicationData)
    <3>1. \A f \in Endpoint : \A x \in Unread(f)' :
            x \in Unread(f) \/ x = ApplicationData
      BY <1>1, <1>3, <1>4, <2>3, SendAdds
    <3> QED BY <2>2, <3>1, Ends
  <2>4. CASE inbox[P2pEnd(s)] # <<>> /\ Receive(P2pEnd(s))
    BY <1>1, <1>3, <2>4, Ends, ReceiveRemoves
  <2> QED BY <2>3, <2>4
<1>10. KeysInv'
  BY <1>1, <1>7, <1>8, <1>9, KeysStep
<1> QED BY <1>5, <1>6, <1>10, CoreSockets

(* The end of a test. *)
LEMMA CoreUnwind ==
  ASSUME CoreInv, Unwind
  PROVE  CoreInv'
<1>1. SessionInv /\ KeysInv /\ NetTypeOK
  BY DEF CoreInv, Inv, SessionInv, ConnectionTypeOK
<1>2. /\ UNCHANGED <<inbox, medVars, peerVars, handlerVars>>
      /\ open' = [e \in Endpoint |-> open[e] /\ e \notin P2pEndpoint]
  BY DEF Unwind
<1>3. NetTypeOK'
  BY <1>1, <1>2 DEF NetTypeOK
<1>4. \A t \in Session : MedEnd(t) \notin P2pEndpoint /\ HandlerEnd(t) \notin P2pEndpoint
  BY Ends DEF P2pEndpoint
<1>5. \A t \in Session : /\ open'[MedEnd(t)] = open[MedEnd(t)]
                         /\ open'[HandlerEnd(t)] = open[HandlerEnd(t)]
  BY <1>1, <1>2, <1>4, Ends DEF NetTypeOK
<1>6. mediatorUp' \in BOOLEAN
  BY <1>1, <1>2 DEF medVars, SessionInv, ConnectionTypeOK, MediatorConnectionTypeOK
<1>7. KeysInv'
  BY <1>1, <1>2, <1>3, <1>6, NoTraffic, OthersKeep DEF medVars
<1> QED BY <1>2, <1>3, <1>5, <1>7, CoreSockets
-----------------------------------------------------------------------------
(***************************************************************************)
(* A handler logs the message that it received, and the message that it    *)
(* sent: while it sends, the session's socket is open.                     *)
(***************************************************************************)
LEMMA HandlerLogsMessages ==
  ASSUME CoreInv, NEW s \in Session, Handler(s), handler'[s] # handler[s]
  PROVE  /\ handler[s] \in Receives =>
              /\ inbox[HandlerEnd(s)] # <<>>
              /\ Head(inbox[HandlerEnd(s)]) \in Message
         /\ handler[s] \in Sends =>
              \E m \in Message :
                /\ Send(HandlerEnd(s), m)
                /\ inbox'[MedEnd(s)] = Append(inbox[MedEnd(s)], m)
                /\ Last(inbox'[MedEnd(s)]) = m
<1>1. NetTypeOK
  BY DEF CoreInv, Inv, SessionInv, ConnectionTypeOK
<1>2. PICK to \in Running \cup Returned : Moves(s, to)
  BY CoreHandler
<1>3. ASSUME handler[s] \in Receives
      PROVE  /\ inbox[HandlerEnd(s)] # <<>>
             /\ Head(inbox[HandlerEnd(s)]) \in Message
  <2>1. inbox[HandlerEnd(s)] # <<>>
    BY <1>2, <1>3 DEF Moves, Thinks, Listens, Says, Receives, Registered
  <2> QED BY <1>1, <2>1, Ends, HeadUnread
<1>4. ASSUME handler[s] \in Sends
      PROVE  \E m \in Message :
               /\ Send(HandlerEnd(s), m)
               /\ inbox'[MedEnd(s)] = Append(inbox[MedEnd(s)], m)
               /\ Last(inbox'[MedEnd(s)]) = m
  <2>1. PICK m \in Message : Send(HandlerEnd(s), m)
    <3>1. CASE handler[s] \in {"abort", "challenge"}
      BY <1>2, <3>1 DEF Moves, Thinks, Listens, Says, Registered
    <3>2. mediatorUp' /\ HandlerDefined(s)
      BY CoreHandler DEF CoreInv, Inv, HandlerInv
    <3>3. CASE handler[s] = "identify"
      <4>1. awaited[s].version \in Version /\ awaited[s].address \in Address
        BY SMT, <3>2, <3>3 DEF HandlerDefined, PeerIdentifier
      <4> QED BY <3>2, <3>3, <4>1, HandlerAt, Constructors
              DEF HandlerSendIdentification
    <3>4. CASE handler[s] = "disconnect"
      BY <3>2, <3>4, HandlerAt, Constructors DEF HandlerSendDisconnect, Address
    <3> QED BY <1>4, <3>1, <3>3, <3>4 DEF Sends
  <2>2. open[MedEnd(s)]
    <3>1. Live(s) /\ Progress(s)
      BY DEF CoreInv
    <3>2. handler[s] \in Running \ {"addDisconnect"}
      BY <1>4 DEF Sends, Running
    <3> QED BY <3>1, <3>2 DEF Live, Progress, MediatorStage, AtMediator
  <2>3. inbox'[MedEnd(s)] = Append(inbox[MedEnd(s)], m)
    <3>1. HandlerEnd(s) \in Endpoint /\ Far(HandlerEnd(s)) = MedEnd(s)
      BY Ends
    <3>2. open[Far(HandlerEnd(s))]
      BY <2>2, <3>1
    <3> QED BY <1>1, <2>1, <3>1, <3>2, SendAppends
  <2>4. inbox[MedEnd(s)] \in Seq(Message)
    BY <1>1, Ends DEF NetTypeOK
  <2>5. Last(Append(inbox[MedEnd(s)], m)) = m
    BY <2>4, Lasts
  <2> QED BY <2>1, <2>3, <2>5
<1> QED BY <1>3, <1>4

(* So the logs of the FakeMediator are sequences of messages. *)
LEMMA HandlerLogsTyped ==
  ASSUME HarnessInv, NEW s \in Session, Handler(s), HandlerLogs(s)
  PROVE  received_messages' \in Seq(Message) /\ sent_messages' \in Seq(Message)
<1>1. CoreInv /\ received_messages \in Seq(Message) /\ sent_messages \in Seq(Message)
  BY DEF HarnessInv, HarnessTypeOK
<1>2. received_messages' \in Seq(Message)
  <2>1. CASE handler[s] \in Receives /\ handler'[s] # handler[s]
    <3>1. received_messages' = Append(received_messages, Head(inbox[HandlerEnd(s)]))
      BY <2>1 DEF HandlerLogs
    <3> QED BY <1>1, <2>1, <3>1, HandlerLogsMessages, Lasts
  <2> QED BY <1>1, <2>1 DEF HandlerLogs
<1>3. sent_messages' \in Seq(Message)
  <2>1. CASE handler[s] \in Sends /\ handler'[s] # handler[s]
    <3>1. sent_messages' = Append(sent_messages, Last(inbox'[MedEnd(s)]))
      BY <2>1 DEF HandlerLogs
    <3> QED BY <1>1, <2>1, <3>1, HandlerLogsMessages, Lasts
  <2> QED BY <1>1, <2>1 DEF HandlerLogs
<1> QED BY <1>2, <1>3

(* The same for the StatefulSockets. *)
LEMMA SocketLogsTyped ==
  ASSUME HarnessTypeOK, NetTypeOK, NetTypeOK', SocketLogs
  PROVE  stateful' \in [P2pEndpoint -> [sent : Seq(Message), received : Seq(Message)]]
<1>1. ASSUME NEW e \in P2pEndpoint
      PROVE  /\ inbox[e] \in Seq(Message) /\ inbox'[e] \in Seq(Message)
             /\ inbox[Far(e)] \in Seq(Message) /\ inbox'[Far(e)] \in Seq(Message)
             /\ stateful[e].sent \in Seq(Message)
             /\ stateful[e].received \in Seq(Message)
  <2>1. e \in Endpoint /\ Far(e) \in Endpoint
    BY Ends DEF P2pEndpoint
  <2> QED BY SMT, <2>1 DEF NetTypeOK, HarnessTypeOK
<1>2. ASSUME NEW q \in Seq(Message), NEW r \in Seq(Message), NEW log \in Seq(Message)
      PROVE  /\ Len(r) > Len(q) => Append(log, Last(r)) \in Seq(Message)
             /\ Len(r) < Len(q) => Append(log, Head(q)) \in Seq(Message)
  <2>1. /\ Len(r) > Len(q) => r # <<>>
        /\ Len(r) < Len(q) => q # <<>>
    BY SMT
  <2>2. q # <<>> => Head(q) \in Message
    BY SMT
  <2> QED BY <2>1, <2>2, Lasts
<1>3. ASSUME NEW e \in P2pEndpoint
      PROVE  /\ (IF Len(inbox'[Far(e)]) > Len(inbox[Far(e)])
                    THEN Append(stateful[e].sent, Last(inbox'[Far(e)]))
                    ELSE stateful[e].sent) \in Seq(Message)
             /\ (IF Len(inbox'[e]) < Len(inbox[e])
                    THEN Append(stateful[e].received, Head(inbox[e]))
                    ELSE stateful[e].received) \in Seq(Message)
  BY <1>1, <1>2
<1> QED BY <1>3 DEF SocketLogs
-----------------------------------------------------------------------------
(* Where the test thread and the worker can be after a step. *)
ControlOK ==
  /\ script \in Scripts
  /\ line \in 1 .. Len(script.calls) + 1
  /\ phase \in {"at", "called", "waiting", "missed", "notified", "close",
                "joinWorker", "joinHandlers", "stopped"}
  /\ running \in BOOLEAN /\ listening \in BOOLEAN
  /\ worker \in {"none", "check", "enter", "accept", "returned", "aborted"}

(* A step of the test thread stays inside its script. *)
LEMMA TestControl ==
  ASSUME ControlOK, TestThread \/ WakeEarly
  PROVE  ControlOK'
<1>1. ASSUME line <= Len(script.calls), NextCall
      PROVE  /\ script' \in Scripts /\ phase' = "at"
             /\ line' \in 1 .. Len(script.calls)' + 1
  <2>1. line + 1 \in 1 .. Len(script.calls) + 1
    <3>1. Len(script.calls) \in Nat
      BY SMT, HarnessAssumption DEF ControlOK
    <3> QED BY SMT, <1>1, <3>1 DEF ControlOK
  <2> QED BY <1>1, <2>1 DEF NextCall, ControlOK
<1>2. /\ script' \in Scripts
      /\ line' \in 1 .. Len(script.calls)' + 1
      /\ phase' \in {"at", "called", "waiting", "missed", "notified", "close",
                     "joinWorker", "joinHandlers", "stopped"}
  <2>1. ASSUME NEW from, NEW to, InPhase(from, to),
               to \in {"called", "waiting", "missed", "notified", "close",
                       "joinWorker", "joinHandlers", "stopped"}
        PROVE  /\ script' \in Scripts /\ phase' = to
               /\ line' \in 1 .. Len(script.calls)' + 1
    BY <2>1 DEF InPhase, ControlOK
  <2>2. CASE Unwind \/ StopCloses \/ StopJoins \/ ConnectSync \/ WaitForCallback
    BY <2>1, <2>2
    DEF Unwind, StopCloses, StopJoins, ConnectSync, WaitForCallback
  <2>3. CASE AwaitShutdown
    BY <1>1, <2>1, <2>3 DEF AwaitShutdown, Calling
  <2>4. CASE Run \/ ConnectAsync \/ ConnectSyncReturns \/ Block \/ TestAssert
               \/ TestSend \/ TestReceive \/ WakeEarly
    <3>1. line <= Len(script.calls) /\ NextCall
      BY <2>4
      DEF Run, ConnectAsync, ConnectSyncReturns, Block, TestAssert, TestSend,
          TestReceive, WakeEarly, Calling
    <3> QED BY <1>1, <3>1
  <2> QED BY <2>2, <2>3, <2>4 DEF TestThread
<1>3. /\ running' \in BOOLEAN /\ listening' \in BOOLEAN
      /\ worker' \in {"none", "check", "enter", "accept", "returned", "aborted"}
  BY DEF TestThread, Run, ConnectAsync, ConnectSync, WaitForCallback,
         ConnectSyncReturns, Block, AwaitShutdown, TestAssert, TestSend,
         TestReceive, Unwind, StopCloses, StopJoins, WakeEarly, workerVars,
         ControlOK
<1> QED BY <1>2, <1>3 DEF ControlOK

(* Nor do the steps of the other threads leave it. *)
LEMMA OthersControl ==
  ASSUME ControlOK,
         \/ WorkerStep
         \/ \E s \in Session : \/ WorkerAccept(s) \/ HandlerStep(s)
                               \/ HandlerGivesUp(s) \/ ClientStep(s)
  PROVE  ControlOK'
<1>1. CASE WorkerStep \/ \E s \in Session : WorkerAccept(s) \/ ClientStep(s)
  BY <1>1
  DEF WorkerStep, WorkerAccept, ClientStep, Work, testVars, workerVars, ControlOK
<1>2. CASE \E s \in Session : HandlerStep(s)
  BY <1>2 DEF HandlerStep, workerVars, ControlOK
<1>3. CASE \E s \in Session : HandlerGivesUp(s)
  BY <1>3 DEF HandlerGivesUp, harnessVars, testVars, workerVars, ControlOK
<1> QED BY <1>1, <1>2, <1>3

(***************************************************************************)
(* A step of the test thread, of the worker, of a handler or of a session. *)
(***************************************************************************)
LEMMA HarnessStep ==
  ASSUME HarnessInv, [HarnessNext]_allVars
  PROVE  HarnessInv'
<1>1. HarnessTypeOK /\ CoreInv /\ ControlOK
  BY DEF HarnessInv, HarnessTypeOK, ControlOK
<1>2. ASSUME NetTypeOK'
      PROVE  SocketLogs => stateful' \in
               [P2pEndpoint -> [sent : Seq(Message), received : Seq(Message)]]
  BY <1>1, <1>2, SocketLogsTyped
  DEF CoreInv, Inv, SessionInv, ConnectionTypeOK
<1>3. CoreInv' => NetTypeOK'
  BY DEF CoreInv, Inv, SessionInv, ConnectionTypeOK
<1>4. ASSUME ControlOK', CoreInv', UNCHANGED <<received_messages, sent_messages>>,
             UNCHANGED stateful \/ SocketLogs
      PROVE  HarnessInv'
  BY <1>1, <1>2, <1>3, <1>4 DEF HarnessInv, HarnessTypeOK, ControlOK
<1>5. UNCHANGED vars => CoreInv'
  <2> SUFFICES ASSUME UNCHANGED vars PROVE CoreInv'
    OBVIOUS
  <2>1. UNCHANGED <<inbox, open, medVars, peerVars, handlerVars, mediatorUp>>
    BY DEF vars, sessionVars, netVars, medVars
  <2>2. NetTypeOK' /\ KeysInv'
    <3>1. NetTypeOK' /\ mediatorUp' \in BOOLEAN
      BY <1>1, <2>1
      DEF CoreInv, Inv, SessionInv, ConnectionTypeOK, NetTypeOK,
          MediatorConnectionTypeOK
    <3> QED BY <1>1, <2>1, <3>1, NoTraffic, OthersKeep DEF CoreInv, Inv, medVars
  <2> QED BY <1>1, <2>1, <2>2, CoreSockets
<1>6. CASE UNCHANGED allVars
  <2>1. UNCHANGED vars /\ UNCHANGED <<testVars, workerVars, logVars>>
    BY <1>6 DEF allVars, harnessVars
  <2>2. ControlOK'
    BY <1>1, <2>1 DEF ControlOK, testVars, workerVars
  <2> QED BY <1>4, <1>5, <2>1, <2>2 DEF logVars
<1>7. CASE TestThread \/ WakeEarly
  <2>1. ControlOK'
    BY <1>1, <1>7, TestControl
  <2>2. CASE Run \/ WaitForCallback \/ ConnectSyncReturns \/ Block
               \/ AwaitShutdown \/ TestAssert \/ StopCloses \/ StopJoins
               \/ WakeEarly
    <3>1. UNCHANGED vars /\ UNCHANGED logVars
      BY <2>2
      DEF Run, WaitForCallback, ConnectSyncReturns, Block, AwaitShutdown,
          TestAssert, StopCloses, StopJoins, WakeEarly
    <3> QED BY <1>4, <1>5, <2>1, <3>1 DEF logVars
  <2>3. CASE ConnectAsync \/ ConnectSync
    <3>1. /\ Connect(Who) /\ UNCHANGED handlerVars /\ UNCHANGED logVars
          /\ Who \in Session
      BY <1>1, <2>3, Callee DEF ConnectAsync, ConnectSync, Calling
    <3>2. CoreInv'
      BY <1>1, <3>1, CoreSession
    <3> QED BY <1>4, <2>1, <3>1, <3>2 DEF logVars
  <2>4. CASE TestSend \/ TestReceive
    <3>1. Who \in Session
      BY <1>1, <2>4, Callee DEF TestSend, TestReceive, Calling
    <3>2. CoreInv'
      BY <1>1, <2>4, <3>1, CoreTalk DEF TestSend, TestReceive
    <3> QED BY <1>4, <2>1, <2>4, <3>2 DEF TestSend, TestReceive
  <2>5. CASE Unwind
    BY <1>1, <1>4, <2>1, <2>5, CoreUnwind DEF Unwind, logVars
  <2> QED BY <1>7, <2>2, <2>3, <2>4, <2>5 DEF TestThread
<1>8. CASE WorkerStep
  <2>1. ControlOK'
    BY <1>1, <1>8, OthersControl
  <2> QED BY <1>4, <1>5, <1>8, <2>1 DEF WorkerStep, logVars
<1>9. ASSUME NEW s \in Session, WorkerAccept(s) \/ HandlerStep(s)
      PROVE  HarnessInv'
  <2>1. ControlOK' /\ Handler(s)
    BY <1>1, <1>9, OthersControl
    DEF WorkerAccept, HandlerStep, HandlerAccept, Handler
  <2>2. CoreInv'
    BY <1>1, <2>1, CoreHandler
  <2>3. CASE WorkerAccept(s)
    BY <1>4, <2>1, <2>2, <2>3 DEF WorkerAccept, logVars
  <2>4. CASE HandlerStep(s)
    <3>1. received_messages' \in Seq(Message) /\ sent_messages' \in Seq(Message)
      BY <2>1, <2>4, HandlerLogsTyped DEF HandlerStep
    <3>2. UNCHANGED stateful
      BY <2>4 DEF HandlerStep
    <3> QED BY <1>1, <2>1, <2>2, <3>1, <3>2
            DEF HarnessInv, HarnessTypeOK, ControlOK
  <2> QED BY <1>9, <2>3, <2>4
<1>10. ASSUME NEW s \in Session, ClientStep(s)
       PROVE  HarnessInv'
  <2>1. ControlOK'
    BY <1>1, <1>10, OthersControl
  <2>2. CoreInv'
    BY <1>1, <1>10, CoreSession DEF ClientStep, SessionStep
  <2> QED BY <1>4, <1>10, <2>1, <2>2 DEF ClientStep
<1>11. ASSUME NEW s \in Session, HandlerGivesUp(s)
       PROVE  HarnessInv'
  <2>1. ControlOK'
    BY <1>1, <1>11, OthersControl
  <2>2. CoreInv'
    BY <1>1, <1>11, CoreHandler DEF HandlerGivesUp
  <2> QED BY <1>4, <1>11, <2>1, <2>2 DEF HandlerGivesUp, harnessVars, logVars
<1> QED BY <1>6, <1>7, <1>8, <1>9, <1>10, <1>11 DEF HarnessNext

(* The invariant of any test. *)
LEMMA HarnessInvHolds == HarnessSpec => []HarnessInv
<1>1. HarnessInit => HarnessInv
  <2> SUFFICES ASSUME HarnessInit PROVE HarnessInv
    OBVIOUS
  <2>1. CoreInv
    BY CoreInitially DEF HarnessInit
  <2>2. line \in 1 .. Len(script.calls) + 1
    <3>1. Len(script.calls) \in Nat
      BY SMT, HarnessAssumption DEF HarnessInit
    <3> QED BY SMT, <3>1 DEF HarnessInit
  <2>3. /\ received_messages \in Seq(Message) /\ sent_messages \in Seq(Message)
        /\ stateful \in [P2pEndpoint ->
             [sent : Seq(Message), received : Seq(Message)]]
    BY SMT DEF HarnessInit
  <2> QED BY <2>1, <2>2, <2>3 DEF HarnessInit, HarnessInv, HarnessTypeOK
<1>2. HarnessInv /\ [HarnessNext]_allVars => HarnessInv'
  BY HarnessStep
<1> QED BY <1>1, <1>2, PTL DEF HarnessSpec

(***************************************************************************)
(* Whatever a test calls, the test thread, the worker and the logs keep    *)
(* their types: _receive_and_log and _send_and_log log the message that    *)
(* they received or sent, and so do the StatefulSockets.                   *)
(***************************************************************************)
THEOREM HarnessTypeCorrect == HarnessSpec => []HarnessTypeOK
<1>1. HarnessInv => HarnessTypeOK
  BY DEF HarnessInv
<1> QED BY <1>1, HarnessInvHolds, PTL

(***************************************************************************)
(* No handler throws, whatever a test calls and whenever it begins to use  *)
(* or destroys the sockets that it was given.                              *)
(***************************************************************************)
THEOREM HarnessMediatorHolds == HarnessSpec => []MediatorSurvives
<1>1. HarnessInv => MediatorSurvives
  BY DEF HarnessInv, CoreInv, MediatorSurvives
<1> QED BY <1>1, HarnessInvHolds, PTL

(***************************************************************************)
(* The other promises of the system that a test thread does not disturb.   *)
(***************************************************************************)
THEOREM HarnessPromises ==
  HarnessSpec => [](/\ TypeOK /\ Authenticated /\ ErrorKindIsTruthful
                    /\ CloseIsLegal /\ DisconnectSentFirst
                    /\ OneIdentificationPerDisconnect)
<1>1. HarnessInv => /\ TypeOK /\ Authenticated /\ DisconnectSentFirst
                    /\ OneIdentificationPerDisconnect
  BY KeysAuthenticate
  DEF HarnessInv, CoreInv, Inv, SessionInv, HandlerInv, TypeOK, Ordered,
      Disconnected, DisconnectSentFirst
<1>2. HarnessInv => ErrorKindIsTruthful /\ CloseIsLegal
  BY ProgressPromises DEF HarnessInv, CoreInv, Inv
<1> QED BY <1>1, <1>2, HarnessInvHolds, PTL
-----------------------------------------------------------------------------
(***************************************************************************)
(* Everything that holds of any test in which no handler gives up waiting  *)
(* for a Peer, and the steps of such a test: what one does to the sessions *)
(* and handlers.                                                           *)
(***************************************************************************)
Patient == "await" \notin script.early

BaseInv == HarnessInv /\ WireInv /\ quit_after = script.quit_after

(* The test thread or the worker alone. *)
Aside == \/ Run \/ WaitForCallback \/ ConnectSyncReturns \/ Block \/ AwaitShutdown
         \/ TestAssert \/ StopCloses \/ StopJoins \/ WakeEarly \/ WorkerStep

(* A step that leaves what WireInv reads alone keeps it. *)
LEMMA WireAside ==
  ASSUME WireInv, UNCHANGED <<medVars, peerVars, handlerVars>>,
         \A t \in Session : /\ inbox'[MedEnd(t)] = inbox[MedEnd(t)]
                            /\ inbox'[HandlerEnd(t)] = inbox[HandlerEnd(t)]
  PROVE  WireInv' /\ UNCHANGED quit_after
<1>1. ASSUME NEW t \in Session PROVE WireSame(t)
  BY DEF WireSame, Same, medVars, peerVars, handlerVars
<1>2. UNCHANGED quit_after
  BY DEF handlerVars
<1> QED BY <1>1, <1>2, WireKept, StoredKept DEF WireInv

(* A test is not changed while it runs. *)
LEMMA ScriptStays ==
  ASSUME [HarnessNext]_allVars
  PROVE  UNCHANGED script
  BY DEF HarnessNext, TestThread, Run, ConnectAsync, ConnectSync, WaitForCallback,
         ConnectSyncReturns, Block, AwaitShutdown, TestAssert, TestSend,
         TestReceive, Unwind, StopCloses, StopJoins, WakeEarly, NextCall, InPhase,
         WorkerStep, WorkerAccept, HandlerStep, HandlerGivesUp, ClientStep,
         testVars, allVars, harnessVars

(* Every step of a test keeps what is exchanged in order. *)
LEMMA BaseStep ==
  ASSUME Patient, BaseInv, [HarnessNext]_allVars
  PROVE  BaseInv'
<1>1. HarnessInv' /\ CoreInv /\ WireInv /\ SessionInv /\ NetTypeOK /\ HarnessTypeOK
  BY HarnessStep DEF BaseInv, HarnessInv, CoreInv, Inv, SessionInv, ConnectionTypeOK
<1>2. UNCHANGED script
  BY ScriptStays
<1>3. ASSUME UNCHANGED vars PROVE WireInv' /\ UNCHANGED quit_after
  <2>1. UNCHANGED <<medVars, peerVars, handlerVars>> /\ UNCHANGED inbox
    BY <1>3 DEF vars, sessionVars, netVars
  <2> QED BY <1>1, <2>1, WireAside
<1>4. CASE UNCHANGED allVars
  BY <1>1, <1>2, <1>3, <1>4 DEF allVars, BaseInv
<1>5. CASE Aside
  <2>1. UNCHANGED vars
    BY <1>5
    DEF Aside, Run, WaitForCallback, ConnectSyncReturns, Block, AwaitShutdown,
        TestAssert, StopCloses, StopJoins, WakeEarly, WorkerStep
  <2> QED BY <1>1, <1>2, <1>3, <2>1 DEF BaseInv
<1>6. ASSUME NEW s \in Session, Connect(s) \/ Thread(s), UNCHANGED handlerVars
      PROVE  BaseInv'
  <2>1. WireInv' /\ UNCHANGED quit_after
    BY <1>1, <1>6, WireSession DEF handlerVars
  <2> QED BY <1>1, <1>2, <2>1 DEF BaseInv
<1>7. CASE ConnectAsync \/ ConnectSync
  <2>1. Connect(Who) /\ UNCHANGED handlerVars /\ Who \in Session
    BY <1>1, <1>7, Callee DEF ConnectAsync, ConnectSync, Calling
  <2> QED BY <1>6, <2>1
<1>8. CASE TestSend \/ TestReceive
  <2>1. Who \in Session /\ GivenSocket(Who)
    BY <1>1, <1>8, Callee DEF TestSend, TestReceive, Calling
  <2>2. UNCHANGED <<medVars, peerVars, handlerVars>>
    BY <1>8 DEF TestSend, TestReceive
  <2>3. Send(P2pEnd(Who), ApplicationData) \/ Receive(P2pEnd(Who))
    BY <1>8 DEF TestSend, TestReceive
  <2>4. WireInv' /\ UNCHANGED quit_after
    BY <1>1, <2>1, <2>2, <2>3, TalkInboxes, WireAside
  <2> QED BY <1>1, <1>2, <2>4 DEF BaseInv
<1>9. CASE Unwind
  <2>1. UNCHANGED <<medVars, peerVars, handlerVars>> /\ UNCHANGED inbox
    BY <1>9 DEF Unwind
  <2>2. WireInv' /\ UNCHANGED quit_after
    BY <1>1, <2>1, WireAside
  <2> QED BY <1>1, <1>2, <2>2 DEF BaseInv
<1>10. ASSUME NEW s \in Session, WorkerAccept(s) \/ HandlerStep(s) PROVE BaseInv'
  <2>1. Handler(s)
    BY <1>10 DEF WorkerAccept, HandlerStep, HandlerAccept, Handler
  <2>2. WireInv' /\ UNCHANGED quit_after
    BY <1>1, <2>1, WireHandler, HandlerKeeps
  <2> QED BY <1>1, <1>2, <2>2 DEF BaseInv
<1>11. ASSUME NEW s \in Session, ClientStep(s) PROVE BaseInv'
  BY <1>6, <1>11 DEF ClientStep, SessionStep
<1>12. \A s \in Session : ~HandlerGivesUp(s)
  BY DEF Patient, HandlerGivesUp
<1> QED BY <1>4, <1>5, <1>7, <1>8, <1>9, <1>10, <1>11, <1>12
        DEF HarnessNext, TestThread, Aside

(* So it holds in every such test. *)
LEMMA BaseInvHolds == HarnessSpec => [](Patient => BaseInv)
<1>1. HarnessInit /\ HarnessInv => BaseInv
  <2> SUFFICES ASSUME HarnessInit, HarnessInv PROVE BaseInv
    OBVIOUS
  <2>1. \A s \in Session : Wire(s)
    BY DEF HarnessInit, Init, ConnectionInit, MediatorConnectionInit,
           FakeMediatorInit, Wire
  <2>2. Stored
    BY DEF HarnessInit, Init, FakeMediatorInit, Stored, PastPut
  <2> QED BY <2>1, <2>2 DEF BaseInv, WireInv, HarnessInit
<1>2. (Patient => BaseInv) /\ [HarnessNext]_allVars => (Patient => BaseInv)'
  BY BaseStep, ScriptStays DEF Patient
<1> QED BY <1>1, <1>2, HarnessInvHolds, PTL DEF HarnessSpec
-----------------------------------------------------------------------------
(***************************************************************************)
(* The conditions under which the tests run: nothing fails outside the     *)
(* program, no callback sends on its socket, and a Peer listens before the *)
(* Client's backoff is over.                                               *)
(***************************************************************************)
Undisturbed == Faults = {} /\ TalkRoles = {} /\ Prompt

Finished == {"returning", "done"}

(* The other sessions do nothing. *)
Alone(S) == \A t \in Session \ S : pc[t] = "idle" /\ handler[t] = "none"
-----------------------------------------------------------------------------
(* A session that is at rest with the Mediator waits for another session. *)
LEMMA AtRest ==
  ASSUME CoreInv, WireInv, NEW s \in Session, SessionWaits(s), HandlerWaits(s),
         pc[s] \in MediatorStage
  PROVE  pc[s] = "registered" /\ handler[s] \in {"await", "waitDisconnect"}
<1>1. Conversation(s) /\ Live(s) /\ Wire(s) /\ mediatorUp
  BY DEF CoreInv, WireInv
<1>2. pc[s] \in {"advertised", "registered"} /\ Blocks(MedEnd(s))
  BY DEF SessionWaits, MediatorStage
<1>3. inbox[MedEnd(s)] = <<>> /\ open[HandlerEnd(s)]
  BY <1>2, Ends DEF Blocks
<1>4. handler[s] \notin Returned
  BY <1>1, <1>2, <1>3 DEF Live, Running, Returned
<1>5. CASE pc[s] = "advertised"
  <2>1. \/ handler[s] \in {"none", "advertise"} /\ inbox[HandlerEnd(s)] = <<Adv(s)>>
        \/ handler[s] \in {"abort", "challenge"}
    BY <1>1, <1>3, <1>4, <1>5, Singletons DEF Wire, Returned
  <2>2. <<Adv(s)>> # <<>>
    BY Singletons
  <2> QED BY <1>1, <1>3, <2>1, <2>2 DEF HandlerWaits, Blocks, Receives, Returned
<1>6. CASE pc[s] = "registered"
  <2>1. \/ handler[s] = "response"
           /\ inbox[HandlerEnd(s)] = <<AdvertiseResponse(MediatorNonce)>>
        \/ handler[s] \in Registered
    <3>1. <<Assignment(s)>> # <<>>
      BY Singletons
    <3> QED BY <1>1, <1>3, <1>4, <1>6, <3>1 DEF Wire, Returned
  <2>2. <<AdvertiseResponse(MediatorNonce)>> # <<>>
    BY Singletons
  <2> QED BY <1>1, <1>4, <1>6, <2>1, <2>2
          DEF HandlerWaits, Blocks, Receives, Returned, Registered
<1> QED BY <1>2, <1>5, <1>6

(* What the handlers log. *)
LEMMA HandlerAppends ==
  ASSUME CoreInv, WireInv, NEW s \in Session, Handler(s), HandlerLogs(s)
  PROVE  /\ handler[s] = "advertise" =>
              received_messages' = Append(received_messages, Adv(s))
         /\ handler[s] = "response" =>
              received_messages' =
                Append(received_messages, AdvertiseResponse(MediatorNonce))
         /\ handler[s] \notin Receives => UNCHANGED received_messages
         /\ handler[s] = "challenge" =>
              sent_messages' = Append(sent_messages, Chal(s))
         /\ handler[s] = "identify" =>
              sent_messages' = Append(sent_messages,
                PeerIdentification(awaited[s].version, awaited[s].address))
         /\ handler[s] = "disconnect" =>
              sent_messages' = Append(sent_messages, PeerDisconnect(s))
         /\ handler[s] \notin Sends => UNCHANGED sent_messages
<1>1. handler[s] \in {"advertise", "response", "challenge", "identify",
                      "disconnect"} => handler'[s] # handler[s]
  BY HandlerGoes
<1>2. CASE handler[s] \in Receives
  <2>1. received_messages' = Append(received_messages, Head(inbox[HandlerEnd(s)]))
    BY <1>1, <1>2 DEF HandlerLogs, Receives
  <2>2. UNCHANGED sent_messages
    BY <1>2 DEF HandlerLogs, Receives, Sends
  <2>3. handler[s] = "advertise" => Head(inbox[HandlerEnd(s)]) = Adv(s)
    <3>1. handler[s] = "advertise" => inbox[HandlerEnd(s)] = <<Adv(s)>>
      BY HandlerGoes
    <3> QED BY <3>1, Singletons
  <2>4. handler[s] = "response" =>
          Head(inbox[HandlerEnd(s)]) = AdvertiseResponse(MediatorNonce)
    <3>1. handler[s] = "response" =>
            inbox[HandlerEnd(s)] = <<AdvertiseResponse(MediatorNonce)>>
      BY HandlerGoes
    <3> QED BY <3>1, Singletons
  <2> QED BY <1>2, <2>1, <2>2, <2>3, <2>4 DEF Receives
<1>3. CASE handler[s] \in {"challenge", "identify", "disconnect"}
  <2>1. sent_messages' = Append(sent_messages, Last(inbox'[MedEnd(s)]))
    BY <1>1, <1>3 DEF HandlerLogs, Sends
  <2>2. UNCHANGED received_messages
    BY <1>3 DEF HandlerLogs, Receives
  <2>3. \A m : Last(<<m>>) = m
    BY Singletons DEF Last
  <2>4. handler[s] = "challenge" => Last(inbox'[MedEnd(s)]) = Chal(s)
    <3>1. handler[s] = "challenge" => inbox'[MedEnd(s)] = <<Chal(s)>>
      BY HandlerGoes
    <3> QED BY <2>3, <3>1
  <2>5. handler[s] = "identify" => Last(inbox'[MedEnd(s)]) =
          PeerIdentification(awaited[s].version, awaited[s].address)
    <3>1. handler[s] = "identify" => inbox'[MedEnd(s)] =
            <<PeerIdentification(awaited[s].version, awaited[s].address)>>
      BY HandlerGoes
    <3> QED BY <2>3, <3>1
  <2>6. handler[s] = "disconnect" => Last(inbox'[MedEnd(s)]) = PeerDisconnect(s)
    <3>1. handler[s] = "disconnect" => inbox'[MedEnd(s)] = <<PeerDisconnect(s)>>
      BY HandlerGoes
    <3> QED BY <2>3, <3>1
  <2> QED BY <1>3, <2>1, <2>2, <2>4, <2>5, <2>6 DEF Receives, Sends
<1>4. CASE handler[s] \notin Receives \cup {"challenge", "identify", "disconnect"}
  BY <1>4 DEF HandlerLogs, Receives, Sends
<1> QED BY <1>2, <1>3, <1>4

(* Nor does its handler. *)
LEMMA NotStarted ==
  ASSUME CoreInv, NEW s \in Session, pc[s] = "idle", handler[s] = "none"
  PROVE  ~Thread(s) /\ ~WorkerAccept(s) /\ ~HandlerStep(s)
<1>1. ~WorkerAccept(s)
  <2>1. ~open[HandlerEnd(s)]
    BY DEF CoreInv, Live, Running
  <2> QED BY <2>1 DEF WorkerAccept, HandlerAccept
<1> QED BY <1>1, ThreadStarted DEF HandlerStep
-----------------------------------------------------------------------------
Runs(test) == script.calls = test.calls /\ script.quit_after = test.quit_after

(***************************************************************************)
(* The tests with one session.  They look at the logs as soon as           *)
(* connect_sync returns, so its wait_for must not end before the callback. *)
(***************************************************************************)
SoloTest(p) ==
  /\ Patient /\ "connect_sync" \notin script.early
  /\ \/ Runs(ShouldSendValidAdvertise(p))
     \/ /\ Runs(ShouldCorrectlyProveIdentityWithNonce(p))
        /\ kVersion[p] >= protocol_version

SoloLogs(p) ==
  CASE handler[p] \in {"none", "advertise"} ->
         received_messages = <<>> /\ sent_messages = <<>>
    [] handler[p] = "challenge" ->
         received_messages = <<Adv(p)>> /\ sent_messages = <<>>
    [] handler[p] = "response" ->
         received_messages = <<Adv(p)>> /\ sent_messages = <<Chal(p)>>
    [] OTHER ->
         IF quit_after = "Advertise"
           THEN received_messages = <<Adv(p)>> /\ sent_messages = <<>>
           ELSE /\ Len(received_messages) = 2
                /\ received_messages[2] = AdvertiseResponse(MediatorNonce)
                /\ sent_messages = <<Chal(p)>>

SoloInv(p) ==
  /\ Alone({p})
  /\ \/ handler[p] \in {"none", "advertise", "quit"}
     \/ quit_after # "Advertise" /\ handler[p] \in {"challenge", "response"}
  /\ pc[p] \in Unassigned \/ (pc[p] \in Finished /\ handler[p] = "quit")
  /\ SoloLogs(p)
  /\ line <= 2 /\ phase = "at" => pc[p] = "idle"
  /\ line = 1 => phase = "at"
  /\ line = 2 /\ phase # "at" => pc[p] # "idle"
  /\ line > 2 => pc[p] \in Finished /\ callbacks[p] # <<>>

Solo == \A p \in Session : SoloTest(p) => SoloInv(p)

(* The calls of a test with one session. *)
LEMMA SoloScript ==
  ASSUME HarnessTypeOK, NEW p \in Session, SoloTest(p)
  PROVE  /\ line \in 1 .. 4 /\ Len(script.calls) = 3
         /\ script.quit_after \in {"Advertise", "AdvertiseResponse"}
         /\ script.quit_after = "AdvertiseResponse" => kVersion[p] >= protocol_version
         /\ script.calls[1][1] = "run" /\ script.calls[2] = <<"connect_sync", p>>
         /\ script.calls[3][2] = p
         /\ script.calls[3][1] = IF script.quit_after = "Advertise"
                                   THEN "assert advertise" ELSE "assert identity"
<1>1. ASSUME NEW name, script.calls = <<<<"run">>, <<"connect_sync", p>>, <<name, p>>>>
      PROVE  /\ Len(script.calls) = 3
             /\ script.calls[1][1] = "run" /\ script.calls[2] = <<"connect_sync", p>>
             /\ script.calls[3][2] = p /\ script.calls[3][1] = name
  BY SMT, <1>1
<1>2. Len(script.calls) = 3 => line \in 1 .. 4
  BY SMT DEF HarnessTypeOK
<1>3. CASE Runs(ShouldSendValidAdvertise(p))
  <2>1. /\ script.quit_after = "Advertise"
        /\ script.calls =
             <<<<"run">>, <<"connect_sync", p>>, <<"assert advertise", p>>>>
    BY <1>3 DEF Runs, ShouldSendValidAdvertise
  <2> QED BY <1>1, <1>2, <2>1
<1>4. CASE /\ Runs(ShouldCorrectlyProveIdentityWithNonce(p))
           /\ kVersion[p] >= protocol_version
  <2>1. /\ script.quit_after = "AdvertiseResponse"
        /\ script.calls =
             <<<<"run">>, <<"connect_sync", p>>, <<"assert identity", p>>>>
    BY <1>4 DEF Runs, ShouldCorrectlyProveIdentityWithNonce
  <2> QED BY <1>1, <1>2, <1>4, <2>1
<1> QED BY <1>3, <1>4 DEF SoloTest

(* What the thread of a test with one session may be calling. *)
LEMMA SoloCalls ==
  ASSUME HarnessTypeOK, NEW p \in Session, SoloTest(p), NEW name, Calling(name)
  PROVE  \/ line = 1 /\ name = "run"
         \/ line = 2 /\ name = "connect_sync" /\ Who = p
         \/ line = 3 /\ name \in {"assert advertise", "assert identity"} /\ Who = p
<1>1. line \in {1, 2, 3}
  <2>1. line \in 1 .. 4 /\ line <= 3
    BY SoloScript DEF Calling
  <2> QED BY SMT, <2>1
<1>2. /\ <<"connect_sync", p>>[1] = "connect_sync"
      /\ <<"connect_sync", p>>[2] = p
  BY SMT
<1> QED BY <1>1, <1>2, SoloScript DEF Calling, Who

(* Its invariant when the test starts. *)
LEMMA SoloInitially ==
  ASSUME HarnessInit, NEW p \in Session
  PROVE  SoloInv(p)
<1>1. /\ \A t \in Session : pc[t] = "idle" /\ handler[t] = "none"
      /\ received_messages = <<>> /\ sent_messages = <<>>
      /\ line = 1 /\ phase = "at"
  BY DEF HarnessInit, Init, ConnectionInit, MediatorConnectionInit, FakeMediatorInit
<1>2. ~(line > 2) /\ line # 2
  BY SMT, <1>1
<1> QED BY <1>1, <1>2 DEF SoloInv, Alone, SoloLogs, Unassigned

(* The handler's steps. *)
LEMMA SoloHandler ==
  ASSUME BaseInv, NEW p \in Session, SoloTest(p), SoloInv(p),
         NEW s \in Session, WorkerAccept(s) \/ HandlerStep(s)
  PROVE  SoloInv(p)'
<1>1. /\ CoreInv /\ WireInv /\ HarnessTypeOK /\ quit_after = script.quit_after
      /\ handler \in [Session -> Running \cup Returned \cup {"none"}]
  BY DEF BaseInv, HarnessInv, CoreInv, Inv, HandlerInv, FakeMediatorTypeOK
<1>2. s = p
  BY <1>1, NotStarted DEF SoloInv, Alone
<1>3. Handler(p)
  BY <1>2 DEF WorkerAccept, HandlerStep, HandlerAccept, Handler
<1>4. /\ UNCHANGED <<medVars, peerVars>> /\ UNCHANGED quit_after
      /\ \A t \in Session : t # p => handler'[t] = handler[t]
  BY <1>1, <1>3, HandlerKeeps DEF WireSame
<1>5. UNCHANGED pc /\ UNCHANGED callbacks
  BY <1>4 DEF medVars, peerVars
<1>6. Alone({p})'
  BY <1>4, <1>5 DEF SoloInv, Alone
<1>7. /\ UNCHANGED line /\ (phase' = "at" <=> phase = "at")
  BY DEF WorkerAccept, HandlerStep, testVars
<1>8. /\ \/ handler'[p] \in {"none", "advertise", "quit"}
         \/ quit_after # "Advertise" /\ handler'[p] \in {"challenge", "response"}
      /\ pc[p] \in Unassigned
      /\ SoloLogs(p)'
  <2>1. pc[p] \in Unassigned
    BY <1>1, <1>3, HandlerGoes DEF SoloInv, Returned
  <2>2. CASE WorkerAccept(s)
    <3>1. handler[p] = "none" /\ handler'[p] = "advertise"
      BY <1>1, <1>2, <1>3, <2>2, HandlerGoes DEF WorkerAccept, HandlerAccept
    <3>2. UNCHANGED <<received_messages, sent_messages>>
      BY <2>2 DEF WorkerAccept, logVars
    <3> QED BY <2>1, <3>1, <3>2 DEF SoloInv, SoloLogs
  <2>3. CASE HandlerStep(s)
    <3>1. HandlerLogs(p) /\ handler[p] # "none"
      BY <1>2, <2>3 DEF HandlerStep
    <3>2. handler[p] # "quit"
      BY <1>1, <1>3, HandlerGoes DEF Returned
    <3>3. CASE handler[p] = "advertise"
      <4>1. /\ received_messages' = <<Adv(p)>> /\ sent_messages' = <<>>
        <5>1. /\ received_messages = <<>> /\ sent_messages = <<>>
          BY <3>3 DEF SoloInv, SoloLogs
        <5> QED BY <1>1, <1>3, <3>1, <3>3, <5>1, HandlerAppends, Singletons
                DEF Sends
      <4>2. handler'[p] \in {"quit", "challenge"}
            /\ (quit_after = "Advertise" <=> handler'[p] = "quit")
        <5>1. quit_after # "Advertise" => ~(kVersion[p] < protocol_version)
          <6>1. kVersion[p] \in Nat /\ protocol_version \in Nat
            BY SessionAssumption, MediatorAssumption
          <6>2. quit_after # "Advertise" => kVersion[p] >= protocol_version
            BY <1>1, SoloScript
          <6> QED BY SMT, <6>1, <6>2
        <5> QED BY <1>1, <1>3, <3>3, <5>1, HandlerGoes
      <4> QED BY <1>4, <2>1, <4>1, <4>2 DEF SoloLogs
    <3>4. CASE handler[p] = "challenge"
      <4>1. quit_after # "Advertise" /\ quit_after # "AdvertiseChallenge"
        BY <1>1, <3>4, SoloScript DEF SoloInv
      <4>2. received_messages = <<Adv(p)>> /\ sent_messages = <<>>
        BY <3>4 DEF SoloInv, SoloLogs
      <4>3. received_messages' = <<Adv(p)>> /\ sent_messages' = <<Chal(p)>>
        BY <1>1, <1>3, <3>1, <3>4, <4>2, HandlerAppends, Singletons DEF Receives
      <4>4. handler'[p] = "response"
        BY <1>1, <1>3, <3>4, <4>1, HandlerGoes
      <4> QED BY <1>4, <2>1, <4>1, <4>3, <4>4 DEF SoloLogs
    <3>5. CASE handler[p] = "response"
      <4>1. quit_after = "AdvertiseResponse"
        BY <1>1, <3>5, SoloScript DEF SoloInv
      <4>2. received_messages = <<Adv(p)>> /\ sent_messages = <<Chal(p)>>
        BY <3>5 DEF SoloInv, SoloLogs
      <4>3. /\ received_messages' =
                 Append(<<Adv(p)>>, AdvertiseResponse(MediatorNonce))
            /\ sent_messages' = <<Chal(p)>>
        BY <1>1, <1>3, <3>1, <3>5, <4>2, HandlerAppends DEF Sends
      <4>4. \A m, n : Len(Append(<<m>>, n)) = 2 /\ Append(<<m>>, n)[2] = n
        BY SMT
      <4>5. handler'[p] = "quit"
        BY <1>1, <1>3, <3>5, <4>1, HandlerGoes
      <4>6. /\ Len(received_messages') = 2
            /\ received_messages'[2] = AdvertiseResponse(MediatorNonce)
        BY <4>3, <4>4
      <4>7. quit_after' # "Advertise"
        BY <1>4, <4>1
      <4> QED BY <2>1, <4>3, <4>5, <4>6, <4>7 DEF SoloLogs
    <3> QED BY <3>1, <3>2, <3>3, <3>4, <3>5 DEF SoloInv
  <2> QED BY <2>2, <2>3
<1>9. (line = 1 => phase = "at") => (line = 1 => phase' = "at")
  BY <1>7
<1>10. line > 2 => FALSE
  BY <1>8 DEF SoloInv, Unassigned, MediatorStage, Finished
<1> QED BY <1>4, <1>5, <1>6, <1>7, <1>8, <1>9, <1>10 DEF SoloInv

(* The session's steps. *)
LEMMA SoloSession ==
  ASSUME BaseInv, BaseInv', Undisturbed, NEW p \in Session, SoloTest(p), SoloInv(p),
         Connect(p) \/ Thread(p), UNCHANGED handlerVars,
         UNCHANGED <<received_messages, sent_messages>>
  PROVE  /\ Alone({p})' /\ SoloLogs(p)'
         /\ pc'[p] \in Unassigned \ {"idle"} \/ (pc'[p] \in Finished /\ handler[p] = "quit")
         /\ pc[p] \in Finished => pc'[p] \in Finished
         /\ callbacks[p] # <<>> => callbacks'[p] # <<>>
         /\ handler'[p] = handler[p] /\ UNCHANGED quit_after
<1>1. CoreInv /\ WireInv /\ SessionInv
  BY DEF BaseInv, HarnessInv, CoreInv, Inv
<1>2. \A t \in Session \ {p} : Same(t)
  BY <1>1, SessionDefined
<1>3. UNCHANGED <<handler, quit_after>>
  BY DEF handlerVars
<1>4. Alone({p})' /\ SoloLogs(p)'
  BY <1>2, <1>3 DEF SoloInv, Alone, SoloLogs, Same
<1>5. CASE pc[p] \in Unassigned
  <2>1. Progress(p) /\ pc[p] \notin Final
    BY <1>1, <1>5 DEF CoreInv, Unassigned, MediatorStage, Final
  <2> QED BY <1>1, <1>3, <1>4, <1>5, <2>1, Registers
          DEF Undisturbed, SoloInv, Progress, Unassigned, MediatorStage, Finished
<1>6. CASE pc[p] \in Finished /\ handler[p] = "quit"
  <2>1. Callback(p)
    <3>1. PeerHandshake(p)
      BY <1>6 DEF Connect, Thread, MediatorConnect, DialMediator, SendAdvertise,
         ReceiveAdvertiseRetry, ReceiveAdvertiseChallenge, SendAdvertiseResponse,
         ReceivePeerIdentification, ReceivePeerDisconnect, ReceiveUnexpected,
         LoseMediator, Finished
    <3> QED BY <1>6, <3>1, PeerHandshakeFrom
            DEF Finished, PeerStage, CallbackThrows, Undisturbed
  <2>2. pc'[p] = "done"
    BY <1>1, <2>1
    DEF Callback, Go, SessionInv, ConnectionTypeOK, MediatorConnectionTypeOK
  <2>3. callbacks'[p] # <<>>
    BY <2>2 DEF BaseInv, WireInv, Wire
  <2> QED BY <1>3, <1>4, <1>6, <2>2, <2>3 DEF Finished
<1> QED BY <1>5, <1>6 DEF SoloInv, Finished

(* Its invariant after a step of any thread. *)
LEMMA SoloStep ==
  ASSUME BaseInv, BaseInv', Undisturbed, NEW p \in Session, SoloTest(p), SoloInv(p),
         [HarnessNext]_allVars
  PROVE  SoloInv(p)'
<1>1. /\ CoreInv /\ WireInv /\ HarnessTypeOK /\ quit_after = script.quit_after
      /\ handler \in [Session -> Running \cup Returned \cup {"none"}]
      /\ line \in 1 .. 4
  BY SoloScript DEF BaseInv, HarnessInv, CoreInv, Inv, HandlerInv, FakeMediatorTypeOK
<1>2. /\ Calling("run") => line = 1
      /\ Calling("connect_sync") => line = 2 /\ Who = p
      /\ ~Calling("connect_async") /\ ~Calling("block")
      /\ ~Calling("await_shutdown") /\ ~Calling("send") /\ ~Calling("receive")
  <2>1. \A name : Calling(name) =>
          \/ line = 1 /\ name = "run"
          \/ line = 2 /\ name = "connect_sync" /\ Who = p
          \/ line = 3 /\ name \in {"assert advertise", "assert identity"}
    BY <1>1, SoloCalls
  <2> QED BY <2>1 DEF Calling
<1>3. ASSUME UNCHANGED vars, UNCHANGED logVars
      PROVE  /\ Alone({p})' /\ SoloLogs(p)' /\ UNCHANGED <<pc, callbacks, quit_after>>
             /\ UNCHANGED handler
  BY <1>3
  DEF vars, sessionVars, netVars, medVars, peerVars, handlerVars, logVars, SoloInv,
      Alone, SoloLogs
<1>4. CASE UNCHANGED allVars
  BY <1>3, <1>4 DEF allVars, harnessVars, testVars, SoloInv
<1>5. CASE WorkerStep
  BY <1>3, <1>5 DEF WorkerStep, testVars, SoloInv
<1>6. CASE Run
  <2>1. line = 1 /\ line' = 2 /\ phase' = "at" /\ UNCHANGED <<vars, logVars>>
    BY SMT, <1>6, <1>2 DEF Run, NextCall
  <2>2. pc[p] = "idle" /\ ~(line' > 2)
    BY SMT, <2>1 DEF SoloInv
  <2> QED BY <1>3, <2>1, <2>2 DEF SoloInv
<1>7. CASE ConnectSync
  <2>1. /\ line = 2 /\ Who = p /\ UNCHANGED line /\ phase' = "called"
        /\ Connect(p) /\ UNCHANGED handlerVars
        /\ UNCHANGED <<received_messages, sent_messages>>
    BY <1>2, <1>7 DEF ConnectSync, InPhase, logVars
  <2>2. pc'[p] = "mediator"
    BY <1>1, <2>1
    DEF Connect, Go, CoreInv, Inv, SessionInv, ConnectionTypeOK,
        MediatorConnectionTypeOK
  <2>3. ~(line > 2) /\ line # 1
    BY SMT, <2>1
  <2> QED BY <1>1, <2>1, <2>2, <2>3, SoloSession
          DEF SoloInv, Unassigned, MediatorStage
<1>8. CASE WaitForCallback
  <2>1. line = 2 /\ UNCHANGED line /\ phase # "at" /\ phase' # "at"
        /\ UNCHANGED <<vars, logVars>>
    BY <1>2, <1>8 DEF WaitForCallback, InPhase
  <2>2. ~(line > 2) /\ line # 1
    BY SMT, <2>1
  <2> QED BY <1>3, <2>1, <2>2 DEF SoloInv
<1>9. CASE ConnectSyncReturns
  <2>1. /\ line = 2 /\ Who = p /\ line' = line + 1 /\ phase' = "at" /\ phase # "at"
        /\ callbacks[p] # <<>> \/ Quiescent
        /\ UNCHANGED <<vars, logVars>>
    BY <1>2, <1>9 DEF ConnectSyncReturns, NextCall
  <2>2. line' = 3 /\ ~(line' <= 2) /\ line' # 1 /\ line' # 2
    BY SMT, <2>1
  <2>3. pc[p] \in Finished /\ callbacks[p] # <<>>
    <3>1. CASE callbacks[p] # <<>>
      BY <1>1, <3>1
      DEF SoloInv, Finished, CoreInv, Progress, Unassigned, MediatorStage, Final
    <3>2. CASE Quiescent
      <4>1. SessionWaits(p) /\ HandlerWaits(p)
        BY <3>2 DEF Quiescent
      <4>2. pc[p] \notin Unassigned
        BY <1>1, <2>1, <4>1, AtRest DEF SoloInv, Unassigned
      <4>3. pc[p] = "done"
        BY <4>1, <4>2 DEF SoloInv, SessionWaits, Finished
      <4> QED BY <1>1, <4>3 DEF WireInv, Wire, Finished
    <3> QED BY <2>1, <3>1, <3>2
  <2> QED BY <1>3, <2>1, <2>2, <2>3 DEF SoloInv, Finished
<1>10. CASE TestAssert
  <2>1. line = 3 /\ line' = line + 1 /\ UNCHANGED <<vars, logVars>>
    BY <1>1, <1>10, SoloCalls DEF TestAssert, NextCall, Asserts
  <2>2. line > 2 /\ ~(line' <= 2) /\ line' # 1 /\ line' # 2
    BY SMT, <2>1
  <2> QED BY <1>3, <2>1, <2>2 DEF SoloInv
<1>11. CASE Unwind \/ StopCloses \/ StopJoins
  <2>1. CASE StopCloses \/ StopJoins
    <3>1. UNCHANGED <<vars, logVars>> /\ phase # "at" /\ phase' # "at"
          /\ UNCHANGED line
      BY <2>1 DEF StopCloses, StopJoins, InPhase
    <3> QED BY <1>3, <3>1 DEF SoloInv
  <2>2. CASE Unwind
    <3>1. /\ line > Len(script.calls) /\ UNCHANGED line
          /\ UNCHANGED <<pc, callbacks, quit_after, handler>> /\ UNCHANGED logVars
      BY <2>2 DEF Unwind, medVars, peerVars, handlerVars, InPhase
    <3>2. Len(script.calls) = 3
      BY <1>1, SoloScript
    <3>3. line > 2 /\ ~(line <= 2) /\ line # 1 /\ line # 2
      BY SMT, <1>1, <3>1, <3>2
    <3> QED BY <3>1, <3>3 DEF SoloInv, Alone, SoloLogs, logVars
  <2> QED BY <1>11, <2>1, <2>2
<1>12. /\ ~ConnectAsync /\ ~Block /\ ~AwaitShutdown /\ ~TestSend /\ ~TestReceive
       /\ ~WakeEarly /\ \A s \in Session : ~HandlerGivesUp(s)
  <2>1. ~ConnectAsync /\ ~Block /\ ~AwaitShutdown /\ ~TestSend /\ ~TestReceive
    BY <1>2 DEF ConnectAsync, Block, AwaitShutdown, TestSend, TestReceive
  <2>2. ~WakeEarly
    BY <1>2 DEF WakeEarly, SoloTest
  <2>3. \A s \in Session : ~HandlerGivesUp(s)
    BY DEF HandlerGivesUp, SoloTest, Patient
  <2> QED BY <2>1, <2>2, <2>3
<1>13. ASSUME NEW s \in Session, WorkerAccept(s) \/ HandlerStep(s)
       PROVE  SoloInv(p)'
  BY <1>13, SoloHandler
<1>14. ASSUME NEW s \in Session, ClientStep(s) PROVE SoloInv(p)'
  <2>1. Thread(s) /\ UNCHANGED handlerVars /\ UNCHANGED testVars
        /\ UNCHANGED <<received_messages, sent_messages>>
    BY <1>14 DEF ClientStep, SessionStep
  <2>2. s = p
    BY <1>1, <2>1, NotStarted DEF SoloInv, Alone
  <2>3. pc[p] # "idle"
    BY <2>1, <2>2, ThreadStarted
  <2>4. UNCHANGED line /\ UNCHANGED phase
    BY <2>1 DEF testVars
  <2>5. phase = "at" /\ line <= 2 => FALSE
    BY <2>3 DEF SoloInv
  <2> QED BY <2>1, <2>2, <2>3, <2>4, <2>5, SoloSession DEF SoloInv, Finished
<1> QED BY <1>4, <1>5, <1>6, <1>7, <1>8, <1>9, <1>10, <1>11, <1>12, <1>13, <1>14
        DEF HarnessNext, TestThread
-----------------------------------------------------------------------------
(***************************************************************************)
(* What the invariant says of the tests with one session.                  *)
(***************************************************************************)
LEMMA SoloAsserts ==
  ASSUME BaseInv, NEW p \in Session, SoloTest(p), SoloInv(p)
  PROVE  TestAssertions
<1>0. line = 3 => line > 2
  BY SMT
<1>1. HarnessTypeOK /\ quit_after = script.quit_after
  BY DEF BaseInv, HarnessInv
<1>2. \A name : Calling(name) =>
        \/ line = 1 /\ name = "run"
        \/ line = 2 /\ name = "connect_sync" /\ Who = p
        \/ line = 3 /\ name \in {"assert advertise", "assert identity"} /\ Who = p
  BY <1>1, SoloCalls
<1>3. ~Calling("assert identification") /\ ~Calling("assert handshake")
      /\ ~Calling("assert received")
  BY <1>2 DEF Calling
<1>4. ASSUME NEW name \in {"assert advertise", "assert identity"}, Calling(name)
      PROVE  /\ line = 3 /\ Who = p /\ handler[p] = "quit"
             /\ name = IF quit_after = "Advertise"
                         THEN "assert advertise" ELSE "assert identity"
  <2>1. line = 3 /\ Who = p
    BY <1>2, <1>4
  <2>2. name = script.calls[3][1]
    BY <1>4, <2>1 DEF Calling
  <2>3. line > 2
    BY <1>0, <2>1
  <2>4. handler[p] = "quit"
    BY <2>3 DEF SoloInv, Unassigned, MediatorStage, Finished
  <2> QED BY <1>1, <2>1, <2>2, <2>4, SoloScript
<1>5. ASSUME Calling("assert advertise")
      PROVE  /\ Types(received_messages) = <<"Advertise">> /\ sent_messages = <<>>
             /\ received_messages[1].our_key = KeyOf[Who]
             /\ received_messages[1].their_key = Wants[Who]
  <2>1. Who = p /\ handler[p] = "quit" /\ quit_after = "Advertise"
    BY <1>4, <1>5
  <2>2. received_messages = <<Adv(p)>> /\ sent_messages = <<>>
    BY <2>1 DEF SoloInv, SoloLogs
  <2>3. Adv(p).type = "Advertise" /\ Adv(p).our_key = KeyOf[p]
        /\ Adv(p).their_key = Wants[p]
    BY SMT DEF Adv, Advertise, Blank
  <2>4. received_messages[1] = Adv(p)
    BY SMT, <2>2
  <2>5. \A m : m.type = "Advertise" => Types(<<m>>) = <<"Advertise">>
    BY SMT DEF Types
  <2> QED BY <2>1, <2>2, <2>3, <2>4, <2>5
<1>6. ASSUME Calling("assert identity")
      PROVE  /\ Len(received_messages) = 2 /\ Len(sent_messages) = 1
             /\ CanDecrypt(KeyOf[Who], sent_messages[1].encrypted_nonce)
             /\ Decrypt(sent_messages[1].encrypted_nonce) = received_messages[2].nonce
  <2>1. Who = p /\ handler[p] = "quit" /\ quit_after # "Advertise"
    BY <1>4, <1>6
  <2>2. /\ Len(received_messages) = 2 /\ sent_messages = <<Chal(p)>>
        /\ received_messages[2] = AdvertiseResponse(MediatorNonce)
    BY <2>1 DEF SoloInv, SoloLogs
  <2>3. Len(sent_messages) = 1 /\ sent_messages[1] = Chal(p)
    BY SMT, <2>2
  <2>4. /\ CanDecrypt(KeyOf[p], Chal(p).encrypted_nonce)
        /\ Decrypt(Chal(p).encrypted_nonce) = MediatorNonce
    BY SMT DEF Chal, AdvertiseChallenge, Encrypt, CanDecrypt, Decrypt, Blank
  <2>5. AdvertiseResponse(MediatorNonce).nonce = MediatorNonce
    BY Contents
  <2> QED BY <2>1, <2>2, <2>3, <2>4, <2>5
<1> QED BY <1>3, <1>5, <1>6 DEF TestAssertions

(* Only one handler appends to the logs, and none while they are read. *)
LEMMA SoloSerial ==
  ASSUME BaseInv, NEW p \in Session, SoloTest(p), SoloInv(p)
  PROVE  LogsAreSerial
<1>1. \A t \in Session \ {p} : handler[t] = "none"
  BY DEF SoloInv, Alone
<1>2. ASSUME NEW name \in Asserts, Calling(name)
      PROVE  handler[p] = "quit"
  <2>1. line = 3
    <3>1. HarnessTypeOK
      BY DEF BaseInv, HarnessInv
    <3> QED BY <1>2, <3>1, SoloCalls DEF Asserts
  <2>2. line > 2
    BY SMT, <2>1
  <2> QED BY <2>2 DEF SoloInv, Unassigned, MediatorStage, Finished
<1>3. ASSUME NEW s \in Session, s # p \/ handler[p] = "quit"
      PROVE  handler[s] \notin Sends /\ ~Receiving(s)
  BY <1>1, <1>3 DEF Receiving, Sends, Receives
<1>4. \A s, t \in Session : s # t =>
        /\ ~(handler[s] \in Sends /\ handler[t] \in Sends)
        /\ ~(Receiving(s) /\ Receiving(t))
  BY <1>3
<1>5. \A name \in Asserts : Calling(name) =>
        \A s \in Session : handler[s] \notin Sends /\ ~Receiving(s)
  BY <1>2, <1>3
<1> QED BY <1>4, <1>5 DEF LogsAreSerial
-----------------------------------------------------------------------------
(***************************************************************************)
(* The tests with two sessions.  Each has the key that the other wants.    *)
(***************************************************************************)
Couple(c, p) ==
  /\ KeyOf[c] = Wants[p] /\ KeyOf[p] = Wants[c] /\ KeyOf[c] # KeyOf[p]
  /\ kVersion[c] = kVersion[p] /\ kVersion[c] >= protocol_version

PairTest(c, p) ==
  /\ Couple(c, p)
  /\ Patient
  /\ \/ Runs(ShouldSendPeerIdentificationToFirstPeer(c, p))
     \/ Runs(ShouldCompletePeerHandshake(c, p))

(***************************************************************************)
(* The handlers: the first session waits in await when the second calls    *)
(* connect, so the second is the Peer.                                     *)
(***************************************************************************)
Waited == {"await", "waitDisconnect", "identify", "identified"}

Handled(c, p) ==
  /\ Alone({c, p})
  /\ handler[c] \in {"none", "advertise", "challenge", "response", "lookup",
                     "putClient"} \cup Waited
  /\ handler[p] \in {"none", "advertise", "challenge", "response", "lookup",
                     "putPeer", "disconnect", "addDisconnect", "disconnected"}
  /\ pc[p] # "idle" => handler[c] \in Waited

(* The number of messages that a handler has sent, and the ones that count. *)
SentBy(location) ==
  CASE location \in {"none", "advertise", "challenge"} -> 0
    [] location \in {"identified", "addDisconnect", "disconnected"} -> 2
    [] OTHER -> 1

Sent(c, p) ==
  /\ Len(sent_messages) = SentBy(handler[c]) + SentBy(handler[p])
  /\ handler[p] \in {"addDisconnect", "disconnected"} =>
       sent_messages[3].type = "PeerDisconnect"
  /\ handler[c] = "identified" =>
       sent_messages[4] = PeerIdentification(kVersion[p], p)

(* The calls of a test with two sessions. *)
LEMMA PairScript ==
  ASSUME HarnessTypeOK, NEW c \in Session, NEW p \in Session, PairTest(c, p)
  PROVE  /\ line \in 1 .. Len(script.calls) + 1
         /\ script.calls[1][1] = "run" /\ script.calls[2] = <<"connect_async", c>>
         /\ script.calls[3][1] = "block" /\ script.calls[4] = <<"connect_async", p>>
         /\ script.calls[5][1] = "await_shutdown" /\ script.calls[6][1] = "block"
         /\ \/ /\ Len(script.calls) = 7 /\ script.quit_after = "PeerIdentification"
               /\ script.calls[7] = <<"assert identification", c, p>>
            \/ /\ Len(script.calls) = 10 /\ script.quit_after = None
               /\ script.calls[7] = <<"assert handshake", c, p>>
               /\ script.calls[8] = <<"send", c>>
               /\ script.calls[9] = <<"receive", p>>
               /\ script.calls[10] = <<"assert received", p>>
<1> DEFINE Begins ==
      /\ script.calls[1][1] = "run" /\ script.calls[2] = <<"connect_async", c>>
      /\ script.calls[3][1] = "block" /\ script.calls[4] = <<"connect_async", p>>
      /\ script.calls[5][1] = "await_shutdown" /\ script.calls[6][1] = "block"
<1>1. ASSUME NEW w, script.calls = ConnectBoth(c, p) \o <<w>>
      PROVE  Begins /\ Len(script.calls) = 7 /\ script.calls[7] = w
  BY SMT, <1>1 DEF ConnectBoth
<1>2. Begins /\ \/ /\ Len(script.calls) = 7
                   /\ script.quit_after = "PeerIdentification"
                   /\ script.calls[7] = <<"assert identification", c, p>>
                \/ /\ Len(script.calls) = 10 /\ script.quit_after = None
                   /\ script.calls[7] = <<"assert handshake", c, p>>
                   /\ script.calls[8] = <<"send", c>>
                   /\ script.calls[9] = <<"receive", p>>
                   /\ script.calls[10] = <<"assert received", p>>
  <2>1. CASE Runs(ShouldSendPeerIdentificationToFirstPeer(c, p))
    <3>1. /\ script.quit_after = "PeerIdentification"
          /\ script.calls = ConnectBoth(c, p)
                              \o <<<<"assert identification", c, p>>>>
      BY <2>1 DEF Runs, ShouldSendPeerIdentificationToFirstPeer
    <3> QED BY <1>1, <3>1
  <2>2. CASE Runs(ShouldCompletePeerHandshake(c, p))
    <3>1. /\ script.quit_after = None
          /\ script.calls = ConnectBoth(c, p)
               \o <<<<"assert handshake", c, p>>, <<"send", c>>,
                    <<"receive", p>>, <<"assert received", p>>>>
      BY <2>2 DEF Runs, ShouldCompletePeerHandshake
    <3> DEFINE w == <<"assert handshake", c, p>>  x == <<"send", c>>
               y == <<"receive", p>>  z == <<"assert received", p>>
    <3>2. script.calls = ConnectBoth(c, p) \o <<w, x, y, z>>
      BY <3>1
    <3> HIDE DEF w, x, y, z
    <3>3. /\ Begins /\ Len(script.calls) = 10
          /\ script.calls[7] = w /\ script.calls[8] = x
          /\ script.calls[9] = y /\ script.calls[10] = z
      BY SMT, <3>2 DEF ConnectBoth
    <3> QED BY <3>1, <3>3 DEF w, x, y, z
  <2> QED BY <2>1, <2>2 DEF PairTest
<1> QED BY <1>2 DEF HarnessTypeOK

(* What the thread of a test with two sessions may be calling. *)
LEMMA PairCalls ==
  ASSUME HarnessTypeOK, NEW c \in Session, NEW p \in Session, PairTest(c, p),
         NEW name, Calling(name)
  PROVE  \/ line = 1 /\ name = "run"
         \/ line = 2 /\ name = "connect_async" /\ Who = c
         \/ line = 3 /\ name = "block"
         \/ line = 4 /\ name = "connect_async" /\ Who = p
         \/ line = 5 /\ name = "await_shutdown"
         \/ line = 6 /\ name = "block"
         \/ /\ line = 7 /\ Who = c /\ script.calls[line][3] = p
            /\ name \in {"assert identification", "assert handshake"}
         \/ line = 8 /\ name = "send" /\ Who = c
         \/ line = 9 /\ name = "receive" /\ Who = p
         \/ line = 10 /\ name = "assert received" /\ Who = p
<1>1. script.calls[line][1] = name
  BY DEF Calling
<1>2. \A q, x, y : q = <<x, y>> => q[1] = x /\ q[2] = y
  BY SMT
<1>3. line \in 1 .. 10 /\ (Len(script.calls) = 7 => line \in 1 .. 7)
  <2>1. /\ line \in 1 .. Len(script.calls) + 1 /\ Len(script.calls) \in {7, 10}
        /\ line <= Len(script.calls)
    BY PairScript DEF Calling
  <2>2. CASE Len(script.calls) = 7
    BY SMT, <2>1, <2>2
  <2>3. CASE Len(script.calls) = 10
    BY SMT, <2>1, <2>3
  <2> QED BY <2>1, <2>2, <2>3
<1>4. line \in {1, 2, 3, 4, 5, 6}
      \/ line \in {7, 8, 9, 10}
  BY SMT, <1>3
<1>5. CASE line \in {1, 2, 3, 4, 5, 6}
  <2>1. CASE line = 2
    <3>1. script.calls[line] = <<"connect_async", c>>
      BY <2>1, PairScript
    <3>2. script.calls[line][1] = "connect_async" /\ script.calls[line][2] = c
      BY <1>2, <3>1
    <3> QED BY <1>1, <2>1, <3>2 DEF Who
  <2>2. CASE line = 4
    <3>1. script.calls[line] = <<"connect_async", p>>
      BY <2>2, PairScript
    <3>2. script.calls[line][1] = "connect_async" /\ script.calls[line][2] = p
      BY <1>2, <3>1
    <3> QED BY <1>1, <2>2, <3>2 DEF Who
  <2>3. CASE line = 1 \/ line = 3 \/ line = 5 \/ line = 6
    <3>1. /\ script.calls[1][1] = "run" /\ script.calls[3][1] = "block"
          /\ script.calls[5][1] = "await_shutdown" /\ script.calls[6][1] = "block"
      BY PairScript
    <3> QED BY <1>1, <2>3, <3>1
  <2> QED BY <1>5, <2>1, <2>2, <2>3
<1>6. CASE line = 7
  <2>1. \/ script.calls[line] = <<"assert identification", c, p>>
        \/ script.calls[line] = <<"assert handshake", c, p>>
    BY <1>6, PairScript
  <2>2. /\ script.calls[line][2] = c /\ script.calls[line][3] = p
        /\ script.calls[line][1] \in {"assert identification", "assert handshake"}
    <3>1. \A x : /\ <<x, c, p>>[1] = x /\ <<x, c, p>>[2] = c
                 /\ <<x, c, p>>[3] = p
      BY SMT
    <3> QED BY <2>1, <3>1
  <2> QED BY <1>1, <1>6, <2>2 DEF Who
<1>7. CASE line \in {8, 9, 10}
  <2>1. Len(script.calls) # 7
    BY SMT, <1>3, <1>7
  <2>2. /\ script.calls[8] = <<"send", c>> /\ script.calls[9] = <<"receive", p>>
        /\ script.calls[10] = <<"assert received", p>>
    BY <2>1, PairScript
  <2>3. \A x : /\ <<x, c>>[1] = x /\ <<x, c>>[2] = c
               /\ <<x, p>>[1] = x /\ <<x, p>>[2] = p
    BY SMT
  <2>4. CASE line = 8
    BY <1>1, <2>2, <2>3, <2>4 DEF Who
  <2>5. CASE line = 9
    BY <1>1, <2>2, <2>3, <2>5 DEF Who
  <2>6. CASE line = 10
    BY <1>1, <2>2, <2>3, <2>6 DEF Who
  <2> QED BY <1>7, <2>4, <2>5, <2>6
<1> QED BY <1>4, <1>5, <1>6, <1>7

(***************************************************************************)
(* What the Mediator's tables hold for the two sessions.                   *)
(***************************************************************************)
LEMMA PairTables ==
  ASSUME CoreInv, WireInv, NEW c \in Session, NEW p \in Session, Couple(c, p),
         Handled(c, p)
  PROVE  /\ c # p
         /\ store[Wants[c]] # None => handler[p] \in PastPut
         /\ handler[p] \in PastPut =>
              store[Wants[c]] # None /\ store[Wants[c]] = Identifier(p)
         /\ handler[c] \in Waited => store[Wants[p]] # None
         /\ handler[c] \in {"waitDisconnect", "identify", "identified"} =>
              awaited[c] = Identifier(p) /\ awaited[c].address = p
              /\ awaited[c].version = kVersion[p]
         /\ handler[c] \in {"identify", "identified"} => handler[p] = "disconnected"
         /\ handler[p] = "disconnected" =>
              p \in completed \/ handler[c] \in {"identify", "identified"}
         /\ pc[p] = "idle" => handler[p] \in {"none", "advertise"}
         /\ pc[c] = "idle" => handler[c] \in {"none", "advertise"}
<1>1. /\ Stored /\ Wire(c) /\ Wire(p) /\ Ordered(c) /\ HandlerDefined(c)
      /\ Conversation(c) /\ Conversation(p)
      /\ KeyOf \in [Session -> Key] /\ Wants \in [Session -> Key]
  BY SessionAssumption DEF WireInv, CoreInv, Inv, HandlerInv
<1>2. c # p /\ Wants[c] = KeyOf[p] /\ Wants[p] = KeyOf[c]
  BY DEF Couple
<1>3. ASSUME NEW s \in Session, handler[s] # "none" PROVE s \in {c, p}
  BY <1>3 DEF Handled, Alone
<1>4. ASSUME store[Wants[c]] # None
      PROVE  handler[p] \in PastPut /\ store[Wants[c]] = Identifier(p)
  <2>1. PICK s \in Session : /\ KeyOf[s] = Wants[c] /\ handler[s] \in PastPut
                             /\ store[Wants[c]] = Identifier(s)
    BY <1>1, <1>4 DEF Stored
  <2>2. s = p
    BY <1>2, <1>3, <2>1 DEF PastPut, Couple
  <2> QED BY <2>1, <2>2
<1>5. handler[p] \in PastPut => store[Wants[c]] # None
  BY <1>1, <1>2 DEF Stored
<1>6. ASSUME handler[c] \in Waited PROVE store[Wants[p]] # None
  <2>1. handler[c] \in PastPut
    BY <1>6 DEF Waited, PastPut
  <2> QED BY <1>1, <1>2, <2>1 DEF Stored
<1>7. ASSUME handler[c] \in {"waitDisconnect", "identify", "identified"}
      PROVE  awaited[c] = Identifier(p) /\ awaited[c].address = p
             /\ awaited[c].version = kVersion[p]
  <2>1. awaited[c] = store[Wants[c]] /\ awaited[c] # None
    BY <1>1, <1>7, AbsentAssumption
    DEF Stored, HandlerDefined, PeerIdentifier, PunchedPeer
  <2>2. awaited[c] = Identifier(p)
    BY <1>4, <2>1
  <2> QED BY SMT, <2>2 DEF Identifier
<1>8. handler[c] \in {"identify", "identified"} => handler[p] = "disconnected"
  BY <1>1, <1>7 DEF Ordered, Disconnected
<1>9. ASSUME handler[p] = "disconnected", p \notin completed
      PROVE  handler[c] \in {"identify", "identified"}
  <2>1. PICK t \in Session : handler[t] \in {"identify", "identified"}
    BY <1>1, <1>9 DEF Stored
  <2> QED BY <1>3, <1>9, <2>1
<1>10. /\ pc[p] = "idle" => handler[p] \in {"none", "advertise"}
       /\ pc[c] = "idle" => handler[c] \in {"none", "advertise"}
  BY <1>1 DEF Conversation
<1> QED BY <1>2, <1>4, <1>5, <1>6, <1>7, <1>8, <1>9, <1>10

(* SentBy, place by place. *)
LEMMA SentByValues ==
  /\ SentBy("none") = 0 /\ SentBy("advertise") = 0 /\ SentBy("challenge") = 0
  /\ SentBy("response") = 1 /\ SentBy("lookup") = 1 /\ SentBy("putClient") = 1
  /\ SentBy("await") = 1 /\ SentBy("waitDisconnect") = 1 /\ SentBy("identify") = 1
  /\ SentBy("putPeer") = 1 /\ SentBy("disconnect") = 1
  /\ SentBy("identified") = 2 /\ SentBy("addDisconnect") = 2
  /\ SentBy("disconnected") = 2
BY DEF SentBy

(* Where the handlers of the two sessions go. *)
LEMMA PairHandlerGoes ==
  ASSUME BaseInv, NEW c \in Session, NEW p \in Session, PairTest(c, p),
         Handled(c, p), NEW s \in {c, p}, Handler(s)
  PROVE  /\ handler[s] = "none" => handler'[s] = "advertise"
         /\ handler[s] = "advertise" => handler'[s] = "challenge"
         /\ handler[s] = "challenge" => handler'[s] = "response"
         /\ handler[s] = "response" => handler'[s] = "lookup"
         /\ handler[s] = "lookup" =>
              handler'[s] = IF s = c THEN "putClient" ELSE "putPeer"
         /\ handler[s] = "putClient" => handler'[s] = "await"
         /\ handler[s] = "await" => handler'[s] = "waitDisconnect"
         /\ handler[s] = "waitDisconnect" => handler'[s] = "identify"
         /\ handler[s] = "identify" => handler'[s] = "identified"
         /\ handler[s] = "putPeer" => handler'[s] = "disconnect"
         /\ handler[s] = "disconnect" => handler'[s] = "addDisconnect"
         /\ handler[s] = "addDisconnect" => handler'[s] = "disconnected"
         /\ handler[s] \notin Returned
<1>1. /\ CoreInv /\ WireInv /\ HarnessTypeOK /\ quit_after = script.quit_after
      /\ s \in Session
  BY DEF BaseInv, HarnessInv
<1>2. Couple(c, p)
  BY DEF PairTest
<1>3. quit_after \notin {"Advertise", "AdvertiseChallenge", "AdvertiseResponse"}
  BY <1>1, PairScript, MediatorAssumption DEF MessageType
<1>4. ~(kVersion[s] < protocol_version)
  <2>1. kVersion[s] \in Nat /\ protocol_version \in Nat
    BY <1>1, SessionAssumption, MediatorAssumption
  <2>2. kVersion[s] >= protocol_version
    BY <1>2 DEF Couple
  <2> QED BY SMT, <2>1, <2>2
<1>5. ASSUME handler[s] = "lookup"
      PROVE  handler'[s] = IF s = c THEN "putClient" ELSE "putPeer"
  <2>1. c # p
    BY <1>1, <1>2, PairTables
  <2>2. CASE s = c
    <3>1. pc[p] = "idle"
      BY <1>5, <2>2 DEF Handled, Waited
    <3>2. store[Wants[c]] = None
      BY <1>1, <1>2, <3>1, PairTables DEF PastPut
    <3> QED BY <1>1, <1>5, <2>2, <3>2, HandlerGoes
  <2>3. CASE s = p
    <3>1. pc[p] # "idle"
      BY <1>1, <1>2, <1>5, <2>3, PairTables
    <3>2. handler[c] \in Waited
      BY <3>1 DEF Handled
    <3>3. store[Wants[p]] # None
      BY <1>1, <1>2, <3>2, PairTables
    <3> QED BY <1>1, <1>5, <2>1, <2>3, <3>3, HandlerGoes
  <2> QED BY <2>2, <2>3
<1> QED BY <1>1, <1>3, <1>4, <1>5, HandlerGoes

(* What the FakeMediator has logged as sent after a step of a handler. *)
LEMMA SentStep ==
  ASSUME BaseInv, NEW c \in Session, NEW p \in Session, PairTest(c, p),
         Handled(c, p), Sent(c, p), NEW s \in {c, p}, Handler(s), HandlerLogs(s),
         \A t \in Session : t # s => handler'[t] = handler[t]
  PROVE  Sent(c, p)'
<1>1. /\ CoreInv /\ WireInv /\ s \in Session /\ Couple(c, p) /\ c # p
      /\ sent_messages \in Seq(Message)
  <2>1. CoreInv /\ WireInv /\ HarnessTypeOK /\ Couple(c, p)
    BY DEF BaseInv, HarnessInv, PairTest
  <2> QED BY <2>1 DEF HarnessTypeOK, Couple
<1>2. \A m : /\ Len(Append(sent_messages, m)) = Len(sent_messages) + 1
             /\ \A i \in 1 .. Len(sent_messages) :
                  Append(sent_messages, m)[i] = sent_messages[i]
             /\ Append(sent_messages, m)[Len(sent_messages) + 1] = m
  BY SMT, <1>1
<1>3. CASE handler[s] \notin Sends
  <2>1. UNCHANGED sent_messages
    BY <1>1, <1>3, HandlerAppends
  <2>2. SentBy(handler'[s]) = SentBy(handler[s])
    <3>1. handler[s] \in {"none", "advertise", "response", "lookup", "putClient",
                           "putPeer", "await", "waitDisconnect", "addDisconnect"}
      BY <1>3, PairHandlerGoes DEF Handled, Waited, Returned, Sends
    <3>2. CASE handler[s] = "none"
      BY <3>2, PairHandlerGoes, SentByValues
    <3>3. CASE handler[s] = "advertise"
      BY <3>3, PairHandlerGoes, SentByValues
    <3>4. CASE handler[s] \in {"response", "lookup", "putClient", "putPeer",
                               "await", "waitDisconnect"}
      <4>1. /\ handler'[s] \in {"lookup", "putClient", "putPeer", "await",
                                 "disconnect", "waitDisconnect", "identify"}
        BY <3>4, PairHandlerGoes
      <4> QED BY <3>4, <4>1, SentByValues
    <3>5. CASE handler[s] = "addDisconnect"
      BY <3>5, PairHandlerGoes, SentByValues
    <3> QED BY <3>1, <3>2, <3>3, <3>4, <3>5
  <2>3. /\ handler'[p] \in {"addDisconnect", "disconnected"} =>
             handler[p] \in {"addDisconnect", "disconnected"}
        /\ handler'[c] = "identified" => handler[c] = "identified"
    BY <1>1, <1>3, PairHandlerGoes DEF Handled, Waited, Returned, Sends
  <2>4. /\ SentBy(handler'[c]) = SentBy(handler[c])
        /\ SentBy(handler'[p]) = SentBy(handler[p])
    BY <1>1, <2>2
  <2> QED BY <2>1, <2>3, <2>4 DEF Sent
<1>4. CASE handler[s] = "challenge"
  <2>1. /\ handler'[s] = "response"
        /\ sent_messages' = Append(sent_messages, Chal(s))
    BY <1>1, <1>4, HandlerAppends, PairHandlerGoes
  <2>2. /\ handler'[p] \notin {"addDisconnect", "disconnected"}
        /\ handler'[c] # "identified"
    <3>1. CASE s = c
      <4>1. pc[p] = "idle"
        BY <1>4, <3>1 DEF Handled, Waited
      <4>2. handler[p] \in {"none", "advertise"} /\ handler'[p] = handler[p]
        BY <1>1, <3>1, <4>1, PairTables
      <4> QED BY <2>1, <3>1, <4>2
    <3>2. CASE s = p
      <4>1. handler[c] # "identified" /\ handler'[c] = handler[c]
        BY <1>1, <1>4, <3>2, PairTables
      <4> QED BY <2>1, <3>2, <4>1
    <3> QED BY <3>1, <3>2
  <2>3. SentBy(handler[s]) = 0 /\ SentBy(handler'[s]) = 1
    BY <1>4, <2>1, SentByValues
  <2>4. SentBy(handler[c]) \in {0, 1, 2} /\ SentBy(handler[p]) \in {0, 1, 2}
    BY DEF SentBy
  <2>5. Len(sent_messages') = Len(sent_messages) + 1
        /\ Len(sent_messages) = SentBy(handler[c]) + SentBy(handler[p])
    BY <1>2, <2>1 DEF Sent
  <2>6. Len(sent_messages') = SentBy(handler'[c]) + SentBy(handler'[p])
    <3>1. CASE s = c
      <4>1. SentBy(handler'[p]) = SentBy(handler[p])
        BY <1>1, <3>1
      <4> QED BY SMT, <2>3, <2>4, <2>5, <3>1, <4>1
    <3>2. CASE s = p
      <4>1. SentBy(handler'[c]) = SentBy(handler[c])
        BY <1>1, <3>2
      <4> QED BY SMT, <2>3, <2>4, <2>5, <3>2, <4>1
    <3> QED BY <3>1, <3>2
  <2> QED BY <2>2, <2>6 DEF Sent
<1>5. CASE handler[s] = "disconnect"
  <2>1. /\ s = p /\ handler'[p] = "addDisconnect" /\ handler'[c] = handler[c]
        /\ sent_messages' = Append(sent_messages, PeerDisconnect(p))
    BY <1>1, <1>5, HandlerAppends, PairHandlerGoes DEF Handled, Waited
  <2>2. handler[c] \in Waited \ {"identified"}
    BY <1>1, <1>5, <2>1, PairTables DEF Handled
  <2>3. SentBy(handler[c]) = 1 /\ SentBy(handler[p]) = 1
        /\ SentBy(handler'[c]) = 1 /\ SentBy(handler'[p]) = 2
    BY <1>5, <2>1, <2>2, SentByValues DEF Waited
  <2>4. Len(sent_messages) = 1 + 1
    BY <2>3 DEF Sent
  <2>5. Len(sent_messages) = 2
    BY SMT, <2>4
  <2>6. Len(sent_messages') = 1 + 2 /\ sent_messages'[3] = PeerDisconnect(p)
    <3>1. /\ Len(sent_messages') = Len(sent_messages) + 1
          /\ sent_messages'[Len(sent_messages) + 1] = PeerDisconnect(p)
      BY <1>2, <2>1
    <3> QED BY SMT, <2>5, <3>1
  <2>7. Len(sent_messages') = SentBy(handler'[c]) + SentBy(handler'[p])
    BY <2>3, <2>6
  <2>8. sent_messages'[3].type = "PeerDisconnect"
    <3>1. PeerDisconnect(p).type = "PeerDisconnect"
      BY Contents
    <3> QED BY <2>6, <3>1
  <2>9. handler'[c] # "identified"
    BY <2>1, <2>2
  <2> QED BY <2>7, <2>8, <2>9 DEF Sent
<1>6. CASE handler[s] = "identify"
  <2>1. /\ s = c /\ handler'[c] = "identified" /\ handler'[p] = handler[p]
        /\ handler[p] = "disconnected"
        /\ sent_messages' =
             Append(sent_messages, PeerIdentification(kVersion[p], p))
    <3>1. s = c
      BY <1>6 DEF Handled
    <3>2. /\ handler[p] = "disconnected" /\ awaited[c].address = p
          /\ awaited[c].version = kVersion[p]
      <4>1. handler[c] \in {"waitDisconnect", "identify", "identified"}
            /\ handler[c] \in {"identify", "identified"}
        BY <1>6, <3>1
      <4> QED BY <1>1, <4>1, PairTables
    <3>3. sent_messages' = Append(sent_messages,
            PeerIdentification(awaited[s].version, awaited[s].address))
      BY <1>1, <1>6, HandlerAppends
    <3> QED BY <1>1, <1>6, <3>1, <3>2, <3>3, PairHandlerGoes
  <2>2. SentBy(handler[c]) = 1 /\ SentBy(handler[p]) = 2
        /\ SentBy(handler'[c]) = 2 /\ SentBy(handler'[p]) = 2
    BY <1>6, <2>1, SentByValues
  <2>3. Len(sent_messages) = 1 + 2 /\ sent_messages[3].type = "PeerDisconnect"
    BY <2>1, <2>2 DEF Sent
  <2>4. Len(sent_messages) = 3 /\ 3 \in 1 .. Len(sent_messages)
    BY SMT, <2>3
  <2>5. /\ Len(sent_messages') = 2 + 2 /\ sent_messages'[3] = sent_messages[3]
        /\ sent_messages'[4] = PeerIdentification(kVersion[p], p)
    <3>1. /\ Len(sent_messages') = Len(sent_messages) + 1
          /\ sent_messages'[3] = sent_messages[3]
          /\ sent_messages'[Len(sent_messages) + 1] =
               PeerIdentification(kVersion[p], p)
      BY <1>2, <2>1, <2>4
    <3> QED BY SMT, <2>4, <3>1
  <2>6. Len(sent_messages') = SentBy(handler'[c]) + SentBy(handler'[p])
    BY <2>2, <2>5
  <2> QED BY <2>1, <2>3, <2>5, <2>6 DEF Sent
<1> QED BY <1>3, <1>4, <1>5, <1>6 DEF Sends, Handled, Waited
=============================================================================
