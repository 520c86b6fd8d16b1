---------------------------- MODULE IntegrationTest ----------------------------
(***************************************************************************)
(* The integration tests (integration/src/client_it.cpp): a test thread    *)
(* that runs and stops a FakeMediator and connects sessions through the    *)
(* Client helper (integration/src/util/client.cpp), with the worker thread *)
(* of the FakeMediator, the messages that the FakeMediator and the         *)
(* StatefulSockets log, and the assertions on them.                        *)
(*                                                                         *)
(* A test is a script: the calls that the test thread makes, in order, and *)
(* the calls of any thread that may return without what they wait for.     *)
(***************************************************************************)
EXTENDS P2psc

CONSTANT Scripts   \* the tests

(* The calls a test can make, with the sessions that they are about. *)
Call ==
  {<<"run">>, <<"block">>, <<"await_shutdown">>}
    \cup ({"connect_async", "connect_sync", "send", "receive",
           "assert advertise", "assert identity", "assert received"} \X Session)
    \cup ({"assert identification", "assert handshake"} \X Session \X Session)

(***************************************************************************)
(* connect_sync and await_shutdown wait on condition variables without a   *)
(* predicate, and may wake up for no reason; connect_sync's wait also has  *)
(* a timeout of 100 ms, and the handlers' await() one of two seconds.  The *)
(* worker's accept() returns when its descriptor is closed on some         *)
(* systems; on Linux it does not.                                          *)
(***************************************************************************)
Interruptible == {"connect_sync", "await_shutdown", "await", "accept"}

ASSUME HarnessAssumption ==
  \A test \in Scripts : /\ test.calls \in Seq(Call)
                        /\ test.early \subseteq Interruptible

VARIABLES script,             \* the test that runs
          line, phase,        \* where its thread is
          running,            \* _is_running
          listening,          \* _is_open of the listening socket
          worker,             \* where the thread of _run is
          received_messages, sent_messages,   \* of the FakeMediator
          stateful            \* the messages a StatefulSocket has logged

testVars == <<script, line, phase>>
workerVars == <<running, listening, worker>>
logVars == <<received_messages, sent_messages, stateful>>
harnessVars == <<testVars, workerVars, logVars>>

P2pEndpoint == {ClientEnd(c) : c \in Session} \cup {PeerEnd(c) : c \in Session}

HarnessTypeOK ==
  /\ script \in Scripts
  /\ line \in 1 .. Len(script.calls) + 1
  /\ phase \in {"at", "called", "waiting", "missed", "notified", "close",
                "joinWorker", "joinHandlers", "stopped"}
  /\ running \in BOOLEAN /\ listening \in BOOLEAN
  /\ worker \in {"none", "check", "enter", "accept", "returned", "aborted"}
  /\ received_messages \in Seq(Message) /\ sent_messages \in Seq(Message)
  /\ stateful \in [P2pEndpoint -> [sent : Seq(Message), received : Seq(Message)]]

HarnessInit ==
  /\ Init
  /\ script \in Scripts /\ line = 1 /\ phase = "at"
  /\ running = FALSE /\ listening = TRUE /\ worker = "none"
  /\ received_messages = <<>> /\ sent_messages = <<>>
  /\ stateful = [e \in P2pEndpoint |-> [sent |-> <<>>, received |-> <<>>]]
  /\ quit_after = script.quit_after
-----------------------------------------------------------------------------
(* The tests, for the sessions that they call client and peer. *)

Ending(test, early) ==
  [quit_after |-> test.quit_after, calls |-> test.calls, early |-> early]

ShouldSendValidAdvertise(peer) ==
  [quit_after |-> "Advertise",
   calls |-> <<<<"run">>, <<"connect_sync", peer>>, <<"assert advertise", peer>>>>]

ShouldCorrectlyProveIdentityWithNonce(peer) ==
  [quit_after |-> "AdvertiseResponse",
   calls |-> <<<<"run">>, <<"connect_sync", peer>>, <<"assert identity", peer>>>>]

ConnectBoth(client, peer) ==
  <<<<"run">>, <<"connect_async", client>>, <<"block">>,
    <<"connect_async", peer>>, <<"await_shutdown">>, <<"block">>>>

ShouldSendPeerIdentificationToFirstPeer(client, peer) ==
  [quit_after |-> "PeerIdentification",
   calls |-> ConnectBoth(client, peer)
               \o <<<<"assert identification", client, peer>>>>]

(* Nothing sets _quit_after here; the garbage in it is no message type. *)
ShouldCompletePeerHandshake(client, peer) ==
  [quit_after |-> None,
   calls |-> ConnectBoth(client, peer)
               \o <<<<"assert handshake", client, peer>>, <<"send", client>>,
                    <<"receive", peer>>, <<"assert received", peer>>>>]
-----------------------------------------------------------------------------
(* The logs *)

Last(log) == log[Len(log)]

Receives == {"advertise", "response"}
Sends == {"abort", "challenge", "identify", "disconnect"}

(* mutant: only the type of the message is logged *)
HandlerLogsTypes(s) ==
  /\ received_messages' =
       IF handler[s] \in Receives /\ handler'[s] # handler[s]
         THEN Append(received_messages,
                     [type |-> Head(inbox[HandlerEnd(s)]).type])
         ELSE received_messages
  /\ UNCHANGED sent_messages

(***************************************************************************)
(* _receive_and_log and _send_and_log append the message to the log of the *)
(* FakeMediator in the same call that receives or sends it.                *)
(***************************************************************************)
HandlerLogs(s) ==
  /\ received_messages' =
       IF handler[s] \in Receives /\ handler'[s] # handler[s]
         THEN Append(received_messages, Head(inbox[HandlerEnd(s)]))
         ELSE received_messages
  /\ sent_messages' =
       IF handler[s] \in Sends /\ handler'[s] # handler[s]
         THEN Append(sent_messages, Last(inbox'[MedEnd(s)]))
         ELSE sent_messages

(* StatefulSocket::send and receive, on the sockets between two sessions. *)
SocketLogs ==
  stateful' = [e \in P2pEndpoint |->
    [sent     |-> IF Len(inbox'[Far(e)]) > Len(inbox[Far(e)])
                    THEN Append(stateful[e].sent, Last(inbox'[Far(e)]))
                    ELSE stateful[e].sent,
     received |-> IF Len(inbox'[e]) < Len(inbox[e])
                    THEN Append(stateful[e].received, Head(inbox[e]))
                    ELSE stateful[e].received]]
-----------------------------------------------------------------------------
(* The FakeMediator's worker thread and its handlers *)

Work(from, to) == worker = from /\ worker' = to

(***************************************************************************)
(* _run: it tests _is_running, then calls accept(), which asserts that the *)
(* listening socket is open and blocks.                                    *)
(***************************************************************************)
WorkerStep ==
  /\ \/ running /\ Work("check", "enter")
     \/ ~running /\ Work("check", "returned")
     \/ listening /\ Work("enter", "accept")
     \/ ~listening /\ Work("enter", "aborted")
     \/ ~listening /\ "accept" \in script.early /\ Work("accept", "check")
  /\ UNCHANGED <<vars, testVars, running, listening, logVars>>

(***************************************************************************)
(* The worker accepts a connection and starts its handler.  An accept()    *)
(* that the close has not ended still does so.                             *)
(***************************************************************************)
WorkerAccept(s) ==
  /\ listening \/ "accept" \notin script.early
  /\ HandlerAccept(s)
  /\ Work("accept", "check")
  /\ UNCHANGED <<testVars, running, listening, logVars>>

(* A handler's step.  Recording a disconnect notifies await_shutdown. *)
HandlerStep(s) ==
  /\ handler[s] # "none"
  /\ Handler(s)
  /\ HandlerLogs(s)
  /\ phase' = IF phase = "waiting" /\ handler'[s] = "disconnected"
                   /\ script.calls[line][1] = "await_shutdown"
                THEN "notified" ELSE phase
  /\ UNCHANGED <<script, line, workerVars, stateful>>

(* Two seconds are over and the other peer has not come. *)
HandlerGivesUp(s) ==
  /\ "await" \in script.early
  /\ HandlerAwaitTimeout(s)
  /\ UNCHANGED harnessVars

ClientStep(s) ==
  /\ SessionStep(s)
  /\ SocketLogs
  /\ UNCHANGED <<testVars, workerVars, received_messages, sent_messages>>
-----------------------------------------------------------------------------
(* The test thread *)

Calling(name) == line <= Len(script.calls) /\ script.calls[line][1] = name

Who == script.calls[line][2]

NextCall == line' = line + 1 /\ phase' = "at" /\ UNCHANGED script

InPhase(from, to) == phase = from /\ phase' = to /\ UNCHANGED <<script, line>>

(***************************************************************************)
(* Where the thread of a session, or of a handler, waits for another one,  *)
(* or has ended.                                                           *)
(***************************************************************************)
SessionWaits(s) ==
  \/ pc[s] \in {"idle", "done", "silent", "died"}
  \/ pc[s] \in {"advertised", "registered"} /\ Blocks(MedEnd(s))
  \/ /\ pc[s] \in {"challenging", "answered", "accepted", "replied"}
     /\ Blocks(P2pEnd(s))
  \/ pc[s] = "accept" /\ "accept" \notin Faults /\ \A c \in Session : dial[c] # s
  \/ pc[s] = "redial" /\ Prompt /\ ListensSoon(punched_peer[s].address)

HandlerWaits(s) ==
  \/ ~mediatorUp \/ handler[s] \in Returned
  \/ handler[s] = "none" /\ ~open[HandlerEnd(s)]
  \/ handler[s] \in Receives /\ Blocks(HandlerEnd(s))
  \/ handler[s] = "await" /\ store[advertise[s].their_key] = None
  \/ handler[s] = "waitDisconnect" /\ ~DisconnectSent(awaited[s].address)

(***************************************************************************)
(* Everything has come to rest.  The tests give the system 100 ms for what *)
(* takes it a few; blocking that long is waiting for this.                 *)
(***************************************************************************)
Quiescent ==
  worker = "accept" /\ \A s \in Session : SessionWaits(s) /\ HandlerWaits(s)

Run ==
  /\ Calling("run") /\ ~running
  /\ running' = TRUE /\ worker' = "check"
  /\ NextCall
  /\ UNCHANGED <<vars, listening, logVars>>

(***************************************************************************)
(* Client::connect_async returns the variable that its callback assigns:   *)
(* the compiler elides the copy, so the caller sees the later assignment.  *)
(***************************************************************************)
ConnectAsync ==
  /\ Calling("connect_async")
  /\ Connect(Who)
  /\ NextCall
  /\ UNCHANGED <<handlerVars, workerVars, logVars>>

(***************************************************************************)
(* Client::connect_sync: the callback notifies a condition variable, and   *)
(* wait_for has no predicate.  A callback that comes before the wait is    *)
(* missed and the wait lasts until its timeout.                            *)
(***************************************************************************)
ConnectSync ==
  /\ Calling("connect_sync")
  /\ InPhase("at", "called")
  /\ Connect(Who)
  /\ UNCHANGED <<handlerVars, workerVars, logVars>>

WaitForCallback ==
  /\ Calling("connect_sync")
  /\ InPhase("called", IF callbacks[Who] = <<>> THEN "waiting" ELSE "missed")
  /\ UNCHANGED <<vars, workerVars, logVars>>

ConnectSyncReturns ==
  /\ Calling("connect_sync")
  /\ \/ phase = "waiting" /\ callbacks[Who] # <<>>
     \/ phase \in {"waiting", "missed"} /\ Quiescent
  /\ NextCall
  /\ UNCHANGED <<vars, workerVars, logVars>>

(* mutant: no sleep *)
BlockNotAtAll ==
  /\ Calling("block")
  /\ NextCall
  /\ UNCHANGED <<vars, workerVars, logVars>>

(* block(kDefaultPeerConnectTimeout) *)
Block ==
  /\ Calling("block") /\ Quiescent
  /\ NextCall
  /\ UNCHANGED <<vars, workerVars, logVars>>

(***************************************************************************)
(* await_shutdown waits on _disconnect_cv without a predicate: it returns  *)
(* at the next disconnect, and a disconnect that was recorded before is    *)
(* missed.                                                                 *)
(***************************************************************************)
AwaitShutdown ==
  /\ Calling("await_shutdown")
  /\ \/ InPhase("at", "waiting")
     \/ phase = "notified" /\ NextCall
  /\ UNCHANGED <<vars, workerVars, logVars>>

(***************************************************************************)
(* A wait of the test thread ends for no reason, or connect_sync's before  *)
(* the callback.  A callback that comes later assigns a variable that is   *)
(* gone; what that does to the stack of the test is not followed.          *)
(***************************************************************************)
WakeEarly ==
  /\ \E name \in {"connect_sync", "await_shutdown"} :
       name \in script.early /\ Calling(name)
  /\ phase \in {"waiting", "missed"}
  /\ NextCall
  /\ UNCHANGED <<vars, workerVars, logVars>>

(* The conditions are those of TestAssertions. *)
Asserts == {"assert advertise", "assert identity", "assert identification",
            "assert handshake", "assert received"}

TestAssert ==
  /\ \E name \in Asserts : Calling(name)
  /\ NextCall
  /\ UNCHANGED <<vars, workerVars, logVars>>

(* The pointer that connect_async returned is not null. *)
GivenSocket(s) == callbacks[s] # <<>> /\ Last(callbacks[s]) = "socket"

(* The test sends on the socket that connect_async gave it. *)
TestSend ==
  /\ Calling("send") /\ GivenSocket(Who)
  /\ Send(P2pEnd(Who), ApplicationData)
  /\ SocketLogs
  /\ NextCall
  /\ UNCHANGED <<open, medVars, peerVars, handlerVars, workerVars,
                 received_messages, sent_messages>>

TestReceive ==
  /\ Calling("receive") /\ GivenSocket(Who)
  /\ inbox[P2pEnd(Who)] # <<>>
  /\ Receive(P2pEnd(Who))
  /\ SocketLogs
  /\ NextCall
  /\ UNCHANGED <<open, medVars, peerVars, handlerVars, workerVars,
                 received_messages, sent_messages>>

(***************************************************************************)
(* The end of the test destroys the sockets and then the FakeMediator,     *)
(* whose destructor calls stop(): _is_running is reset, the listening      *)
(* socket is closed, and the worker and the handlers are joined.           *)
(***************************************************************************)
Unwind ==
  /\ line > Len(script.calls) /\ InPhase("at", "close")
  /\ open' = [e \in Endpoint |-> open[e] /\ e \notin P2pEndpoint]
  /\ running' = FALSE
  /\ UNCHANGED <<inbox, medVars, peerVars, handlerVars, listening, worker,
                 logVars>>

StopCloses ==
  /\ InPhase("close", "joinWorker")
  /\ listening' = FALSE
  /\ UNCHANGED <<vars, running, worker, logVars>>

StopJoins ==
  /\ \/ InPhase("joinWorker", "joinHandlers") /\ worker = "returned"
     \/ /\ InPhase("joinHandlers", "stopped")
        /\ \A s \in Session : handler[s] \notin Running
  /\ UNCHANGED <<vars, workerVars, logVars>>

TestThread ==
  \/ Run \/ ConnectAsync \/ ConnectSync \/ WaitForCallback
  \/ ConnectSyncReturns \/ Block \/ AwaitShutdown \/ TestAssert \/ TestSend
  \/ TestReceive \/ Unwind \/ StopCloses \/ StopJoins

HarnessNext ==
  \/ TestThread
  \/ WakeEarly
  \/ WorkerStep
  \/ \E s \in Session : \/ WorkerAccept(s) \/ HandlerStep(s) \/ HandlerGivesUp(s)
                       \/ ClientStep(s)

allVars == <<vars, harnessVars>>

HarnessSpec == HarnessInit /\ [][HarnessNext]_allVars

(* The kernel schedules every thread, and time passes. *)
HarnessFairSpec ==
  /\ HarnessSpec
  /\ WF_allVars(TestThread)
  /\ WF_allVars(WorkerStep \/ \E s \in Session : WorkerAccept(s))
  /\ \A s \in Session : /\ WF_allVars(HandlerStep(s))
                        /\ WF_allVars(HandlerGivesUp(s))
                        /\ WF_allVars(ClientStep(s))
-----------------------------------------------------------------------------
Types(log) == [i \in DOMAIN log |-> log[i].type]

(***************************************************************************)
(* The assertions of the four tests hold when the test thread reaches      *)
(* them, although nothing but sleeping and the FakeMediator's condition    *)
(* variable orders them after what they look at.                           *)
(***************************************************************************)
TestAssertions ==
  /\ Calling("assert advertise") =>
       /\ Types(received_messages) = <<"Advertise">> /\ sent_messages = <<>>
       /\ received_messages[1].our_key = KeyOf[Who]
       /\ received_messages[1].their_key = Wants[Who]
  /\ Calling("assert identity") =>
       /\ Len(received_messages) = 2 /\ Len(sent_messages) = 1
       /\ CanDecrypt(KeyOf[Who], sent_messages[1].encrypted_nonce)
       /\ Decrypt(sent_messages[1].encrypted_nonce) = received_messages[2].nonce
  /\ Calling("assert identification") =>
       LET client == Who  peer == script.calls[line][3] IN
       /\ GivenSocket(client) /\ GivenSocket(peer)
       /\ Len(sent_messages) = 4
       /\ sent_messages[3].type = "PeerDisconnect"
       /\ sent_messages[4].type = "PeerIdentification"
       /\ sent_messages[4].address = dial[client]
  /\ Calling("assert handshake") =>
       /\ \A s \in {Who, script.calls[line][3]} :
            /\ GivenSocket(s)
            /\ Len(stateful[P2pEnd(s)].sent) = 2
            /\ Len(stateful[P2pEnd(s)].received) = 2
       /\ stateful[P2pEnd(Who)].sent[1].type = "PeerChallenge"
  /\ Calling("assert received") =>
       Last(stateful[P2pEnd(Who)].received) = ApplicationData

(***************************************************************************)
(* The logs of the FakeMediator are vectors without a lock: no two         *)
(* handlers are in the call that appends to one of them, and none is when  *)
(* the test thread copies them.                                            *)
(***************************************************************************)
Receiving(s) == handler[s] \in Receives /\ inbox[HandlerEnd(s)] # <<>>

LogsAreSerial ==
  /\ \A s, t \in Session : s # t =>
       /\ ~(handler[s] \in Sends /\ handler[t] \in Sends)
       /\ ~(Receiving(s) /\ Receiving(t))
  /\ \A name \in Asserts : Calling(name) =>
       \A s \in Session : handler[s] \notin Sends /\ ~Receiving(s)

(***************************************************************************)
(* A thread that cannot go on is in a call that another thread can end: it *)
(* reads from a connection whose other end is open, accepts, or waits for  *)
(* a registration or a disconnect.  Nothing else makes a thread stop.      *)
(***************************************************************************)
OnlyBlockingCallsWait ==
  \A s \in Session : /\ SessionWaits(s) <=> ~ENABLED SessionStep(s)
                     /\ HandlerWaits(s) <=> ~ENABLED Handler(s)

(***************************************************************************)
(* stop(), which the end of a test calls, returns: the worker and every    *)
(* handler can be joined.                                                  *)
(***************************************************************************)
StopReturns == phase = "close" ~> phase = "stopped"
=============================================================================
