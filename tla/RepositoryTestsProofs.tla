------------------------ MODULE RepositoryTestsProofs ------------------------
(***************************************************************************)
(* Proofs about the four tests of client_it.cpp, for any sessions, keys,   *)
(* nonces and versions: their assertions hold when the test thread reaches *)
(* them, and the FakeMediator's logs are not appended to by two threads.   *)
(***************************************************************************)
EXTENDS PairTestProofs

(* Most leaves are first-order; the ones that are not cite SMT. *)
USE Zenon

(* The two sessions register and are told their roles. *)
LEMMA PairRegisters ==
  ASSUME BaseInv, Undisturbed, NEW c \in Session, NEW p \in Session,
         PairTest(c, p), PairInv(c, p), NEW s \in {c, p}, Connect(s) \/ Thread(s),
         pc[s] \in Unassigned
  PROVE  Beside(c, p)' /\ Joined(c, p)' /\ Heard(c, p) /\ pc'[s] # "idle"
<1>1. /\ Beside(c, p) /\ Joined(c, p) /\ Handled(c, p) /\ SessionInv /\ NetTypeOK
      /\ c # p /\ CoreInv /\ WireInv /\ pc \in [Session -> Location]
  BY PairTypes DEF PairInv
<1>2. /\ pc'[s] \in Unassigned \cup {"client", "peer"} /\ pc'[s] # "idle"
      /\ s = c => pc'[s] # "peer"
      /\ s = p => pc'[s] # "client"
  <2>1. /\ handler[s] \notin {"quit", "aborted"}
        /\ s = c => handler[s] \notin {"addDisconnect", "disconnected"}
        /\ s = p => handler[s] # "identified"
    BY <1>1 DEF Handled, Waited
  <2> QED BY <1>1, <2>1, Registers DEF Undisturbed, Unassigned, MediatorStage
<1>3. /\ SameInbox(c) /\ UNCHANGED <<verdict, nonce, dial, accepted, listener>>
  <2>1. CASE Connect(s)
    BY <2>1 DEF Connect, netVars, peerVars, SameInbox
  <2>2. CASE Thread(s)
    <3>1. MediatorConnect(s) /\ UNCHANGED peerVars
      BY <2>2, ThreadAt
    <3>2. pc'[s] # "returning"
      BY <1>2 DEF Unassigned, MediatorStage
    <3>3. \A kind : ~Thrown(s, kind)
      BY <1>1, <3>2 DEF Thrown, Go
    <3>4. Preparing(s)
      BY <1>1, <3>1, <3>3, MediatorKinds
    <3> QED BY <3>1, <3>4 DEF Preparing, P2pSame, SameInbox, peerVars
  <2> QED BY <2>1, <2>2
<1>4. \A t \in Session \ {s} : pc'[t] = pc[t]
  BY <1>1, SessionDefined DEF Same
<1>5. Under(c, <<>>, <<>>) => Under(c, <<>>, <<>>)'
  BY <1>3 DEF Under, SameInbox
<1>6. CASE s = c
  <2>1. pc'[p] = pc[p] /\ pc'[c] \in Unassigned \cup {"client"}
    BY <1>1, <1>2, <1>4, <1>6
  <2>2. pc[p] \in Unassigned \cup {"peer", "bind", "accept"} /\ Under(c, <<>>, <<>>)
    BY <1>1, <1>6, ClientRow
  <2>3. Beside(c, p)'
    BY <1>5, <2>1, <2>2 DEF Beside
  <2>4. /\ pc'[c] \notin Finished /\ pc'[c] \notin ClientDialled
        /\ pc[c] \notin Finished
    BY <1>6, <2>1 DEF Finished, ClientDialled, Unassigned, MediatorStage
  <2>5. Joined(c, p)'
    <3>1. verdict'[c] = None /\ verdict'[p] = verdict[p]
      BY <1>1, <1>3, <2>4 DEF Joined
    <3> QED BY <1>1, <1>3, <2>1, <2>4, <3>1, ClientJoined
  <2>6. Heard(c, p)
    BY <1>3, <1>6, <2>1, Exchanged DEF Heard, Unheard
  <2> QED BY <1>2, <2>3, <2>5, <2>6
<1>7. CASE s = p
  <2>1. pc'[c] = pc[c] /\ pc'[p] \in Unassigned \cup {"peer"}
    BY <1>1, <1>2, <1>4, <1>7
  <2>2. pc[c] \in Unassigned \cup {"client", "dial", "redial"} /\ Under(c, <<>>, <<>>)
    BY <1>1, <1>7, PeerRow
  <2>3. Beside(c, p)'
    BY <1>5, <2>1, <2>2 DEF Beside
  <2>4. /\ pc'[p] \notin Finished /\ pc'[p] \notin PeerAccepted /\ pc[p] \notin Finished
        /\ pc'[p] \notin Listening /\ pc[p] \notin Listening
        /\ pc[c] \notin ClientDialled
    BY <1>7, <2>1, <2>2
    DEF Finished, PeerAccepted, Listening, ClientDialled, Unassigned, MediatorStage
  <2>5. Joined(c, p)'
    <3>1. /\ verdict'[p] = None /\ verdict'[c] = verdict[c] /\ dial'[c] = dial[c]
          /\ \A a \in Address : listener'[a] # None => a = p /\ listener'[a] = p
          /\ listener'[p] = None
      BY <1>1, <1>3, <2>4 DEF Joined
    <3> QED BY <1>1, <2>1, <2>4, <3>1, PeerJoined
  <2>6. Heard(c, p)
    BY <1>3, <1>7, <2>1, Exchanged DEF Heard, Unheard
  <2> QED BY <1>2, <2>3, <2>5, <2>6
<1> QED BY <1>6, <1>7

(* The two sessions call their callbacks. *)
LEMMA PairReturns ==
  ASSUME BaseInv, Undisturbed, NEW c \in Session, NEW p \in Session,
         PairTest(c, p), PairInv(c, p), NEW s \in {c, p}, Thread(s),
         pc[s] = "returning", UNCHANGED line
  PROVE  Beside(c, p)' /\ Joined(c, p)' /\ Heard(c, p)
<1>1. /\ Beside(c, p) /\ Joined(c, p) /\ c # p /\ pc \in [Session -> Location]
  BY PairTypes DEF PairInv
<1>2. Callback(s)
  BY ThreadAt DEF CallbackThrows, Undisturbed
<1>3. UNCHANGED <<inbox, open, verdict, secret, nonce, dial, accepted, listener>>
  BY <1>2 DEF Callback, Undisturbed
<1>4. pc'[s] = "done" /\ \A t \in Session \ {s} : pc'[t] = pc[t]
  BY <1>1, <1>2 DEF Callback, Go
<1>5. \A l \in Finished : l \notin ClientDialled /\ l \notin PeerAccepted
                          /\ l \notin Listening
  BY DEF Finished, ClientDialled, PeerAccepted, Listening
<1>6. /\ pc[c] \in Finished <=> pc'[c] \in Finished
      /\ pc[p] \in Finished <=> pc'[p] \in Finished
      /\ pc[c] \notin Finished => pc'[c] = pc[c]
      /\ pc[p] \notin Finished => pc'[p] = pc[p]
  BY <1>1, <1>4 DEF Finished
<1>7. \A toPeer, toClient : Under(c, toPeer, toClient)' <=> Under(c, toPeer, toClient)
  BY <1>3 DEF Under
<1>8. Beside(c, p)'
  <2>1. CASE s = c
    <3>1. pc[p] \in Finished /\ (line <= 8 => Under(c, <<>>, <<>>))
      BY <1>1, <2>1, ClientRow DEF Finished
    <3> QED BY <1>6, <1>7, <2>1, <3>1 DEF Beside, Finished
  <2>2. CASE s = p
    <3>1. \/ pc[c] = "answered" /\ Under(c, <<>>, <<PeerAcknowledgement>>)
          \/ pc[c] \in Finished /\ (line <= 8 => Under(c, <<>>, <<>>))
      BY <1>1, <2>2, PeerRow DEF Finished
    <3>2. pc'[p] \in Finished /\ pc'[c] = pc[c]
      BY <1>1, <1>4, <2>2 DEF Finished
    <3> QED BY <1>7, <3>1, <3>2 DEF Beside
  <2> QED BY <2>1, <2>2
<1>9. Joined(c, p)'
  BY <1>1, <1>3, <1>5, <1>6 DEF Joined
<1>10. Heard(c, p)
  BY <1>3, <1>6, Exchanged DEF Heard, Unheard, SameInbox
<1> QED BY <1>8, <1>9, <1>10

(* A step of either session. *)
LEMMA PairSession ==
  ASSUME BaseInv, Undisturbed, NEW c \in Session, NEW p \in Session,
         PairTest(c, p), PairInv(c, p), NEW s \in {c, p}, Thread(s),
         UNCHANGED <<handlerVars, line, sent_messages>>, SocketLogs
  PROVE  PairInv(c, p)'
<1>1. /\ Beside(c, p) /\ Handled(c, p) /\ Sent(c, p) /\ Logged(c, p) /\ Lines(c, p)
      /\ SessionInv /\ NetTypeOK /\ c # p /\ HarnessTypeOK
  BY PairTypes DEF PairInv
<1>2. pc[s] # "idle" /\ pc[s] # "done"
  BY ThreadStarted, ThreadAt
<1>3. line <= 6
  <2>1. ~(line >= 7)
    BY <1>1, <1>2 DEF Lines
  <2>2. line \in Int
    BY SMT, <1>1 DEF HarnessTypeOK
  <2> QED BY SMT, <2>1, <2>2
<1>4. /\ Beside(c, p)' /\ Joined(c, p)' /\ Heard(c, p)
  <2>1. pc[c] \in Unassigned \cup ClientLocation \cup Finished
        /\ pc[p] \in Unassigned \cup PeerLocation \cup Finished
    BY <1>1, ClientRow, PeerRow
  <2>2. CASE pc[s] \in Unassigned
    BY <2>2, PairRegisters
  <2>3. CASE pc[s] \in Finished
    BY <1>2, <2>3, PairReturns DEF Finished
  <2>4. CASE s = c /\ pc[c] \in ClientLocation
    BY <2>4, ClientDials, ClientTalks DEF ClientLocation
  <2>5. CASE s = p /\ pc[p] \in PeerLocation
    BY <2>5, PeerListens, PeerTalks DEF PeerLocation
  <2> QED BY <2>1, <2>2, <2>3, <2>4, <2>5
<1>5. pc'[s] # "idle"
  <2>1. CASE pc[s] \in Unassigned
    BY <2>1, PairRegisters
  <2>2. CASE pc[s] \notin Unassigned
    <3>1. GoneOn(s)
      <4>1. ~Converses(s) /\ ~GivesUp(s)
        BY <2>2 DEF Converses, Tells, Hears, GivesUp, Unassigned, MediatorStage
      <4> QED BY <1>1, <4>1, MediatorSide
    <3> QED BY <3>1 DEF GoneOn, PeerStage, Final
  <2> QED BY <2>1, <2>2
<1>6. \A t \in Session \ {s} : pc'[t] = pc[t]
  BY <1>1, SessionDefined DEF Same
<1>7. UNCHANGED handler
  BY DEF handlerVars
<1>8. /\ pc'[c] = "idle" <=> pc[c] = "idle"
      /\ pc'[p] = "idle" <=> pc[p] = "idle"
  BY <1>1, <1>2, <1>5, <1>6
<1>9. Handled(c, p)'
  <2>1. Alone({c, p})'
    BY <1>1, <1>6, <1>7 DEF Handled, Alone
  <2> QED BY <1>1, <1>7, <1>8, <2>1 DEF Handled
<1>10. Sent(c, p)'
  BY <1>1, <1>7 DEF Sent
<1>11. Lines(c, p)'
  <2>1. ~(line >= 7)
    BY <1>1, <1>2 DEF Lines
  <2> QED BY <1>1, <1>7, <1>8, <2>1 DEF Lines
<1>12. Logged(c, p)'
  BY <1>1, <1>3, <1>4, LoggedStep DEF Heard
<1> QED BY <1>4, <1>9, <1>10, <1>11, <1>12 DEF PairInv

(* When everything is at rest, both sessions have called their callbacks. *)
LEMMA PairAtRest ==
  ASSUME BaseInv, NEW c \in Session, NEW p \in Session, PairTest(c, p),
         PairInv(c, p), pc[p] # "idle", pc[c] # "idle", Quiescent
  PROVE  pc[c] = "done" /\ pc[p] = "done"
<1>1. /\ CoreInv /\ WireInv /\ Couple(c, p) /\ Handled(c, p) /\ Beside(c, p)
      /\ Joined(c, p) /\ mediatorUp /\ Wire(c) /\ Wire(p) /\ SessionInv
      /\ handler[c] \in Waited
  <2>1. CoreInv /\ WireInv
    BY DEF BaseInv, HarnessInv
  <2>2. mediatorUp /\ Wire(c) /\ Wire(p) /\ SessionInv
    BY <2>1 DEF CoreInv, WireInv, Inv
  <2> QED BY <2>1, <2>2 DEF PairInv, PairTest, Handled
<1>2. SessionWaits(c) /\ SessionWaits(p) /\ HandlerWaits(c) /\ HandlerWaits(p)
  BY DEF Quiescent
<1>3. pc[p] \notin Unassigned
  BY <1>1, <1>2, AtRest DEF Handled, Unassigned
<1>4. pc[c] \notin Unassigned
  <2>1. SUFFICES ASSUME pc[c] \in Unassigned PROVE FALSE
    OBVIOUS
  <2>2. handler[c] \in {"await", "waitDisconnect"}
    BY <1>1, <1>2, <2>1, AtRest DEF Unassigned
  <2>3. pc[p] \in {"peer", "bind", "accept"}
    BY <1>1, <1>3, <2>1, ClientRow
  <2>4. handler[p] = "disconnected"
    <3>1. peer_disconnect[p] \in Address
      BY <1>1, <2>3 DEF SessionInv, Defined, PeerLocation
    <3>2. handler[p] \in {"addDisconnect", "disconnected"}
      BY <1>1, <3>1, NoneAssumption DEF Wire, Address
    <3> QED BY <1>1, <1>2, <3>2 DEF HandlerWaits, Returned, Receives
  <2>5. /\ store[Wants[c]] # None
        /\ p \in completed \/ handler[c] \in {"identify", "identified"}
        /\ handler[c] = "waitDisconnect" => awaited[c].address = p
    BY <1>1, <2>4, PairTables DEF PastPut
  <2>6. CASE handler[c] = "await"
    <3>1. advertise[c].their_key = Wants[c]
      <4>1. advertise[c] = Adv(c)
        BY <1>1, <2>6 DEF Wire
      <4>2. Adv(c).their_key = Wants[c]
        BY SMT DEF Adv, Advertise, Blank
      <4> QED BY <4>1, <4>2
    <3> QED BY <1>1, <1>2, <2>5, <2>6, <3>1 DEF HandlerWaits, Returned, Receives
  <2>7. CASE handler[c] = "waitDisconnect"
    BY <1>1, <1>2, <2>5, <2>7 DEF HandlerWaits, Returned, Receives, DisconnectSent
  <2> QED BY <2>2, <2>6, <2>7
<1>5. \A m : <<m>> # <<>>
  BY Singletons
<1>6. pc[c] \notin {"client", "dial", "redial", "dialled"}
  <2>1. pc[c] \in {"client", "dial", "redial"} => pc[p] \in {"peer", "bind", "accept"}
                                                  /\ punched_peer[c].address = p
    <3>1. pc[c] \in {"client", "dial", "redial"} =>
            pc[p] \in Unassigned \cup {"peer", "bind", "accept"}
      BY <1>1, ClientRow
    <3>2. pc[c] \in {"client", "dial", "redial"} => punched_peer[c].address = p
      BY PairKnows
    <3> QED BY <1>3, <3>1, <3>2
  <2> QED BY <1>2, <2>1 DEF SessionWaits, ListensSoon
<1>7. pc[c] \notin {"challenging", "answering", "answered"}
  <2>1. SUFFICES ASSUME pc[c] \in {"challenging", "answering", "answered"}
                 PROVE  FALSE
    OBVIOUS
  <2>2. pc[c] \in ClientDialled /\ dial[c] = p /\ P2pEnd(c) = ClientEnd(c)
    BY <1>1, <2>1, PairKnows DEF ClientDialled, Joined
  <2>3. pc[c] # "answering" /\ inbox[ClientEnd(c)] = <<>>
    BY <1>2, <2>1, <2>2 DEF SessionWaits, Blocks
  <2>4. pc[p] \in {"accepted", "replied"} => inbox[PeerEnd(c)] = <<>>
    <3>1. pc[p] \in {"accepted", "replied"} => P2pEnd(p) = PeerEnd(c)
      BY PairKnows DEF PeerAccepted
    <3> QED BY <1>2, <3>1 DEF SessionWaits, Blocks
  <2>5. pc[p] # "accept" /\ pc[p] # "replying" /\ pc[p] # "acking"
    BY <1>2, <2>2 DEF SessionWaits
  <2>6. CASE pc[c] = "challenging"
    BY <1>1, <1>5, <2>3, <2>4, <2>5, <2>6
    DEF Beside, Under, Unassigned, MediatorStage, Finished
  <2>7. CASE pc[c] = "answered"
    BY <1>1, <1>5, <2>3, <2>4, <2>5, <2>7
    DEF Beside, Under, Unassigned, MediatorStage, Finished
  <2> QED BY <2>1, <2>3, <2>6, <2>7
<1>8. pc[c] \in Finished /\ pc[p] \in Finished
  <2>1. pc[c] \in Finished
    BY <1>1, <1>4, <1>6, <1>7, ClientRow DEF ClientLocation, ClientDialled
  <2> QED BY <1>1, <2>1, ClientRow
<1> QED BY <1>2, <1>8 DEF SessionWaits, Finished

(* The sockets that the two sessions give to their callbacks. *)
LEMMA PairEnds ==
  ASSUME BaseInv, NEW c \in Session, NEW p \in Session, PairTest(c, p),
         PairInv(c, p), pc[c] = "done", pc[p] = "done"
  PROVE  /\ P2pEnd(c) = ClientEnd(c) /\ P2pEnd(p) = PeerEnd(c)
         /\ dial[c] = p /\ GivenSocket(c) /\ GivenSocket(p)
<1>1. Joined(c, p) /\ Progress(c) /\ Progress(p) /\ Wire(c) /\ Wire(p)
  BY DEF PairInv, BaseInv, HarnessInv, CoreInv, WireInv
<1>2. dial[c] = p /\ accepted[p] = c /\ verdict[c] = "socket" /\ verdict[p] = "socket"
  BY <1>1 DEF Joined, Finished
<1>3. P2pEnd(c) = ClientEnd(c) /\ P2pEnd(p) = PeerEnd(c)
  BY <1>1, <1>2, NoneAssumption DEF Progress, P2pEnd, Role
<1> QED BY <1>1, <1>2, <1>3 DEF Wire, GivenSocket, Last

(* The invariant when the test starts. *)
LEMMA PairInitially ==
  ASSUME HarnessInit, NEW c \in Session, NEW p \in Session
  PROVE  PairInv(c, p)
<1>1. /\ \A t \in Session : /\ pc[t] = "idle" /\ handler[t] = "none"
                            /\ verdict[t] = None
      /\ \A a \in Address : listener[a] = None
      /\ sent_messages = <<>> /\ line = 1
  BY DEF HarnessInit, Init, ConnectionInit, MediatorConnectionInit, FakeMediatorInit
<1>2. Under(c, <<>>, <<>>)
  BY Ends DEF HarnessInit, Init, ConnectionInit, NetInit, Under
<1>3. /\ line <= 8 /\ line <= 2 /\ line <= 4 /\ ~(line >= 4) /\ ~(line >= 7)
      /\ line # 9 /\ line # 10 /\ Len(sent_messages) = 0 + 0
  BY SMT, <1>1
<1>4. Handled(c, p)
  BY <1>1 DEF Handled, Alone
<1>5. Beside(c, p)
  BY <1>1, <1>2 DEF Beside, Unassigned
<1>6. Joined(c, p)
  BY <1>1
  DEF Joined, ClientDialled, PeerAccepted, Finished, Listening, Address
<1>7. Sent(c, p)
  BY <1>1, <1>3, SentByValues DEF Sent
<1>8. Logged(c, p)
  <2>1. \A e \in {ClientEnd(c), PeerEnd(c)} :
          Len(stateful[e].sent) = 0 /\ Len(stateful[e].received) = 0
    <3>1. SUFFICES ASSUME NEW e \in {ClientEnd(c), PeerEnd(c)}
                   PROVE  Len(stateful[e].sent) = 0 /\ Len(stateful[e].received) = 0
      OBVIOUS
    <3>2. e \in P2pEndpoint
      BY DEF P2pEndpoint
    <3> QED BY SMT, <3>2 DEF HarnessInit
  <2>2. /\ ClientWrote("idle") = 0 /\ ClientRead("idle") = 0
        /\ PeerWrote("idle") = 0 /\ PeerRead("idle") = 0
    BY Exchanged DEF Unassigned
  <2>3. ~(0 > 0)
    BY SMT
  <2> QED BY <1>1, <1>3, <2>1, <2>2, <2>3 DEF Logged
<1>9. Lines(c, p)
  BY <1>1, <1>3 DEF Lines
<1> QED BY <1>4, <1>5, <1>6, <1>7, <1>8, <1>9 DEF PairInv

(* The test thread moves on and nothing else changes. *)
LEMMA PairStill ==
  ASSUME NEW c \in Session, NEW p \in Session, PairInv(c, p),
         UNCHANGED <<inbox, medVars, peerVars, handler, sent_messages, stateful>>,
         UNCHANGED open \/ pc[c] = "done",
         line' <= 8 => line <= 8, line' \in {9, 10} => UNCHANGED line, Lines(c, p)'
  PROVE  PairInv(c, p)'
<1>1. UNCHANGED <<pc, verdict, secret, nonce, dial, accepted, listener>>
  BY DEF medVars, peerVars
<1>2. pc[c] \in ClientDialled => UNCHANGED open
  BY DEF ClientDialled
<1>3. Beside(c, p)' /\ Joined(c, p)' /\ Logged(c, p)'
  BY <1>1, <1>2, PairKept DEF PairInv, SameInbox
<1>4. Handled(c, p)' /\ Sent(c, p)'
  BY <1>1 DEF PairInv, Handled, Alone, Sent
<1> QED BY <1>3, <1>4 DEF PairInv

(* connect_async starts a session. *)
LEMMA PairStarts ==
  ASSUME BaseInv, Undisturbed, NEW c \in Session, NEW p \in Session,
         PairTest(c, p), PairInv(c, p), NEW s \in {c, p}, Connect(s),
         \/ s = c /\ line = 2 /\ line' = 3
         \/ s = p /\ line = 4 /\ line' = 5,
         UNCHANGED <<handlerVars, logVars>>
  PROVE  PairInv(c, p)'
<1>1. /\ Handled(c, p) /\ Sent(c, p) /\ Logged(c, p) /\ Lines(c, p)
      /\ SessionInv /\ c # p
  <2>1. SessionInv /\ c # p
    BY DEF BaseInv, HarnessInv, CoreInv, Inv, PairTest, Couple
  <2> QED BY <2>1 DEF PairInv
<1>2. pc[s] = "idle" /\ UNCHANGED inbox
  BY DEF Connect, netVars
<1>3. Beside(c, p)' /\ Joined(c, p)' /\ Heard(c, p) /\ pc'[s] # "idle"
  BY <1>2, PairRegisters DEF Unassigned
<1>4. \A t \in Session \ {s} : pc'[t] = pc[t]
  BY <1>1, SessionDefined DEF Same
<1>5. UNCHANGED <<handler, sent_messages, stateful>>
  BY DEF handlerVars, logVars
<1>6. pc'[s] = "mediator"
  BY <1>1
  DEF Connect, Go, SessionInv, ConnectionTypeOK, MediatorConnectionTypeOK
<1>7. /\ line = 2 => line <= 2 /\ line <= 4 /\ line <= 8
      /\ line = 4 => ~(line <= 2) /\ line <= 4 /\ line >= 4 /\ line <= 8
      /\ line' = 3 => ~(line' <= 2) /\ line' <= 4 /\ ~(line' >= 4)
      /\ line' = 5 => ~(line' <= 2) /\ ~(line' <= 4) /\ line' >= 4
      /\ line' \in {3, 5} => ~(line' >= 7) /\ line' # 9 /\ line' # 10
  BY SMT
<1>8. Lines(c, p)'
  <2>1. CASE s = c /\ line = 2 /\ line' = 3
    <3>1. pc'[c] # "idle" /\ pc'[p] = "idle"
      BY <1>1, <1>3, <1>4, <1>7, <2>1 DEF Lines
    <3> QED BY <1>7, <2>1, <3>1 DEF Lines
  <2>2. CASE s = p /\ line = 4 /\ line' = 5
    <3>1. pc'[c] # "idle" /\ pc'[p] # "idle" /\ handler'[c] \in Waited
      BY <1>1, <1>3, <1>4, <1>5, <1>7, <2>2 DEF Lines
    <3> QED BY <1>7, <2>2, <3>1 DEF Lines
  <2> QED BY <2>1, <2>2
<1>9. Handled(c, p)'
  <2>1. Alone({c, p})'
    BY <1>1, <1>4, <1>5 DEF Handled, Alone
  <2>2. s = p => handler[c] \in Waited
    BY <1>1, <1>7 DEF Lines
  <2> QED BY <1>1, <1>4, <1>5, <2>1, <2>2 DEF Handled
<1>10. Sent(c, p)'
  BY <1>1, <1>5 DEF Sent
<1>11. Logged(c, p)'
  <2>1. /\ ClientWrote(pc'[c]) = ClientWrote(pc[c])
        /\ ClientRead(pc'[c]) = ClientRead(pc[c])
        /\ PeerWrote(pc'[p]) = PeerWrote(pc[p])
        /\ PeerRead(pc'[p]) = PeerRead(pc[p])
    BY <1>1, <1>2, <1>4, <1>6, Exchanged DEF Unassigned, MediatorStage
  <2> QED BY <1>1, <1>5, <1>7, <2>1 DEF Logged
<1> QED BY <1>3, <1>8, <1>9, <1>10, <1>11 DEF PairInv

(* The test sends from the first session to the second. *)
LEMMA PairTestTalks ==
  ASSUME BaseInv, NEW c \in Session, NEW p \in Session, PairTest(c, p),
         PairInv(c, p), SocketLogs,
         UNCHANGED <<open, medVars, peerVars, handlerVars, sent_messages>>,
         \/ line = 8 /\ line' = 9 /\ Send(P2pEnd(c), ApplicationData)
         \/ line = 9 /\ line' = 10 /\ Receive(P2pEnd(p)) /\ inbox[P2pEnd(p)] # <<>>
  PROVE  PairInv(c, p)'
<1>1. /\ Handled(c, p) /\ Beside(c, p) /\ Joined(c, p) /\ Sent(c, p)
      /\ Logged(c, p) /\ Lines(c, p)
  BY DEF PairInv
<1>2. NetTypeOK /\ HarnessTypeOK
  BY DEF BaseInv, HarnessInv, CoreInv, Inv, SessionInv, ConnectionTypeOK
<1>3. \A l \in {8, 9, 10} : /\ l >= 7 /\ l >= 4 /\ ~(l <= 2) /\ ~(l <= 4)
                            /\ (l = 8 <=> l <= 8) /\ (l = 9 => l # 10)
  BY SMT
<1>4. line \in {8, 9} /\ line' \in {9, 10}
  OBVIOUS
<1>5. pc[c] = "done" /\ pc[p] = "done" /\ handler[c] \in Waited
  BY <1>1, <1>3, <1>4 DEF Lines
<1>6. /\ UNCHANGED <<pc, verdict, secret, nonce, dial, accepted, listener>>
      /\ UNCHANGED handler
  BY DEF medVars, peerVars, handlerVars
<1>7. P2pEnd(c) = ClientEnd(c) /\ P2pEnd(p) = PeerEnd(c)
  BY <1>5, PairEnds
<1>8. Handled(c, p)' /\ Joined(c, p)' /\ Sent(c, p)'
  <2>1. Handled(c, p)'
    BY <1>1, <1>6 DEF Handled, Alone
  <2>2. Joined(c, p)'
    BY <1>1, <1>6 DEF Joined
  <2>3. Sent(c, p)'
    BY <1>1, <1>6 DEF Sent
  <2> QED BY <2>1, <2>2, <2>3
<1>9. Lines(c, p)'
  BY <1>3, <1>4, <1>5, <1>6 DEF Lines
<1>10. ~(line' <= 8) /\ (line' = 9 => line' # 10)
  BY SMT, <1>4
<1>11. Beside(c, p)'
  BY <1>5, <1>6, <1>10 DEF Beside, Finished
<1>12. Logged(c, p)'
  <2>1. CASE line = 8 /\ line' = 9 /\ Send(P2pEnd(c), ApplicationData)
    <3>1. inbox[PeerEnd(c)] = <<>>
      BY <1>1, <1>3, <1>5, <2>1, ClientRow DEF Finished, Under
    <3>2. ClientEnd(c) \in Endpoint /\ Far(ClientEnd(c)) = PeerEnd(c)
      BY Ends
    <3>3. \/ inbox'[PeerEnd(c)] = <<>>
          \/ inbox'[PeerEnd(c)] = Append(<<>>, ApplicationData)
      BY <1>2, <1>7, <2>1, <3>1, <3>2, SendAppends
    <3>4. inbox'[PeerEnd(c)] \in {<<>>, <<ApplicationData>>}
      BY <3>3, Singletons
    <3> QED BY <1>10, <2>1, <3>4 DEF Logged
  <2>2. CASE line = 9 /\ line' = 10 /\ Receive(P2pEnd(p))
             /\ inbox[P2pEnd(p)] # <<>>
    <3>1. inbox[PeerEnd(c)] = <<ApplicationData>>
      BY <1>1, <1>7, <2>2 DEF Logged
    <3>2. Takes(PeerEnd(c), ApplicationData)
      BY <1>2, <1>7, <2>2, <3>1, Between
    <3>3. stateful'[PeerEnd(c)].received =
            Append(stateful[PeerEnd(c)].received, ApplicationData)
      BY <1>2, <3>2, SocketLogged
    <3>4. Last(stateful'[PeerEnd(c)].received) = ApplicationData
      <4>1. stateful[PeerEnd(c)].received \in Seq(Message)
        <5>1. PeerEnd(c) \in P2pEndpoint
          BY DEF P2pEndpoint
        <5> QED BY SMT, <1>2, <5>1 DEF HarnessTypeOK
      <4> QED BY SMT, <3>3, <4>1 DEF Last
    <3>5. line' # 9
      BY SMT, <2>2
    <3> QED BY <1>10, <3>4, <3>5 DEF Logged
  <2> QED BY <2>1, <2>2
<1> QED BY <1>8, <1>9, <1>11, <1>12 DEF PairInv

(* The first session is registered when the test has slept once. *)
LEMMA FirstWaits ==
  ASSUME BaseInv, NEW c \in Session, NEW p \in Session, PairTest(c, p),
         PairInv(c, p), line = 3, Quiescent
  PROVE  handler[c] \in Waited
<1>1. Beside(c, p) /\ Lines(c, p) /\ CoreInv /\ WireInv
  BY DEF PairInv, BaseInv, HarnessInv
<1>2. ~(line <= 2) /\ line <= 4
  BY SMT
<1>3. pc[c] # "idle" /\ pc[p] = "idle"
  BY <1>1, <1>2 DEF Lines
<1>4. pc[c] \in MediatorStage
  <2>1. pc[c] \in Unassigned \cup {"client", "dial", "redial"}
    BY <1>1, <1>3, PeerRow DEF Unassigned
  <2>2. pc[c] \in {"client", "dial", "redial"} =>
          pc[p] \notin Unassigned \ {"registered"}
    BY PairKnows
  <2> QED BY <1>3, <2>1, <2>2 DEF Unassigned
<1>5. SessionWaits(c) /\ HandlerWaits(c)
  BY DEF Quiescent
<1> QED BY <1>1, <1>4, <1>5, AtRest DEF Waited

(* The invariant after a step of any thread. *)
LEMMA PairStep ==
  ASSUME BaseInv, Undisturbed, NEW c \in Session, NEW p \in Session,
         PairTest(c, p), PairInv(c, p), [HarnessNext]_allVars
  PROVE  PairInv(c, p)'
<1>1. CoreInv /\ HarnessTypeOK /\ Handled(c, p) /\ Lines(c, p) /\ line \in Int
  <2>1. HarnessTypeOK
    BY DEF BaseInv, HarnessInv
  <2>2. line \in Int
    BY SMT, <2>1 DEF HarnessTypeOK
  <2> QED BY <2>1, <2>2 DEF BaseInv, HarnessInv, PairInv
<1>2. /\ Calling("run") => line = 1
      /\ Calling("connect_async") => \/ line = 2 /\ Who = c
                                     \/ line = 4 /\ Who = p
      /\ Calling("block") => line = 3 \/ line = 6
      /\ Calling("await_shutdown") => line = 5
      /\ Calling("send") => line = 8 /\ Who = c
      /\ Calling("receive") => line = 9 /\ Who = p
      /\ ~Calling("connect_sync")
      /\ \A name \in Asserts : Calling(name) => line = 7 \/ line = 10
  <2>1. \A name : Calling(name) =>
          \/ line = 1 /\ name = "run"
          \/ line = 2 /\ name = "connect_async" /\ Who = c
          \/ line = 3 /\ name = "block"
          \/ line = 4 /\ name = "connect_async" /\ Who = p
          \/ line = 5 /\ name = "await_shutdown"
          \/ line = 6 /\ name = "block"
          \/ line = 7 /\ name \in {"assert identification", "assert handshake"}
          \/ line = 8 /\ name = "send" /\ Who = c
          \/ line = 9 /\ name = "receive" /\ Who = p
          \/ line = 10 /\ name = "assert received" /\ Who = p
    BY <1>1, PairCalls
  <2>2. ASSUME Calling("run") PROVE line = 1
    BY <2>1, <2>2 DEF Calling
  <2>3. ASSUME Calling("connect_async")
        PROVE  (line = 2 /\ Who = c) \/ (line = 4 /\ Who = p)
    <3>1. \A name : name = "connect_async" /\ Calling(name) =>
            (line = 2 /\ Who = c) \/ (line = 4 /\ Who = p)
      BY <2>1
    <3> QED BY <2>3, <3>1
  <2>4. ASSUME Calling("block") PROVE line = 3 \/ line = 6
    BY <2>1, <2>4 DEF Calling
  <2>5. ASSUME Calling("await_shutdown") PROVE line = 5
    BY <2>1, <2>5 DEF Calling
  <2>6. ASSUME Calling("send") PROVE line = 8 /\ Who = c
    BY <2>1, <2>6 DEF Calling
  <2>7. ASSUME Calling("receive") PROVE line = 9 /\ Who = p
    BY <2>1, <2>7 DEF Calling
  <2>8. ~Calling("connect_sync")
    BY <2>1 DEF Calling
  <2>9. ASSUME NEW name \in Asserts, Calling(name) PROVE line = 7 \/ line = 10
    BY <2>1, <2>9 DEF Asserts
  <2> QED BY <2>2, <2>3, <2>4, <2>5, <2>6, <2>7, <2>8, <2>9
<1>3. ASSUME UNCHANGED <<vars, logVars>>, UNCHANGED line
      PROVE  PairInv(c, p)'
  <2>1. Lines(c, p)'
    BY <1>1, <1>3
    DEF Lines, vars, sessionVars, medVars, handlerVars
  <2> QED BY <1>3, <2>1, PairStill
          DEF vars, sessionVars, netVars, medVars, peerVars, handlerVars, logVars
<1>4. ASSUME UNCHANGED <<vars, logVars>>, line' = line + 1,
             line \in {1, 3, 5, 6, 7, 10},
             line = 3 => handler[c] \in Waited,
             line = 6 => pc[c] = "done" /\ pc[p] = "done"
      PROVE  PairInv(c, p)'
  <2>1. /\ line' <= 8 => line <= 8
        /\ ~(line' \in {9, 10})
        /\ (line' <= 2 <=> line <= 2) /\ (line' <= 4 <=> line <= 4)
        /\ line' >= 4 => line >= 4 \/ line = 3
        /\ line' >= 7 => line >= 7 \/ line = 6
    BY SMT, <1>4
  <2>2. UNCHANGED <<pc, handler>>
    BY <1>4 DEF vars, sessionVars, medVars, handlerVars
  <2>3. Lines(c, p)'
    BY <1>1, <1>4, <2>1, <2>2 DEF Lines
  <2> QED BY <1>4, <2>1, <2>3, PairStill
          DEF vars, sessionVars, netVars, medVars, peerVars, handlerVars, logVars
<1>5. CASE UNCHANGED allVars
  BY <1>3, <1>5 DEF allVars, harnessVars, testVars
<1>6. CASE WorkerStep
  BY <1>3, <1>6 DEF WorkerStep, testVars
<1>7. CASE Run
  <2>1. line = 1 /\ line' = line + 1 /\ UNCHANGED <<vars, logVars>>
    BY <1>2, <1>7 DEF Run, NextCall
  <2>2. line # 3 /\ line # 6
    BY SMT, <2>1
  <2> QED BY <1>4, <2>1, <2>2
<1>8. CASE ConnectAsync
  <2>1. /\ Connect(Who) /\ line' = line + 1 /\ UNCHANGED <<handlerVars, logVars>>
        /\ \/ line = 2 /\ Who = c
           \/ line = 4 /\ Who = p
    BY <1>2, <1>8 DEF ConnectAsync, NextCall
  <2>2. CASE line = 2 /\ Who = c
    <3>1. line' = 3
      BY SMT, <2>1, <2>2
    <3> QED BY <2>1, <2>2, <3>1, PairStarts
  <2>3. CASE line = 4 /\ Who = p
    <3>1. line' = 5
      BY SMT, <2>1, <2>3
    <3> QED BY <2>1, <2>3, <3>1, PairStarts
  <2> QED BY <2>1, <2>2, <2>3
<1>9. CASE Block
  <2>1. /\ line = 3 \/ line = 6
        /\ line' = line + 1 /\ Quiescent /\ UNCHANGED <<vars, logVars>>
    BY <1>2, <1>9 DEF Block, NextCall
  <2>2. CASE line = 3
    <3>1. handler[c] \in Waited
      BY <2>1, <2>2, FirstWaits
    <3>2. line # 6
      BY SMT, <2>2
    <3> QED BY <1>4, <2>1, <2>2, <3>1, <3>2
  <2>3. CASE line = 6
    <3>1. ~(line <= 2) /\ ~(line <= 4) /\ line # 3
      BY SMT, <2>3
    <3>2. pc[c] # "idle" /\ pc[p] # "idle"
      BY <1>1, <3>1 DEF Lines
    <3>3. pc[c] = "done" /\ pc[p] = "done"
      BY <2>1, <3>2, PairAtRest
    <3> QED BY <1>4, <2>1, <2>3, <3>1, <3>3
  <2> QED BY <2>1, <2>2, <2>3
<1>10. CASE AwaitShutdown \/ WakeEarly
  <2>1. /\ line = 5 /\ UNCHANGED <<vars, logVars>>
        /\ UNCHANGED line \/ line' = line + 1
    BY <1>2, <1>10 DEF AwaitShutdown, WakeEarly, NextCall, InPhase
  <2>2. line # 3 /\ line # 6
    BY SMT, <2>1
  <2> QED BY <1>3, <1>4, <2>1, <2>2
<1>11. CASE TestAssert
  <2>1. /\ line = 7 \/ line = 10
        /\ line' = line + 1 /\ UNCHANGED <<vars, logVars>>
    BY <1>2, <1>11 DEF TestAssert, NextCall
  <2>2. line # 3 /\ line # 6
    BY SMT, <2>1
  <2> QED BY <1>4, <2>1, <2>2
<1>12. CASE TestSend
  <2>1. /\ line = 8 /\ line' = line + 1 /\ Send(P2pEnd(c), ApplicationData)
        /\ SocketLogs
        /\ UNCHANGED <<open, medVars, peerVars, handlerVars, sent_messages>>
    BY <1>2, <1>12 DEF TestSend, NextCall
  <2>2. line' = 9
    BY SMT, <2>1
  <2> QED BY <2>1, <2>2, PairTestTalks
<1>13. CASE TestReceive
  <2>1. /\ line = 9 /\ line' = line + 1
        /\ Receive(P2pEnd(p)) /\ inbox[P2pEnd(p)] # <<>> /\ SocketLogs
        /\ UNCHANGED <<open, medVars, peerVars, handlerVars, sent_messages>>
    BY <1>2, <1>13 DEF TestReceive, NextCall
  <2>2. line' = 10
    BY SMT, <2>1
  <2> QED BY <2>1, <2>2, PairTestTalks
<1>14. CASE StopCloses \/ StopJoins
  BY <1>3, <1>14 DEF StopCloses, StopJoins, InPhase
<1>15. CASE Unwind
  <2>1. /\ line > Len(script.calls) /\ UNCHANGED line
        /\ UNCHANGED <<inbox, medVars, peerVars, handlerVars, logVars>>
    BY <1>15 DEF Unwind, InPhase
  <2>2. line >= 7
    <3>1. Len(script.calls) = 7 \/ Len(script.calls) = 10
      BY <1>1, PairScript
    <3>2. line \in Int /\ (line > 7 \/ line > 10)
      BY <1>1, <2>1, <3>1
    <3> QED BY SMT, <3>2
  <2>3. pc[c] = "done"
    BY <1>1, <2>2 DEF Lines
  <2>4. UNCHANGED <<pc, handler, sent_messages, stateful>>
    BY <2>1 DEF medVars, handlerVars, logVars
  <2>5. Lines(c, p)'
    BY <1>1, <2>1, <2>4 DEF Lines
  <2> QED BY <2>1, <2>3, <2>4, <2>5, PairStill
<1>16. /\ ~ConnectSync /\ ~WaitForCallback /\ ~ConnectSyncReturns
       /\ \A s \in Session : ~HandlerGivesUp(s)
  BY <1>2
  DEF ConnectSync, WaitForCallback, ConnectSyncReturns, HandlerGivesUp, PairTest,
      Patient
<1>17. ASSUME NEW s \in Session, WorkerAccept(s) \/ HandlerStep(s)
       PROVE  PairInv(c, p)'
  BY <1>17, PairHandler
<1>18. ASSUME NEW s \in Session, ClientStep(s) PROVE PairInv(c, p)'
  <2>1. /\ Thread(s) /\ SocketLogs
        /\ UNCHANGED <<handlerVars, line, sent_messages>>
    BY <1>18 DEF ClientStep, SessionStep, testVars
  <2>2. s \in {c, p}
    BY <1>1, <2>1, NotStarted DEF Handled, Alone
  <2> QED BY <2>1, <2>2, PairSession
<1> QED BY <1>5, <1>6, <1>7, <1>8, <1>9, <1>10, <1>11, <1>12, <1>13, <1>14, <1>15,
           <1>16, <1>17, <1>18 DEF HarnessNext, TestThread
-----------------------------------------------------------------------------
(***************************************************************************)
(* What the invariant says of the tests with two sessions.                 *)
(***************************************************************************)
LEMMA PairOver ==
  ASSUME BaseInv, NEW c \in Session, NEW p \in Session, PairTest(c, p),
         PairInv(c, p), line >= 7
  PROVE  /\ pc[c] = "done" /\ pc[p] = "done"
         /\ handler[c] = "identified" /\ handler[p] = "disconnected"
         /\ callbacks[c] # <<>> /\ callbacks[p] # <<>>
<1>1. pc[c] = "done" /\ pc[p] = "done"
  BY DEF PairInv, Lines
<1>2. dial[c] = p
  BY <1>1, PairEnds
<1>3. /\ CoreInv /\ WireInv /\ Progress(c) /\ Wire(c) /\ Wire(p)
      /\ Couple(c, p) /\ Handled(c, p)
  BY DEF BaseInv, HarnessInv, CoreInv, WireInv, PairTest, PairInv
<1>4. handler[c] = "identified"
  BY <1>2, <1>3, NoneAssumption DEF Progress, Wire
<1>5. handler[p] = "disconnected"
  BY <1>3, <1>4, PairTables
<1> QED BY <1>1, <1>3, <1>4, <1>5 DEF Wire

(* What the assertions of the two tests look at is there. *)
LEMMA PairAsserts ==
  ASSUME BaseInv, NEW c \in Session, NEW p \in Session, PairTest(c, p),
         PairInv(c, p)
  PROVE  TestAssertions
<1>1. HarnessTypeOK /\ Sent(c, p) /\ Logged(c, p)
  BY DEF BaseInv, HarnessInv, PairInv
<1>2. (line = 7 => line >= 7 /\ line <= 8) /\ (line = 10 => line >= 7)
  BY SMT
<1>3. \A name : Calling(name) =>
        \/ line = 1 /\ name = "run"
        \/ line = 2 /\ name = "connect_async" /\ Who = c
        \/ line = 3 /\ name = "block"
        \/ line = 4 /\ name = "connect_async" /\ Who = p
        \/ line = 5 /\ name = "await_shutdown"
        \/ line = 6 /\ name = "block"
        \/ /\ line = 7 /\ Who = c /\ script.calls[line][3] = p
           /\ name \in {"assert identification", "assert handshake"}
        \/ line = 8 /\ name = "send" /\ Who = c
        \/ line = 9 /\ name = "receive" /\ Who = p
        \/ line = 10 /\ name = "assert received" /\ Who = p
  BY <1>1, PairCalls
<1>4. ~Calling("assert advertise") /\ ~Calling("assert identity")
  BY <1>3 DEF Calling
<1>5. \A name \in {"assert identification", "assert handshake"} : Calling(name) =>
        line = 7 /\ Who = c /\ script.calls[line][3] = p
  BY <1>3
<1>6. Calling("assert received") => line = 10 /\ Who = p
  BY <1>3
<1>7. line \in {7, 10} =>
        /\ pc[c] = "done" /\ pc[p] = "done"
        /\ handler[c] = "identified" /\ handler[p] = "disconnected"
        /\ P2pEnd(c) = ClientEnd(c) /\ P2pEnd(p) = PeerEnd(c)
        /\ dial[c] = p /\ GivenSocket(c) /\ GivenSocket(p)
  BY <1>2, PairOver, PairEnds
<1>8. ASSUME Calling("assert identification")
      PROVE  /\ GivenSocket(Who) /\ GivenSocket(script.calls[line][3])
             /\ Len(sent_messages) = 4
             /\ sent_messages[3].type = "PeerDisconnect"
             /\ sent_messages[4].type = "PeerIdentification"
             /\ sent_messages[4].address = dial[Who]
  <2>1. line = 7 /\ Who = c /\ script.calls[line][3] = p
    BY <1>5, <1>8
  <2>2. /\ Len(sent_messages) = SentBy("identified") + SentBy("disconnected")
        /\ sent_messages[3].type = "PeerDisconnect"
        /\ sent_messages[4] = PeerIdentification(kVersion[p], p)
    BY <1>1, <1>7, <2>1 DEF Sent
  <2>3. Len(sent_messages) = 2 + 2
    BY <2>2, SentByValues
  <2>4. Len(sent_messages) = 4
    BY SMT, <2>3
  <2>5. /\ PeerIdentification(kVersion[p], p).type = "PeerIdentification"
        /\ PeerIdentification(kVersion[p], p).address = p
    BY SMT DEF PeerIdentification, Blank
  <2> QED BY <1>7, <2>1, <2>2, <2>4, <2>5
<1>9. ASSUME Calling("assert handshake")
      PROVE  /\ \A s \in {Who, script.calls[line][3]} :
                  /\ GivenSocket(s)
                  /\ Len(stateful[P2pEnd(s)].sent) = 2
                  /\ Len(stateful[P2pEnd(s)].received) = 2
             /\ stateful[P2pEnd(Who)].sent[1].type = "PeerChallenge"
  <2>1. line = 7 /\ Who = c /\ script.calls[line][3] = p /\ line <= 8
    BY <1>2, <1>5, <1>9
  <2>2. /\ Len(stateful[ClientEnd(c)].sent) = ClientWrote(pc[c])
        /\ Len(stateful[ClientEnd(c)].received) = ClientRead(pc[c])
        /\ Len(stateful[PeerEnd(c)].sent) = PeerWrote(pc[p])
        /\ Len(stateful[PeerEnd(c)].received) = PeerRead(pc[p])
        /\ ClientWrote(pc[c]) > 0 =>
             stateful[ClientEnd(c)].sent[1].type = "PeerChallenge"
    BY <1>1, <2>1 DEF Logged
  <2>3. /\ ClientWrote(pc[c]) = 2 /\ ClientRead(pc[c]) = 2
        /\ PeerWrote(pc[p]) = 2 /\ PeerRead(pc[p]) = 2
    BY <1>7, <2>1, Exchanged DEF Finished
  <2>4. 2 > 0
    BY SMT
  <2>5. stateful[ClientEnd(c)].sent[1].type = "PeerChallenge"
    BY <2>2, <2>3, <2>4
  <2> QED BY <1>7, <2>1, <2>2, <2>3, <2>5
<1>10. ASSUME Calling("assert received")
       PROVE  Last(stateful[P2pEnd(Who)].received) = ApplicationData
  BY <1>1, <1>6, <1>7, <1>10 DEF Logged
<1> QED BY <1>4, <1>8, <1>9, <1>10 DEF TestAssertions

(* Only one handler at a time appends to a log. *)
LEMMA PairSerial ==
  ASSUME BaseInv, NEW c \in Session, NEW p \in Session, PairTest(c, p),
         PairInv(c, p)
  PROVE  LogsAreSerial
<1>1. /\ HarnessTypeOK /\ Handled(c, p) /\ CoreInv /\ WireInv /\ Couple(c, p)
      /\ Conversation(p)
  BY DEF BaseInv, HarnessInv, CoreInv, HandlerInv, PairInv, PairTest
<1>2. \A t \in Session \ {c, p} : handler[t] = "none"
  BY <1>1 DEF Handled, Alone
<1>3. ASSUME handler[c] \in Sends \/ Receiving(c)
      PROVE  handler[p] \notin Sends /\ ~Receiving(p)
  <2>1. CASE handler[c] = "identify"
    <3>1. handler[p] = "disconnected"
      BY <1>1, <2>1, PairTables
    <3> QED BY <3>1 DEF Sends, Receiving, Receives
  <2>2. CASE handler[c] # "identify"
    <3>1. handler[c] \notin Waited
      BY <1>3, <2>2 DEF Waited, Sends, Receiving, Receives
    <3>2. pc[p] = "idle"
      BY <1>1, <3>1 DEF Handled
    <3>3. handler[p] \in {"none", "advertise"} /\ inbox[HandlerEnd(p)] = <<>>
      BY <1>1, <3>2 DEF Conversation
    <3> QED BY <3>3 DEF Sends, Receiving
  <2> QED BY <2>1, <2>2
<1>4. \A s, t \in Session : s # t =>
        /\ ~(handler[s] \in Sends /\ handler[t] \in Sends)
        /\ ~(Receiving(s) /\ Receiving(t))
  <2>1. \A t \in Session \ {c, p} : handler[t] \notin Sends /\ ~Receiving(t)
    BY <1>2 DEF Sends, Receiving, Receives
  <2> QED BY <1>3, <2>1
<1>5. ASSUME NEW name \in Asserts, Calling(name), NEW s \in Session
      PROVE  handler[s] \notin Sends /\ ~Receiving(s)
  <2>1. line = 7 \/ line = 10
    BY <1>1, <1>5, PairCalls DEF Asserts
  <2>2. line >= 7
    BY SMT, <2>1
  <2>3. handler[c] = "identified" /\ handler[p] = "disconnected"
    BY <2>2, PairOver
  <2> QED BY <1>2, <2>3 DEF Sends, Receiving, Receives
<1> QED BY <1>4, <1>5 DEF LogsAreSerial
-----------------------------------------------------------------------------
(***************************************************************************)
(* The script is one of the four tests: of one session, or of two sessions *)
(* with different keys that want each other.  await_shutdown() may return  *)
(* before the notification; no handler waits two seconds for a Peer.       *)
(***************************************************************************)
RepositoryTest == \/ \E p \in Session : SoloTest(p)
                  \/ \E c, p \in Session : PairTest(c, p)

TestsInv == (Patient => BaseInv) /\ Solo /\ Pair

(* Every step keeps the invariants of the four tests. *)
LEMMA TestsStep ==
  ASSUME Undisturbed, TestsInv, [HarnessNext]_allVars
  PROVE  TestsInv'
<1>1. UNCHANGED script
  BY ScriptStays
<1>2. Patient => BaseInv /\ BaseInv'
  BY BaseStep DEF TestsInv
<1>3. Solo'
  <2> SUFFICES ASSUME NEW p \in Session, SoloTest(p)'
               PROVE  SoloInv(p)'
    BY DEF Solo
  <2>1. SoloTest(p)
    BY <1>1 DEF SoloTest, Runs, Patient
  <2>2. SoloInv(p) /\ Patient
    BY <2>1 DEF TestsInv, Solo, SoloTest
  <2> QED BY <1>2, <2>1, <2>2, SoloStep
<1>4. Pair'
  <2> SUFFICES ASSUME NEW c \in Session, NEW p \in Session, PairTest(c, p)'
               PROVE  PairInv(c, p)'
    BY DEF Pair
  <2>1. PairTest(c, p)
    BY <1>1 DEF PairTest, Couple, Runs, Patient
  <2>2. PairInv(c, p) /\ Patient
    BY <2>1 DEF TestsInv, Pair, PairTest
  <2> QED BY <1>2, <2>1, <2>2, PairStep
<1>5. Patient' => BaseInv'
  BY <1>1, <1>2 DEF Patient
<1> QED BY <1>3, <1>4, <1>5 DEF TestsInv

(* So they hold throughout. *)
LEMMA TestsInvHolds ==
  ASSUME Undisturbed
  PROVE  HarnessSpec => []TestsInv
<1>1. HarnessInit /\ (Patient => BaseInv) => TestsInv
  BY SoloInitially, PairInitially DEF TestsInv, Solo, Pair
<1>2. TestsInv /\ [HarnessNext]_allVars => TestsInv'
  BY TestsStep
<1> QED BY <1>1, <1>2, BaseInvHolds, PTL DEF HarnessSpec

(***************************************************************************)
(* In each test of client_it.cpp the assertions hold when the test thread  *)
(* reaches them, provided that connect_sync waits for its callback: the    *)
(* sleeps of block() order them after everything they look at, even when   *)
(* the wait of await_shutdown() ends early.                                *)
(***************************************************************************)
THEOREM TestsPass ==
  ASSUME Undisturbed
  PROVE  HarnessSpec => [](RepositoryTest => TestAssertions)
<1>1. TestsInv => (RepositoryTest => TestAssertions)
  BY SoloAsserts, PairAsserts
  DEF TestsInv, Solo, Pair, RepositoryTest, SoloTest, PairTest
<1> QED BY <1>1, TestsInvHolds, PTL

(***************************************************************************)
(* In each test no two handlers append to the same log of the FakeMediator *)
(* at a time, and none appends while the test thread copies the logs,      *)
(* although _received_messages and _sent_messages have no lock.            *)
(***************************************************************************)
THEOREM TestsShareNoLog ==
  ASSUME Undisturbed
  PROVE  HarnessSpec => [](RepositoryTest => LogsAreSerial)
<1>1. TestsInv => (RepositoryTest => LogsAreSerial)
  BY SoloSerial, PairSerial
  DEF TestsInv, Solo, Pair, RepositoryTest, SoloTest, PairTest
<1> QED BY <1>1, TestsInvHolds, PTL
=============================================================================

