---------------------------- MODULE PairTestProofs ----------------------------
(***************************************************************************)
(* The invariant of the tests with two sessions, and the proof that every  *)
(* step of a handler and of the Peer handshake keeps it: the first session *)
(* is always the Client, the second always the Peer, and what each has     *)
(* sent, read and logged follows from where the two are.                   *)
(***************************************************************************)
EXTENDS IntegrationTestProofs

(* Most leaves are first-order; the ones that are not cite SMT. *)
USE Zenon

(***************************************************************************)
(* The two sessions, and what is under way between them.                   *)
(***************************************************************************)
Under(c, toPeer, toClient) ==
  inbox[PeerEnd(c)] = toPeer /\ inbox[ClientEnd(c)] = toClient

Beside(c, p) ==
  \/ /\ pc[c] \in Unassigned \cup {"client", "dial", "redial"}
     /\ pc[p] \in Unassigned \cup {"peer", "bind", "accept"}
     /\ Under(c, <<>>, <<>>)
  \/ /\ pc[c] = "dialled" /\ pc[p] \in {"accept", "accepted"}
     /\ Under(c, <<>>, <<>>)
  \/ /\ pc[c] = "challenging" /\ pc[p] \in {"accept", "accepted"}
     /\ Under(c, <<PeerChallenge(Encrypt(Wants[c], nonce[c]))>>, <<>>)
  \/ /\ pc[c] = "challenging" /\ pc[p] = "replying"
     /\ Under(c, <<>>, <<>>) /\ secret[p] = nonce[c]
  \/ /\ pc[c] = "challenging" /\ pc[p] = "replied"
     /\ Under(c, <<>>,
          <<PeerChallengeResponse(Encrypt(Wants[p], nonce[p]), nonce[c])>>)
  \/ /\ pc[c] = "answering" /\ pc[p] = "replied"
     /\ Under(c, <<>>, <<>>) /\ secret[c] = nonce[p]
  \/ /\ pc[c] = "answered" /\ pc[p] = "replied"
     /\ Under(c, <<PeerResponse(nonce[p])>>, <<>>)
  \/ /\ pc[c] = "answered" /\ pc[p] = "acking"
     /\ Under(c, <<>>, <<>>)
  \/ /\ pc[c] = "answered" /\ pc[p] \in Finished
     /\ Under(c, <<>>, <<PeerAcknowledgement>>)
  \/ /\ pc[c] \in Finished /\ pc[p] \in Finished
     /\ line <= 8 => Under(c, <<>>, <<>>)

Joined(c, p) ==
  /\ pc[c] \in ClientDialled \cup Finished => dial[c] = p
  /\ pc[p] \in PeerAccepted \cup Finished => accepted[p] = c
  /\ pc[c] \in ClientDialled => open[ClientEnd(c)] /\ open[PeerEnd(c)]
  /\ \A a \in Address : listener[a] # None => a = p /\ listener[a] = p
  /\ listener[p] # None <=> pc[p] \in Listening
  /\ \A s \in {c, p} : verdict[s] = IF pc[s] \in Finished THEN "socket" ELSE None

(***************************************************************************)
(* The logs of the sockets.                                                *)
(***************************************************************************)
ClientWrote(location) ==
  CASE location \in {"challenging", "answering"} -> 1
    [] location \in {"answered"} \cup Finished -> 2
    [] OTHER -> 0

ClientRead(location) ==
  CASE location \in {"answering", "answered"} -> 1
    [] location \in Finished -> 2
    [] OTHER -> 0

PeerWrote(location) ==
  CASE location \in {"replied", "acking"} -> 1
    [] location \in Finished -> 2
    [] OTHER -> 0

PeerRead(location) ==
  CASE location \in {"replying", "replied"} -> 1
    [] location \in {"acking"} \cup Finished -> 2
    [] OTHER -> 0

Logged(c, p) ==
  /\ line <= 8 =>
       /\ Len(stateful[ClientEnd(c)].sent) = ClientWrote(pc[c])
       /\ Len(stateful[ClientEnd(c)].received) = ClientRead(pc[c])
       /\ Len(stateful[PeerEnd(c)].sent) = PeerWrote(pc[p])
       /\ Len(stateful[PeerEnd(c)].received) = PeerRead(pc[p])
       /\ ClientWrote(pc[c]) > 0 =>
            stateful[ClientEnd(c)].sent[1].type = "PeerChallenge"
  /\ line = 9 => inbox[PeerEnd(c)] \in {<<>>, <<ApplicationData>>}
  /\ line = 10 => Last(stateful[PeerEnd(c)].received) = ApplicationData

(* Where the test thread is. *)
Lines(c, p) ==
  /\ line <= 2 <=> pc[c] = "idle"
  /\ line <= 4 <=> pc[p] = "idle"
  /\ line >= 4 => handler[c] \in Waited
  /\ line >= 7 => pc[c] = "done" /\ pc[p] = "done"

PairInv(c, p) ==
  /\ Handled(c, p) /\ Beside(c, p) /\ Joined(c, p)
  /\ Sent(c, p) /\ Logged(c, p) /\ Lines(c, p)

Pair == \A c, p \in Session : PairTest(c, p) => PairInv(c, p)

(***************************************************************************)
(* What the two sessions are at stays so while neither of them moves.      *)
(***************************************************************************)
LEMMA PairKept ==
  ASSUME NEW c \in Session, NEW p \in Session,
         UNCHANGED <<pc, verdict, secret, nonce, dial, accepted, listener>>,
         UNCHANGED stateful, SameInbox(c),
         pc[c] \in ClientDialled => /\ open'[ClientEnd(c)] = open[ClientEnd(c)]
                                    /\ open'[PeerEnd(c)] = open[PeerEnd(c)],
         line' <= 8 => line <= 8, line' \in {9, 10} => UNCHANGED line
  PROVE  /\ Beside(c, p) => Beside(c, p)'
         /\ Joined(c, p) => Joined(c, p)'
         /\ Logged(c, p) => Logged(c, p)'
<1>1. \A toPeer, toClient : Under(c, toPeer, toClient)' <=> Under(c, toPeer, toClient)
  BY DEF Under, SameInbox
<1>2. Beside(c, p) => Beside(c, p)'
  BY <1>1 DEF Beside
<1>3. Joined(c, p) => Joined(c, p)'
  BY DEF Joined
<1>4. Logged(c, p) => Logged(c, p)'
  BY DEF Logged, SameInbox
<1> QED BY <1>2, <1>3, <1>4

(* A step of a handler keeps the invariant of a test with two sessions. *)
LEMMA PairHandler ==
  ASSUME BaseInv, NEW c \in Session, NEW p \in Session, PairTest(c, p),
         PairInv(c, p), NEW s \in Session, WorkerAccept(s) \/ HandlerStep(s)
  PROVE  PairInv(c, p)'
<1>1. /\ CoreInv /\ WireInv /\ HarnessTypeOK /\ Couple(c, p) /\ Handled(c, p)
      /\ c # p /\ NetTypeOK
  BY PairTables
  DEF BaseInv, HarnessInv, PairTest, PairInv, CoreInv, Inv, SessionInv,
      ConnectionTypeOK
<1>2. s \in {c, p} /\ Handler(s)
  BY <1>1, NotStarted
  DEF WorkerAccept, HandlerStep, HandlerAccept, Handler, Handled, Alone
<1>3. /\ UNCHANGED <<medVars, peerVars>>
      /\ \A t \in Session : t # s => handler'[t] = handler[t]
  BY <1>1, <1>2, HandlerKeeps DEF WireSame
<1>4. UNCHANGED <<pc, verdict, secret, nonce, dial, accepted, listener>>
  BY <1>3 DEF medVars, peerVars
<1>5. UNCHANGED line /\ UNCHANGED stateful
  BY DEF WorkerAccept, HandlerStep, testVars, logVars
<1>6. SameInbox(c) /\ open'[ClientEnd(c)] = open[ClientEnd(c)]
      /\ open'[PeerEnd(c)] = open[PeerEnd(c)]
  <2>1. PICK to \in Running \cup Returned : Moves(s, to)
    BY <1>1, <1>2, CoreHandler
  <2>2. P2pSame
    BY <1>1, <2>1, MediatorSame DEF Moves, Thinks, Listens, Says
  <2>3. /\ open'[ClientEnd(c)] = open[ClientEnd(c)]
        /\ open'[PeerEnd(c)] = open[PeerEnd(c)]
    BY <1>1, <2>1, Ends DEF Moves, NetTypeOK
  <2> QED BY <2>2, <2>3 DEF P2pSame, SameInbox
<1>7. Beside(c, p)' /\ Joined(c, p)' /\ Logged(c, p)'
  BY <1>4, <1>5, <1>6, PairKept DEF PairInv
<1>8. handler[c] \in Waited => handler'[c] \in Waited
  <2>1. CASE s = c
    BY <1>1, <1>2, <2>1, PairHandlerGoes DEF Waited, Returned
  <2>2. CASE s # c
    BY <1>3, <2>2
  <2> QED BY <2>1, <2>2
<1>9. Handled(c, p)'
  <2>1. Alone({c, p})'
    BY <1>1, <1>2, <1>3, <1>4 DEF Handled, Alone
  <2>2. handler'[c] \in {"none", "advertise", "challenge", "response", "lookup",
                         "putClient"} \cup Waited
    BY <1>1, <1>2, <1>3, PairHandlerGoes DEF Handled, Waited, Returned
  <2>3. handler'[p] \in {"none", "advertise", "challenge", "response", "lookup",
                         "putPeer", "disconnect", "addDisconnect", "disconnected"}
    BY <1>1, <1>2, <1>3, PairHandlerGoes DEF Handled, Returned
  <2> QED BY <1>1, <1>4, <1>8, <2>1, <2>2, <2>3 DEF Handled
<1>10. Lines(c, p)'
  BY <1>4, <1>5, <1>8 DEF PairInv, Lines
<1>11. Sent(c, p)'
  <2>1. CASE WorkerAccept(s)
    <3>1. handler[s] = "none" /\ UNCHANGED sent_messages
      BY <2>1 DEF WorkerAccept, HandlerAccept, logVars
    <3>2. handler'[s] = "advertise"
      BY <1>2, <3>1, <1>1, PairHandlerGoes
    <3>3. SentBy(handler'[c]) = SentBy(handler[c])
          /\ SentBy(handler'[p]) = SentBy(handler[p])
      BY <1>2, <1>3, <3>1, <3>2, SentByValues
    <3> QED BY <1>2, <1>3, <3>1, <3>2, <3>3 DEF PairInv, Sent
  <2>2. CASE HandlerStep(s)
    BY <1>1, <1>2, <1>3, <2>2, SentStep DEF HandlerStep, PairInv
  <2> QED BY <2>1, <2>2
<1> QED BY <1>7, <1>9, <1>10, <1>11 DEF PairInv

(* What a message that comes or goes leaves in the logs of the two sockets. *)
LEMMA SocketLogged ==
  ASSUME NetTypeOK, SocketLogs, NEW c \in Session,
         NEW e \in {ClientEnd(c), PeerEnd(c)}
  PROVE  /\ \A m : Puts(Far(e), m) =>
              stateful'[e].sent = Append(stateful[e].sent, m)
         /\ \A m : Takes(e, m) =>
              stateful'[e].received = Append(stateful[e].received, m)
         /\ Stays(Far(e)) \/ (\E m : Takes(Far(e), m)) =>
              stateful'[e].sent = stateful[e].sent
         /\ Stays(e) \/ (\E m : Puts(e, m)) =>
              stateful'[e].received = stateful[e].received
<1>1. /\ stateful'[e].sent = IF Len(inbox'[Far(e)]) > Len(inbox[Far(e)])
                               THEN Append(stateful[e].sent, Last(inbox'[Far(e)]))
                               ELSE stateful[e].sent
      /\ stateful'[e].received = IF Len(inbox'[e]) < Len(inbox[e])
                                   THEN Append(stateful[e].received, Head(inbox[e]))
                                   ELSE stateful[e].received
  <2>1. e \in P2pEndpoint
    BY DEF P2pEndpoint
  <2> QED BY SMT, <2>1 DEF SocketLogs
<1>2. \A m : /\ Len(<<m>>) > Len(<<>>) /\ Len(<<>>) < Len(<<m>>)
             /\ ~(Len(<<>>) > Len(<<m>>)) /\ ~(Len(<<m>>) < Len(<<>>))
             /\ Last(<<m>>) = m /\ Head(<<m>>) = m
  BY SMT DEF Last
<1>3. \A q \in Seq(Message) : ~(Len(q) > Len(q)) /\ ~(Len(q) < Len(q))
  BY SMT
<1>4. inbox[e] \in Seq(Message) /\ inbox[Far(e)] \in Seq(Message)
  BY Ends DEF NetTypeOK
<1>5. ASSUME NEW m, Puts(Far(e), m)
      PROVE  stateful'[e].sent = Append(stateful[e].sent, m)
  BY <1>1, <1>2, <1>5 DEF Puts
<1>6. ASSUME NEW m, Takes(e, m)
      PROVE  stateful'[e].received = Append(stateful[e].received, m)
  BY <1>1, <1>2, <1>6 DEF Takes
<1>7. ASSUME Stays(Far(e)) \/ \E m : Takes(Far(e), m)
      PROVE  stateful'[e].sent = stateful[e].sent
  BY <1>1, <1>2, <1>3, <1>4, <1>7 DEF Stays, Takes
<1>8. ASSUME Stays(e) \/ \E m : Puts(e, m)
      PROVE  stateful'[e].received = stateful[e].received
  BY <1>1, <1>2, <1>3, <1>4, <1>8 DEF Stays, Puts
<1> QED BY <1>5, <1>6, <1>7, <1>8

(* How a step of a session is seen in the logs of the sockets. *)
Unheard(c, p) ==
  /\ SameInbox(c)
  /\ ClientWrote(pc'[c]) = ClientWrote(pc[c]) /\ ClientRead(pc'[c]) = ClientRead(pc[c])
  /\ PeerWrote(pc'[p]) = PeerWrote(pc[p]) /\ PeerRead(pc'[p]) = PeerRead(pc[p])

ClientPuts(c, p, m) ==
  /\ Puts(PeerEnd(c), m) /\ Stays(ClientEnd(c)) /\ pc'[p] = pc[p]
  /\ ClientWrote(pc'[c]) = ClientWrote(pc[c]) + 1
  /\ ClientWrote(pc[c]) = 0 => m.type = "PeerChallenge"
  /\ ClientRead(pc'[c]) = ClientRead(pc[c])

ClientTakes(c, p, m) ==
  /\ Takes(ClientEnd(c), m) /\ Stays(PeerEnd(c)) /\ pc'[p] = pc[p]
  /\ ClientWrote(pc'[c]) = ClientWrote(pc[c])
  /\ ClientRead(pc'[c]) = ClientRead(pc[c]) + 1

PeerPuts(c, p, m) ==
  /\ Puts(ClientEnd(c), m) /\ Stays(PeerEnd(c)) /\ pc'[c] = pc[c]
  /\ PeerWrote(pc'[p]) = PeerWrote(pc[p]) + 1
  /\ PeerRead(pc'[p]) = PeerRead(pc[p])

PeerTakes(c, p, m) ==
  /\ Takes(PeerEnd(c), m) /\ Stays(ClientEnd(c)) /\ pc'[c] = pc[c]
  /\ PeerWrote(pc'[p]) = PeerWrote(pc[p])
  /\ PeerRead(pc'[p]) = PeerRead(pc[p]) + 1

(* So the logs follow the places of the two sessions. *)
LEMMA LoggedStep ==
  ASSUME HarnessTypeOK, NetTypeOK, NEW c \in Session, NEW p \in Session,
         Logged(c, p), SocketLogs, UNCHANGED line, line <= 6,
         \/ Unheard(c, p)
         \/ \E m : \/ ClientPuts(c, p, m) \/ ClientTakes(c, p, m)
                   \/ PeerPuts(c, p, m) \/ PeerTakes(c, p, m)
  PROVE  Logged(c, p)'
<1>1. line <= 8 /\ line' <= 8 /\ line' # 9 /\ line' # 10
  <2>1. line \in Int
    BY SMT DEF HarnessTypeOK
  <2> QED BY SMT, <2>1
<1>2. /\ Far(ClientEnd(c)) = PeerEnd(c) /\ Far(PeerEnd(c)) = ClientEnd(c)
  BY Ends
<1> DEFINE cs == stateful[ClientEnd(c)].sent
           cr == stateful[ClientEnd(c)].received
           ps == stateful[PeerEnd(c)].sent
           pr == stateful[PeerEnd(c)].received
<1>3. /\ cs \in Seq(Message) /\ cr \in Seq(Message)
      /\ ps \in Seq(Message) /\ pr \in Seq(Message)
  <2>1. ClientEnd(c) \in P2pEndpoint /\ PeerEnd(c) \in P2pEndpoint
    BY DEF P2pEndpoint
  <2> QED BY SMT, <2>1 DEF HarnessTypeOK
<1>4. \A q \in Seq(Message) : \A m :
        /\ Len(Append(q, m)) = Len(q) + 1
        /\ Append(q, m)[1] = IF Len(q) = 0 THEN m ELSE q[1]
  BY SMT
<1>5. /\ \A m : Puts(PeerEnd(c), m) => cs' = Append(cs, m)
      /\ \A m : Takes(ClientEnd(c), m) => cr' = Append(cr, m)
      /\ \A m : Puts(ClientEnd(c), m) => ps' = Append(ps, m)
      /\ \A m : Takes(PeerEnd(c), m) => pr' = Append(pr, m)
      /\ Stays(PeerEnd(c)) \/ (\E m : Takes(PeerEnd(c), m)) => cs' = cs
      /\ Stays(ClientEnd(c)) \/ (\E m : Puts(ClientEnd(c), m)) => cr' = cr
      /\ Stays(ClientEnd(c)) \/ (\E m : Takes(ClientEnd(c), m)) => ps' = ps
      /\ Stays(PeerEnd(c)) \/ (\E m : Puts(PeerEnd(c), m)) => pr' = pr
  BY <1>2, SocketLogged
<1>6. /\ Len(cs) = ClientWrote(pc[c]) /\ Len(cr) = ClientRead(pc[c])
      /\ Len(ps) = PeerWrote(pc[p]) /\ Len(pr) = PeerRead(pc[p])
      /\ ClientWrote(pc[c]) > 0 => cs[1].type = "PeerChallenge"
  BY <1>1 DEF Logged
<1> HIDE DEF cs, cr, ps, pr
<1> SUFFICES /\ Len(cs') = ClientWrote(pc'[c]) /\ Len(cr') = ClientRead(pc'[c])
             /\ Len(ps') = PeerWrote(pc'[p]) /\ Len(pr') = PeerRead(pc'[p])
             /\ ClientWrote(pc'[c]) > 0 => cs'[1].type = "PeerChallenge"
  BY <1>1 DEF Logged, cs, cr, ps, pr
<1>7. CASE Unheard(c, p)
  BY <1>5, <1>6, <1>7 DEF Unheard, SameInbox, Stays
<1>8. ASSUME NEW m, ClientPuts(c, p, m)
      PROVE  /\ Len(cs') = ClientWrote(pc'[c]) /\ Len(cr') = ClientRead(pc'[c])
             /\ Len(ps') = PeerWrote(pc'[p]) /\ Len(pr') = PeerRead(pc'[p])
             /\ cs'[1].type = "PeerChallenge"
  <2>1. cs' = Append(cs, m) /\ cr' = cr /\ ps' = ps /\ pr' = pr
    BY <1>5, <1>8 DEF ClientPuts
  <2>2. Len(cs') = ClientWrote(pc[c]) + 1
    BY <1>3, <1>4, <1>6, <2>1
  <2>3. cs'[1].type = "PeerChallenge"
    <3>1. Len(cs) \in Nat
      BY SMT, <1>3
    <3>2. CASE Len(cs) = 0
      BY <1>3, <1>4, <1>6, <1>8, <2>1, <3>2 DEF ClientPuts
    <3>3. CASE Len(cs) > 0
      <4>1. cs'[1] = cs[1]
        <5>1. Len(cs) # 0
          BY SMT, <3>3
        <5> QED BY <1>3, <1>4, <2>1, <5>1
      <4> QED BY <1>6, <3>3, <4>1
    <3>4. Len(cs) = 0 \/ Len(cs) > 0
      BY SMT, <3>1
    <3> QED BY <3>2, <3>3, <3>4
  <2> QED BY <1>6, <1>8, <2>1, <2>2, <2>3 DEF ClientPuts
<1>9. ASSUME NEW m, ClientTakes(c, p, m)
      PROVE  /\ Len(cs') = ClientWrote(pc'[c]) /\ Len(cr') = ClientRead(pc'[c])
             /\ Len(ps') = PeerWrote(pc'[p]) /\ Len(pr') = PeerRead(pc'[p])
             /\ cs' = cs /\ ClientWrote(pc'[c]) = ClientWrote(pc[c])
  <2>1. cs' = cs /\ cr' = Append(cr, m) /\ ps' = ps /\ pr' = pr
    BY <1>5, <1>9 DEF ClientTakes
  <2> QED BY <1>3, <1>4, <1>6, <1>9, <2>1 DEF ClientTakes
<1>10. ASSUME NEW m, PeerPuts(c, p, m)
       PROVE  /\ Len(cs') = ClientWrote(pc'[c]) /\ Len(cr') = ClientRead(pc'[c])
              /\ Len(ps') = PeerWrote(pc'[p]) /\ Len(pr') = PeerRead(pc'[p])
              /\ cs' = cs /\ ClientWrote(pc'[c]) = ClientWrote(pc[c])
  <2>1. cs' = cs /\ cr' = cr /\ ps' = Append(ps, m) /\ pr' = pr
    BY <1>5, <1>10 DEF PeerPuts
  <2> QED BY <1>3, <1>4, <1>6, <1>10, <2>1 DEF PeerPuts
<1>11. ASSUME NEW m, PeerTakes(c, p, m)
       PROVE  /\ Len(cs') = ClientWrote(pc'[c]) /\ Len(cr') = ClientRead(pc'[c])
              /\ Len(ps') = PeerWrote(pc'[p]) /\ Len(pr') = PeerRead(pc'[p])
              /\ cs' = cs /\ ClientWrote(pc'[c]) = ClientWrote(pc[c])
  <2>1. cs' = cs /\ cr' = cr /\ ps' = ps /\ pr' = Append(pr, m)
    BY <1>5, <1>11 DEF PeerTakes
  <2> QED BY <1>3, <1>4, <1>6, <1>11, <2>1 DEF PeerTakes
<1> QED BY <1>6, <1>7, <1>8, <1>9, <1>10, <1>11

(* What holds of the variables in a test with two sessions. *)
LEMMA PairTypes ==
  ASSUME BaseInv, NEW c \in Session, NEW p \in Session, PairTest(c, p)
  PROVE  /\ SessionInv /\ NetTypeOK /\ HarnessTypeOK /\ CoreInv /\ WireInv
         /\ c # p /\ Wants[c] = KeyOf[p] /\ Wants[p] = KeyOf[c]
         /\ pc \in [Session -> Location]
         /\ verdict \in [Session -> ErrorKind \cup {"socket", None}]
         /\ nonce \in [Session -> Nonce \cup {None}]
         /\ secret \in [Session -> Nonce \cup {None}]
         /\ dial \in [Session -> Session \cup {None}]
         /\ accepted \in [Session -> Session \cup {None}]
         /\ listener \in [Address -> Session \cup {None}]
<1>1. HarnessTypeOK /\ CoreInv /\ WireInv /\ Couple(c, p)
  BY DEF BaseInv, HarnessInv, PairTest
<1>2. SessionInv
  BY <1>1 DEF CoreInv, Inv
<1> QED BY <1>1, <1>2
        DEF SessionInv, ConnectionTypeOK, MediatorConnectionTypeOK, Couple

(* What the two sessions know of each other. *)
LEMMA PairKnows ==
  ASSUME BaseInv, NEW c \in Session, NEW p \in Session, PairTest(c, p),
         PairInv(c, p)
  PROVE  /\ pc[c] \in ClientDialled => P2pEnd(c) = ClientEnd(c)
         /\ pc[p] \in PeerAccepted => P2pEnd(p) = PeerEnd(c)
         /\ pc[c] \in {"client", "dial", "redial"} =>
              /\ punched_peer[c].address = p /\ punched_peer[c].version = kVersion[c]
              /\ pc[p] \notin Unassigned \ {"registered"}
         /\ pc[p] = "bind" => peer_disconnect[p] = p
         /\ \A d \in Session : dial[d] = p => d = c
<1>1. /\ CoreInv /\ WireInv /\ HarnessTypeOK /\ Couple(c, p) /\ Handled(c, p)
      /\ Joined(c, p) /\ Beside(c, p)
  BY DEF BaseInv, HarnessInv, PairTest, PairInv
<1>2. /\ SessionInv /\ NetTypeOK /\ c # p /\ Conversation(p) /\ Wire(c) /\ Wire(p)
      /\ Defined(c) /\ Defined(p)
  BY <1>1 DEF CoreInv, Inv, SessionInv, ConnectionTypeOK, WireInv, Couple
<1>3. pc[c] \in ClientDialled => P2pEnd(c) = ClientEnd(c)
  BY <1>2, P2pEnds
<1>4. pc[p] \in PeerAccepted => P2pEnd(p) = PeerEnd(c)
  BY <1>1, <1>2, P2pEnds DEF Joined
<1>5. ASSUME pc[c] \in {"client", "dial", "redial"}
      PROVE  /\ punched_peer[c].address = p /\ punched_peer[c].version = kVersion[c]
             /\ pc[p] \notin Unassigned \ {"registered"}
  <2>1. punched_peer[c] \in PunchedPeer
    BY <1>2, <1>5 DEF Defined, ClientLocation
  <2>2. handler[c] = "identified" /\ punched_peer[c] = awaited[c]
    BY <1>2, <2>1, AbsentAssumption DEF Wire
  <2>3. /\ awaited[c].address = p /\ awaited[c].version = kVersion[p]
        /\ handler[p] = "disconnected"
    BY <1>1, <2>2, PairTables
  <2> QED BY <1>1, <1>2, <2>2, <2>3 DEF Couple, Conversation, Assigning
<1>6. ASSUME pc[p] = "bind" PROVE peer_disconnect[p] = p
  <2>1. peer_disconnect[p] \in Address
    BY <1>2, <1>6 DEF Defined, PeerLocation
  <2> QED BY <1>2, <2>1, NoneAssumption DEF Wire, Address
<1>7. ASSUME NEW d \in Session, dial[d] = p PROVE d = c
  <2>1. dial[d] # None
    BY <1>7, NoneAssumption
  <2>2. Progress(d)
    BY <1>1 DEF CoreInv
  <2>3. pc[d] # "idle" /\ punched_peer[d] # None
    BY <2>1, <2>2 DEF Progress, ClientDialled, Final
  <2>4. handler[d] = "identified"
    BY <1>1, <2>3 DEF WireInv, Wire
  <2> QED BY <1>1, <2>4 DEF Handled, Alone
<1> QED BY <1>2, <1>3, <1>4, <1>5, <1>6, <1>7

(* Neither session loses the other. *)
LEMMA NoLoss ==
  ASSUME BaseInv, NEW c \in Session, NEW p \in Session, PairTest(c, p),
         PairInv(c, p)
  PROVE  ~LosePeer(c) /\ ~LosePeer(p)
<1>1. Beside(c, p) /\ Joined(c, p)
  BY DEF PairInv
<1>2. /\ Far(ClientEnd(c)) = PeerEnd(c) /\ Far(PeerEnd(c)) = ClientEnd(c)
  BY Ends
<1>3. \A m : <<m>> # <<>> /\ Head(<<m>>) = m /\ ~(Len(<<m>>) > 1)
             /\ ~(Len(<<>>) > 1)
  BY SMT
<1>4. /\ Awaited("challenging") = "PeerChallengeResponse"
      /\ Awaited("answered") = "PeerAcknowledgement"
      /\ Awaited("accepted") = "PeerChallenge"
      /\ Awaited("replied") = "PeerResponse"
  BY DEF Awaited
<1>5. \A e, T : inbox[e] = <<>> => ~Undecodable(e, T)
  BY <1>3 DEF Undecodable
<1>6. \A e, T, m : inbox[e] = <<m>> /\ Decodes(T, m) =>
        ~Undecodable(e, T) /\ ~AtEof(e)
  BY <1>3 DEF Undecodable, AtEof
<1>7. ~LosePeer(c)
  <2>1. pc[c] \in ClientDialled => /\ P2pEnd(c) = ClientEnd(c)
                                   /\ open[Far(P2pEnd(c))]
    <3>1. pc[c] \in ClientDialled => open[PeerEnd(c)]
      BY <1>1 DEF Joined
    <3>2. pc[c] \in ClientDialled => P2pEnd(c) = ClientEnd(c)
      BY PairKnows
    <3> QED BY <1>2, <3>1, <3>2
  <2>2. SUFFICES ASSUME LosePeer(c) PROVE FALSE
    OBVIOUS
  <2>3. pc[c] \in {"challenging", "answered"}
        /\ Undecodable(ClientEnd(c), Awaited(pc[c]))
    <3>1. pc[c] \in ClientDialled
      BY <1>1, <2>2 DEF LosePeer, Beside, ClientDialled, Finished, Unassigned,
         MediatorStage
    <3> QED BY <2>1, <2>2, <3>1
            DEF LosePeer, ClientDialled, AtEof, SendMayThrow
  <2>4. inbox[ClientEnd(c)] # <<>>
    BY <1>5, <2>3
  <2>5. CASE pc[c] = "challenging"
    <3>1. inbox[ClientEnd(c)] =
            <<PeerChallengeResponse(Encrypt(Wants[p], nonce[p]), nonce[c])>>
      BY <1>1, <2>4, <2>5 DEF Beside, Under, Unassigned, MediatorStage, Finished
    <3>2. Decodes("PeerChallengeResponse",
                  PeerChallengeResponse(Encrypt(Wants[p], nonce[p]), nonce[c]))
      BY PeerContents
    <3> QED BY <1>4, <1>6, <2>3, <2>5, <3>1, <3>2
  <2>6. CASE pc[c] = "answered"
    <3>1. inbox[ClientEnd(c)] = <<PeerAcknowledgement>>
      BY <1>1, <2>4, <2>6 DEF Beside, Under, Unassigned, MediatorStage, Finished
    <3>2. Decodes("PeerAcknowledgement", PeerAcknowledgement)
      BY PeerContents
    <3> QED BY <1>4, <1>6, <2>3, <2>6, <3>1, <3>2
  <2> QED BY <2>3, <2>5, <2>6
<1>8. ~LosePeer(p)
  <2>1. SUFFICES ASSUME LosePeer(p) PROVE FALSE
    OBVIOUS
  <2>2. pc[p] \in PeerAccepted /\ pc[c] \in ClientDialled
    BY <1>1, <2>1 DEF LosePeer, Beside, ClientDialled, PeerAccepted, Finished,
       Unassigned, MediatorStage
  <2>3. P2pEnd(p) = PeerEnd(c) /\ open[Far(P2pEnd(p))]
    <3>1. open[ClientEnd(c)]
      BY <1>1, <2>2 DEF Joined
    <3>2. P2pEnd(p) = PeerEnd(c)
      BY <2>2, PairKnows
    <3> QED BY <1>2, <3>1, <3>2
  <2>4. pc[p] \in {"accepted", "replied"}
        /\ Undecodable(PeerEnd(c), Awaited(pc[p]))
    BY <2>1, <2>2, <2>3 DEF LosePeer, PeerAccepted, AtEof, SendMayThrow
  <2>5. inbox[PeerEnd(c)] # <<>>
    BY <1>5, <2>4
  <2>6. CASE pc[p] = "accepted"
    <3>1. inbox[PeerEnd(c)] = <<PeerChallenge(Encrypt(Wants[c], nonce[c]))>>
      BY <1>1, <2>5, <2>6 DEF Beside, Under, Unassigned, MediatorStage, Finished
    <3>2. Decodes("PeerChallenge",
                  PeerChallenge(Encrypt(Wants[c], nonce[c])))
      BY PeerContents
    <3> QED BY <1>4, <1>6, <2>4, <2>6, <3>1, <3>2
  <2>7. CASE pc[p] = "replied"
    <3>1. inbox[PeerEnd(c)] = <<PeerResponse(nonce[p])>>
      BY <1>1, <2>5, <2>7 DEF Beside, Under, Unassigned, MediatorStage, Finished
    <3>2. Decodes("PeerResponse", PeerResponse(nonce[p]))
      BY PeerContents
    <3> QED BY <1>4, <1>6, <2>4, <2>7, <3>1, <3>2
  <2> QED BY <2>4, <2>6, <2>7
<1> QED BY <1>7, <1>8

(* Where the other session is, by where one is. *)
LEMMA ClientRow ==
  ASSUME NEW c \in Session, NEW p \in Session, Beside(c, p)
  PROVE  /\ pc[c] \in Unassigned \cup {"client", "dial", "redial"} =>
              /\ pc[p] \in Unassigned \cup {"peer", "bind", "accept"}
              /\ Under(c, <<>>, <<>>)
         /\ pc[c] = "dialled" =>
              pc[p] \in {"accept", "accepted"} /\ Under(c, <<>>, <<>>)
         /\ pc[c] = "challenging" =>
              pc[p] \in {"accept", "accepted", "replying", "replied"}
         /\ pc[c] = "challenging" /\ inbox[ClientEnd(c)] # <<>> =>
              /\ pc[p] = "replied"
              /\ Under(c, <<>>,
                   <<PeerChallengeResponse(Encrypt(Wants[p], nonce[p]), nonce[c])>>)
         /\ pc[c] = "answering" =>
              pc[p] = "replied" /\ Under(c, <<>>, <<>>) /\ secret[c] = nonce[p]
         /\ pc[c] = "answered" => pc[p] \in {"replied", "acking"} \cup Finished
         /\ pc[c] = "answered" /\ inbox[ClientEnd(c)] # <<>> =>
              pc[p] \in Finished /\ Under(c, <<>>, <<PeerAcknowledgement>>)
         /\ pc[c] \in Finished =>
              pc[p] \in Finished /\ (line <= 8 => Under(c, <<>>, <<>>))
         /\ pc[c] \in Unassigned \cup ClientLocation \cup Finished
<1>1. Beside(c, p)
  OBVIOUS
<1> QED BY <1>1 DEF Beside, Under, Unassigned, MediatorStage, Finished,
           ClientLocation, ClientDialled

(* The same for the second session. *)
LEMMA PeerRow ==
  ASSUME NEW c \in Session, NEW p \in Session, Beside(c, p)
  PROVE  /\ pc[p] \in Unassigned \cup {"peer", "bind"} =>
              /\ pc[c] \in Unassigned \cup {"client", "dial", "redial"}
              /\ Under(c, <<>>, <<>>)
         /\ pc[p] \in {"accept", "accepted"} =>
              \/ /\ pc[c] \in Unassigned \cup {"client", "dial", "redial"}
                 /\ pc[p] = "accept" /\ Under(c, <<>>, <<>>)
              \/ pc[c] = "dialled" /\ Under(c, <<>>, <<>>)
              \/ /\ pc[c] = "challenging"
                 /\ Under(c, <<PeerChallenge(Encrypt(Wants[c], nonce[c]))>>, <<>>)
         /\ pc[p] = "replying" =>
              pc[c] = "challenging" /\ Under(c, <<>>, <<>>) /\ secret[p] = nonce[c]
         /\ pc[p] = "replied" /\ inbox[PeerEnd(c)] # <<>> =>
              pc[c] = "answered" /\ Under(c, <<PeerResponse(nonce[p])>>, <<>>)
         /\ pc[p] = "acking" => pc[c] = "answered" /\ Under(c, <<>>, <<>>)
         /\ pc[p] \in Finished =>
              \/ pc[c] = "answered" /\ Under(c, <<>>, <<PeerAcknowledgement>>)
              \/ pc[c] \in Finished /\ (line <= 8 => Under(c, <<>>, <<>>))
         /\ pc[p] \in Unassigned \cup PeerLocation \cup Finished
<1>1. Beside(c, p)
  OBVIOUS
<1> QED BY <1>1 DEF Beside, Under, Unassigned, MediatorStage, Finished,
           PeerLocation, PeerAccepted

(* The sockets after a step of the first session. *)
LEMMA ClientJoined ==
  ASSUME NEW c \in Session, NEW p \in Session, Joined(c, p), c # p,
         pc'[p] = pc[p], verdict'[p] = verdict[p], UNCHANGED <<accepted, listener>>,
         verdict'[c] = IF pc'[c] \in Finished THEN "socket" ELSE None,
         pc'[c] \in ClientDialled \cup Finished => dial'[c] = p,
         pc'[c] \in ClientDialled => open'[ClientEnd(c)] /\ open'[PeerEnd(c)]
  PROVE  Joined(c, p)'
  BY DEF Joined

(* The sockets after a step of the second session. *)
LEMMA PeerJoined ==
  ASSUME NEW c \in Session, NEW p \in Session, Joined(c, p), c # p,
         pc'[c] = pc[c], verdict'[c] = verdict[c], dial'[c] = dial[c],
         pc[c] \in ClientDialled => open'[ClientEnd(c)] /\ open'[PeerEnd(c)],
         verdict'[p] = IF pc'[p] \in Finished THEN "socket" ELSE None,
         pc'[p] \in PeerAccepted \cup Finished => accepted'[p] = c,
         \A a \in Address : listener'[a] # None => a = p /\ listener'[a] = p,
         listener'[p] # None <=> pc'[p] \in Listening
  PROVE  Joined(c, p)'
  BY DEF Joined

(* How much the sessions have exchanged, by where they are. *)
LEMMA Exchanged ==
  /\ \A l \in Unassigned \cup {"client", "dial", "redial", "dialled"} :
       ClientWrote(l) = 0 /\ ClientRead(l) = 0
  /\ ClientWrote("challenging") = 1 /\ ClientRead("challenging") = 0
  /\ ClientWrote("answering") = 1 /\ ClientRead("answering") = 1
  /\ ClientWrote("answered") = 2 /\ ClientRead("answered") = 1
  /\ \A l \in Finished : ClientWrote(l) = 2 /\ ClientRead(l) = 2
  /\ \A l \in Unassigned \cup {"peer", "bind", "accept", "accepted"} :
       PeerWrote(l) = 0 /\ PeerRead(l) = 0
  /\ PeerWrote("replying") = 0 /\ PeerRead("replying") = 1
  /\ PeerWrote("replied") = 1 /\ PeerRead("replied") = 1
  /\ PeerWrote("acking") = 1 /\ PeerRead("acking") = 2
  /\ \A l \in Finished : PeerWrote(l) = 2 /\ PeerRead(l) = 2
<1>1. \A l \in Unassigned \cup {"client", "dial", "redial", "dialled"} :
        ClientWrote(l) = 0 /\ ClientRead(l) = 0
  BY DEF ClientWrote, ClientRead, Unassigned, MediatorStage, Finished
<1>2. /\ ClientWrote("challenging") = 1 /\ ClientRead("challenging") = 0
      /\ ClientWrote("answering") = 1 /\ ClientRead("answering") = 1
      /\ ClientWrote("answered") = 2 /\ ClientRead("answered") = 1
      /\ \A l \in Finished : ClientWrote(l) = 2 /\ ClientRead(l) = 2
  BY DEF ClientWrote, ClientRead, Finished
<1>3. \A l \in Unassigned \cup {"peer", "bind", "accept", "accepted"} :
        PeerWrote(l) = 0 /\ PeerRead(l) = 0
  BY DEF PeerWrote, PeerRead, Unassigned, MediatorStage, Finished
<1>4. /\ PeerWrote("replying") = 0 /\ PeerRead("replying") = 1
      /\ PeerWrote("replied") = 1 /\ PeerRead("replied") = 1
      /\ PeerWrote("acking") = 1 /\ PeerRead("acking") = 2
      /\ \A l \in Finished : PeerWrote(l) = 2 /\ PeerRead(l) = 2
  BY DEF PeerWrote, PeerRead, Finished
<1> QED BY <1>1, <1>2, <1>3, <1>4

(* A message between the two sessions comes or goes. *)
Heard(c, p) ==
  \/ Unheard(c, p)
  \/ \E m : \/ ClientPuts(c, p, m) \/ ClientTakes(c, p, m)
            \/ PeerPuts(c, p, m) \/ PeerTakes(c, p, m)

(* The first session closes its connection to the Mediator and dials. *)
LEMMA ClientDials ==
  ASSUME BaseInv, Undisturbed, NEW c \in Session, NEW p \in Session,
         PairTest(c, p), PairInv(c, p), Thread(c),
         pc[c] \in {"client", "dial", "redial"}
  PROVE  Beside(c, p)' /\ Joined(c, p)' /\ Heard(c, p)
<1>1. /\ Beside(c, p) /\ Joined(c, p) /\ SessionInv /\ NetTypeOK /\ c # p
      /\ pc \in [Session -> Location] /\ dial \in [Session -> Session \cup {None}]
  BY PairTypes DEF PairInv
<1>2. /\ pc[p] \in Unassigned \cup {"peer", "bind", "accept"}
      /\ pc[p] \notin Unassigned \ {"registered"}
      /\ Under(c, <<>>, <<>>)
      /\ punched_peer[c].address = p /\ punched_peer[c].version = kVersion[c]
  <2>1. pc[c] \in Unassigned \cup {"client", "dial", "redial"}
    OBVIOUS
  <2>2. pc[p] \in Unassigned \cup {"peer", "bind", "accept"} /\ Under(c, <<>>, <<>>)
    BY <1>1, <2>1, ClientRow
  <2> QED BY <2>2, PairKnows
<1>3. pc[c] \notin Finished /\ pc[c] \notin ClientDialled
  BY DEF Finished, ClientDialled
<1>4. verdict[c] = None
  BY <1>1, <1>3 DEF Joined
<1>5. ASSUME NEW location \in {"dial", "redial", "dialled"}, Go(c, location)
      PROVE  pc'[c] = location /\ pc'[p] = pc[p]
  BY <1>1, <1>5 DEF Go
<1>6. ASSUME NEW location \in {"dial", "redial"}, Go(c, location),
             UNCHANGED <<inbox, verdict, secret, peerVars>>
      PROVE  Beside(c, p)' /\ Joined(c, p)' /\ Heard(c, p)
  <2>1. pc'[c] = location /\ pc'[p] = pc[p]
    BY <1>5, <1>6
  <2>2. Beside(c, p)'
    BY <1>2, <1>6, <2>1 DEF Beside, Under
  <2>3. pc'[c] \notin Finished /\ pc'[c] \notin ClientDialled
    BY <1>6, <2>1 DEF Finished, ClientDialled
  <2>4. Joined(c, p)'
    BY <1>1, <1>4, <1>6, <2>1, <2>3, ClientJoined DEF peerVars
  <2>5. Heard(c, p)
    BY <1>6, <2>1, Exchanged DEF Heard, Unheard, SameInbox
  <2> QED BY <2>2, <2>4, <2>5
<1>7. CASE pc[c] = "client"
  <2>1. CloseMediatorAsClient(c)
    BY <1>7, ThreadAt
  <2> QED BY <1>2, <1>6, <2>1 DEF CloseMediatorAsClient
<1>8. CASE pc[c] \in {"dial", "redial"}
  <2>1. DialPeer(c)
    BY <1>8, ThreadAt
  <2>2. CASE listener[p] = None
    <3>1. pc[c] # "redial"
      <4>1. pc[p] \in {"registered", "peer", "bind"}
        BY <1>1, <1>2, <2>2 DEF Joined, Listening
      <4> QED BY <1>2, <2>1, <4>1 DEF DialPeer, ListensSoon, Undisturbed
    <3>2. /\ Go(c, "redial")
          /\ UNCHANGED <<netVars, verdict, secret, peerVars>>
      BY <1>2, <1>8, <2>1, <2>2, <3>1 DEF DialPeer, MayDialAgain
    <3> QED BY <1>6, <3>2 DEF netVars
  <2>3. CASE listener[p] # None
    <3>1. /\ Establish(ClientEnd(c)) /\ dial' = [dial EXCEPT ![c] = listener[p]]
          /\ Go(c, "dialled")
          /\ UNCHANGED <<inbox, verdict, secret, accepted, listener>>
      BY <1>2, <2>1, <2>3 DEF DialPeer, Undisturbed
    <3>2. listener[p] = p /\ pc[p] = "accept"
      <4>1. listener[p] = p /\ pc[p] \in Listening
        BY <1>1, <2>3 DEF Joined, Address
      <4> QED BY <1>2, <4>1
              DEF Listening, PeerAccepted, Unassigned, MediatorStage
    <3>3. pc'[c] = "dialled" /\ pc'[p] = pc[p] /\ dial'[c] = p
      BY <1>1, <1>5, <3>1, <3>2
    <3>4. open'[ClientEnd(c)] /\ open'[PeerEnd(c)]
      BY <1>1, <3>1, Ends, EstablishOpens
    <3>5. Beside(c, p)'
      BY <1>2, <3>1, <3>2, <3>3 DEF Beside, Under
    <3>6. pc'[c] \notin Finished
      BY <3>3 DEF Finished
    <3>7. Joined(c, p)'
      BY <1>1, <1>4, <3>1, <3>3, <3>4, <3>6, ClientJoined
    <3>8. Heard(c, p)
      BY <3>1, <3>3, Exchanged DEF Heard, Unheard, SameInbox
    <3> QED BY <3>5, <3>7, <3>8
  <2> QED BY <2>2, <2>3
<1> QED BY <1>7, <1>8

(* The first session's part of the Peer handshake. *)
LEMMA ClientTalks ==
  ASSUME BaseInv, NEW c \in Session, NEW p \in Session,
         PairTest(c, p), PairInv(c, p), Thread(c), pc[c] \in ClientDialled
  PROVE  Beside(c, p)' /\ Joined(c, p)' /\ Heard(c, p)
<1>1. /\ Beside(c, p) /\ Joined(c, p) /\ SessionInv /\ NetTypeOK /\ c # p
      /\ pc \in [Session -> Location]
      /\ verdict \in [Session -> ErrorKind \cup {"socket", None}]
      /\ nonce \in [Session -> Nonce \cup {None}]
      /\ secret \in [Session -> Nonce \cup {None}]
      /\ Wants[p] = KeyOf[c]
  BY PairTypes DEF PairInv
<1>2. /\ dial[c] = p /\ open[ClientEnd(c)] /\ open[PeerEnd(c)] /\ verdict[c] = None
  <2>1. pc[c] \notin Finished
    BY DEF Finished, ClientDialled
  <2> QED BY <1>1, <2>1 DEF Joined
<1>3. ASSUME NEW location \in {"challenging", "answering", "answered", "returning"},
             Go(c, location)
      PROVE  pc'[c] = location /\ pc'[p] = pc[p]
  BY <1>1, <1>3 DEF Go
<1>4. ASSUME NEW location \in {"challenging", "answering", "answered"},
             Go(c, location), UNCHANGED <<open, verdict, dial, accepted, listener>>
      PROVE  Joined(c, p)'
  <2>1. pc'[c] = location /\ pc'[p] = pc[p]
    BY <1>3, <1>4
  <2>2. pc'[c] \notin Finished
    BY <1>4, <2>1 DEF Finished
  <2>3. verdict'[c] = None /\ verdict'[p] = verdict[p] /\ dial'[c] = p
        /\ open'[ClientEnd(c)] /\ open'[PeerEnd(c)]
    BY <1>2, <1>4
  <2> QED BY <1>1, <1>4, <2>1, <2>2, <2>3, ClientJoined
<1>5. CASE pc[c] = "dialled"
  <2>1. SendPeerChallenge(c)
    BY <1>5, ThreadAt, NoLoss
  <2>2. PICK n \in Nonce :
          /\ nonce' = [nonce EXCEPT ![c] = n]
          /\ Send(ClientEnd(c), PeerChallenge(Encrypt(Wants[c], n)))
    BY <2>1 DEF SendPeerChallenge
  <2>3. Go(c, "challenging") /\ UNCHANGED <<open, verdict, dial, accepted, listener>>
    BY <2>1 DEF SendPeerChallenge
  <2>4. pc[p] \in {"accept", "accepted"} /\ Under(c, <<>>, <<>>)
    BY <1>1, <1>5, ClientRow
  <2>5. /\ Puts(PeerEnd(c), PeerChallenge(Encrypt(Wants[c], n)))
        /\ Stays(ClientEnd(c))
    BY <1>1, <1>2, <2>2, <2>4, Between DEF Under
  <2>6. pc'[c] = "challenging" /\ pc'[p] = pc[p] /\ nonce'[c] = n
    BY <1>1, <1>3, <2>2, <2>3
  <2>7. Beside(c, p)'
    BY <2>4, <2>5, <2>6 DEF Beside, Under, Puts, Stays
  <2>8. ClientPuts(c, p, PeerChallenge(Encrypt(Wants[c], n)))
    <3>1. PeerChallenge(Encrypt(Wants[c], n)).type = "PeerChallenge"
      BY PeerContents
    <3>2. ClientWrote(pc[c]) = 0 /\ ClientRead(pc[c]) = 0
          /\ ClientWrote(pc'[c]) = 1 /\ ClientRead(pc'[c]) = 0
      BY <1>5, <2>6, Exchanged
    <3>3. ClientWrote(pc'[c]) = ClientWrote(pc[c]) + 1
      BY SMT, <3>2
    <3> QED BY <2>5, <2>6, <3>1, <3>2, <3>3 DEF ClientPuts
  <2> QED BY <1>4, <2>3, <2>7, <2>8 DEF Heard
<1>6. CASE pc[c] = "challenging"
  <2> DEFINE m == PeerChallengeResponse(Encrypt(Wants[p], nonce[p]), nonce[c])
  <2>1. ReceivePeerChallengeResponse(c)
    BY <1>6, ThreadAt, NoLoss
  <2>2. pc[p] = "replied" /\ Under(c, <<>>, <<m>>)
    <3>1. inbox[ClientEnd(c)] # <<>>
      BY <2>1 DEF ReceivePeerChallengeResponse, Readable
    <3> QED BY <1>1, <1>6, <3>1, ClientRow
  <2>3. inbox[ClientEnd(c)] = <<m>> /\ Head(inbox[ClientEnd(c)]) = m
    BY <2>2, Singletons DEF Under
  <2>4. /\ m.nonce = nonce[c] /\ CanDecrypt(KeyOf[c], m.encrypted_nonce)
        /\ Decrypt(m.encrypted_nonce) = nonce[p]
    <3>1. m = PeerChallengeResponse(Encrypt(KeyOf[c], nonce[p]), nonce[c])
      BY <1>1
    <3> HIDE DEF m
    <3> QED BY SMT, <3>1
            DEF PeerChallengeResponse, Blank, Encrypt, CanDecrypt, Decrypt
  <2> HIDE DEF m
  <2>5. /\ secret' = [secret EXCEPT ![c] = nonce[p]]
        /\ Receive(ClientEnd(c)) /\ Go(c, "answering")
        /\ UNCHANGED <<open, verdict, peerVars>>
    BY <2>1, <2>3, <2>4 DEF ReceivePeerChallengeResponse
  <2>6. Takes(ClientEnd(c), m) /\ Stays(PeerEnd(c))
    BY <1>1, <2>3, <2>5, Between
  <2>7. /\ pc'[c] = "answering" /\ pc'[p] = pc[p] /\ secret'[c] = nonce[p]
        /\ UNCHANGED <<nonce, dial, accepted, listener>>
    BY <1>1, <1>3, <2>5 DEF peerVars
  <2>8. Beside(c, p)'
    BY <2>2, <2>6, <2>7 DEF Beside, Under, Takes, Stays
  <2>9. ClientTakes(c, p, m)
    <3>1. ClientWrote(pc[c]) = 1 /\ ClientRead(pc[c]) = 0
          /\ ClientWrote(pc'[c]) = 1 /\ ClientRead(pc'[c]) = 1
      BY <1>6, <2>7, Exchanged
    <3>2. ClientRead(pc'[c]) = ClientRead(pc[c]) + 1
      BY SMT, <3>1
    <3> QED BY <2>6, <2>7, <3>1, <3>2 DEF ClientTakes
  <2> QED BY <1>4, <2>5, <2>7, <2>8, <2>9 DEF Heard
<1>7. CASE pc[c] = "answering"
  <2>1. SendPeerResponse(c)
    BY <1>7, ThreadAt, NoLoss
  <2>2. pc[p] = "replied" /\ Under(c, <<>>, <<>>) /\ secret[c] = nonce[p]
    BY <1>1, <1>7, ClientRow
  <2>3. /\ Send(ClientEnd(c), PeerResponse(nonce[p])) /\ Go(c, "answered")
        /\ UNCHANGED <<open, verdict, nonce, dial, accepted, listener>>
    BY <2>1, <2>2 DEF SendPeerResponse, peerVars
  <2>4. Puts(PeerEnd(c), PeerResponse(nonce[p])) /\ Stays(ClientEnd(c))
    BY <1>1, <1>2, <2>2, <2>3, Between DEF Under
  <2>5. pc'[c] = "answered" /\ pc'[p] = pc[p]
    BY <1>3, <2>3
  <2>6. Beside(c, p)'
    BY <2>2, <2>3, <2>4, <2>5 DEF Beside, Under, Puts, Stays
  <2>7. ClientPuts(c, p, PeerResponse(nonce[p]))
    <3>1. ClientWrote(pc[c]) = 1 /\ ClientRead(pc[c]) = 1
          /\ ClientWrote(pc'[c]) = 2 /\ ClientRead(pc'[c]) = 1
      BY <1>7, <2>5, Exchanged
    <3>2. ClientWrote(pc'[c]) = ClientWrote(pc[c]) + 1 /\ ClientWrote(pc[c]) # 0
      BY SMT, <3>1
    <3> QED BY <2>4, <2>5, <3>1, <3>2 DEF ClientPuts
  <2> QED BY <1>4, <2>3, <2>6, <2>7 DEF Heard
<1>8. CASE pc[c] = "answered"
  <2>1. ReceivePeerAcknowledgement(c)
    BY <1>8, ThreadAt, NoLoss
  <2>2. pc[p] \in Finished /\ Under(c, <<>>, <<PeerAcknowledgement>>)
    <3>1. inbox[ClientEnd(c)] # <<>>
      BY <2>1 DEF ReceivePeerAcknowledgement, Readable
    <3> QED BY <1>1, <1>8, <3>1, ClientRow
  <2>3. /\ Receive(ClientEnd(c)) /\ Go(c, "returning")
        /\ verdict' = [verdict EXCEPT ![c] = "socket"]
        /\ UNCHANGED <<open, dial, accepted, listener>>
    BY <2>1 DEF ReceivePeerAcknowledgement, peerVars
  <2>4. Takes(ClientEnd(c), PeerAcknowledgement) /\ Stays(PeerEnd(c))
    BY <1>1, <2>2, <2>3, Between DEF Under
  <2>5. /\ pc'[c] = "returning" /\ pc'[p] = pc[p]
        /\ verdict'[c] = "socket" /\ verdict'[p] = verdict[p]
    BY <1>1, <1>3, <2>3
  <2>6. pc'[c] \in Finished /\ pc'[c] \notin ClientDialled
    BY <2>5 DEF Finished, ClientDialled
  <2>7. Beside(c, p)'
    BY <2>2, <2>4, <2>5, <2>6 DEF Beside, Under, Takes, Stays
  <2>8. Joined(c, p)'
    BY <1>1, <1>2, <2>3, <2>5, <2>6, ClientJoined
  <2>9. ClientTakes(c, p, PeerAcknowledgement)
    <3>1. ClientWrote(pc[c]) = 2 /\ ClientRead(pc[c]) = 1
          /\ ClientWrote(pc'[c]) = 2 /\ ClientRead(pc'[c]) = 2
      BY <1>8, <2>6, Exchanged
    <3>2. ClientRead(pc'[c]) = ClientRead(pc[c]) + 1
      BY SMT, <3>1
    <3> QED BY <2>4, <2>5, <3>1, <3>2 DEF ClientTakes
  <2> QED BY <2>7, <2>8, <2>9 DEF Heard
<1> QED BY <1>5, <1>6, <1>7, <1>8 DEF ClientDialled

(* The second session closes its connection to the Mediator and listens. *)
LEMMA PeerListens ==
  ASSUME BaseInv, Undisturbed, NEW c \in Session, NEW p \in Session,
         PairTest(c, p), PairInv(c, p), Thread(p),
         pc[p] \in {"peer", "bind", "accept"}
  PROVE  Beside(c, p)' /\ Joined(c, p)' /\ Heard(c, p)
<1>1. /\ Beside(c, p) /\ Joined(c, p) /\ SessionInv /\ NetTypeOK /\ c # p
      /\ pc \in [Session -> Location]
      /\ listener \in [Address -> Session \cup {None}]
      /\ accepted \in [Session -> Session \cup {None}]
  BY PairTypes DEF PairInv
<1>2. p \in Address /\ p # None
  BY NoneAssumption DEF Address
<1>3. pc[p] \notin Finished /\ verdict[p] = None
  <2>1. pc[p] \notin Finished
    BY DEF Finished
  <2> QED BY <1>1, <2>1 DEF Joined
<1>4. ASSUME NEW location \in {"bind", "accept", "accepted"}, Go(p, location)
      PROVE  pc'[p] = location /\ pc'[c] = pc[c] /\ pc'[p] \notin Finished
  BY <1>1, <1>4 DEF Go, Finished
<1>5. CASE pc[p] = "peer"
  <2>1. CloseMediatorAsPeer(p)
    BY <1>5, ThreadAt
  <2>2. /\ open' = [open EXCEPT ![MedEnd(p)] = FALSE] /\ Go(p, "bind")
        /\ UNCHANGED <<inbox, verdict, dial, accepted, listener>>
    BY <2>1 DEF CloseMediatorAsPeer, peerVars
  <2>3. pc'[p] = "bind" /\ pc'[c] = pc[c] /\ pc'[p] \notin Finished
    BY <1>4, <2>2
  <2>4. /\ pc[c] \in Unassigned \cup {"client", "dial", "redial"}
        /\ Under(c, <<>>, <<>>)
    BY <1>1, <1>5, PeerRow
  <2>5. Beside(c, p)'
    BY <2>2, <2>3, <2>4 DEF Beside, Under
  <2>6. pc[c] \notin ClientDialled
    BY <2>4 DEF ClientDialled, Unassigned, MediatorStage
  <2>7. /\ pc'[p] \notin PeerAccepted /\ pc'[p] \notin Listening
        /\ pc[p] \notin Listening
    BY <1>5, <2>3 DEF PeerAccepted, Listening
  <2>8. /\ \A a \in Address : listener'[a] # None => a = p /\ listener'[a] = p
        /\ listener'[p] = None
    BY <1>1, <2>2, <2>7 DEF Joined
  <2>9. Joined(c, p)'
    BY <1>1, <1>3, <2>2, <2>3, <2>6, <2>7, <2>8, PeerJoined
  <2>10. Heard(c, p)
    BY <1>5, <2>2, <2>3, Exchanged DEF Heard, Unheard, SameInbox
  <2> QED BY <2>5, <2>9, <2>10
<1>6. CASE pc[p] = "bind"
  <2>1. Listen(p) /\ peer_disconnect[p] = p
    BY <1>6, ThreadAt, PairKnows
  <2>2. listener[p] = None
    BY <1>1, <1>6 DEF Joined, Listening, PeerAccepted
  <2>3. /\ listener' = [listener EXCEPT ![p] = p] /\ Go(p, "accept")
        /\ UNCHANGED <<inbox, verdict, dial, accepted>>
    BY <2>1, <2>2 DEF Listen, netVars, Undisturbed
  <2>4. pc'[p] = "accept" /\ pc'[c] = pc[c] /\ pc'[p] \notin Finished
    BY <1>4, <2>3
  <2>5. /\ pc[c] \in Unassigned \cup {"client", "dial", "redial"}
        /\ Under(c, <<>>, <<>>)
    BY <1>1, <1>6, PeerRow
  <2>6. Beside(c, p)'
    BY <2>3, <2>4, <2>5 DEF Beside, Under
  <2>7. pc[c] \notin ClientDialled
    BY <2>5 DEF ClientDialled, Unassigned, MediatorStage
  <2>8. pc'[p] \notin PeerAccepted /\ pc'[p] \in Listening
    BY <2>4 DEF PeerAccepted, Listening
  <2>9. /\ \A a \in Address : listener'[a] # None => a = p /\ listener'[a] = p
        /\ listener'[p] # None
    BY <1>1, <1>2, <2>3 DEF Joined
  <2>10. Joined(c, p)'
    BY <1>1, <1>3, <2>3, <2>4, <2>7, <2>8, <2>9, PeerJoined
  <2>11. Heard(c, p)
    BY <1>6, <2>3, <2>4, Exchanged DEF Heard, Unheard, SameInbox
  <2> QED BY <2>6, <2>10, <2>11
<1>7. CASE pc[p] = "accept"
  <2>1. Accept(p)
    BY <1>7, ThreadAt
  <2>2. PICK d \in Session :
          /\ dial[d] = p /\ accepted' = [accepted EXCEPT ![p] = d]
          /\ Go(p, "accepted") /\ UNCHANGED <<netVars, verdict, secret, nonce,
                                              dial, listener>>
    BY <2>1 DEF Accept, Undisturbed
  <2>3. d = c /\ dial[c] = p
    BY <2>2, PairKnows
  <2>4. pc'[p] = "accepted" /\ pc'[c] = pc[c] /\ pc'[p] \notin Finished
    BY <1>4, <2>2
  <2>5. accepted'[p] = c /\ UNCHANGED <<inbox, open>>
    BY <1>1, <2>2, <2>3 DEF netVars
  <2>6. \/ pc[c] = "dialled" /\ Under(c, <<>>, <<>>)
        \/ /\ pc[c] = "challenging"
           /\ Under(c, <<PeerChallenge(Encrypt(Wants[c], nonce[c]))>>, <<>>)
    <3>1. pc[c] \notin Unassigned \cup {"client", "dial", "redial"}
      <4>1. Progress(c)
        BY DEF BaseInv, HarnessInv, CoreInv
      <4>2. dial[c] # None
        BY <1>2, <2>3
      <4> QED BY <4>1, <4>2
              DEF Progress, ClientDialled, Final, Unassigned, MediatorStage
    <3> QED BY <1>1, <1>7, <3>1, PeerRow
  <2>7. Beside(c, p)'
    BY <2>2, <2>4, <2>5, <2>6 DEF Beside, Under
  <2>8. pc[p] \in Listening /\ pc'[p] \in Listening
    BY <1>7, <2>4 DEF Listening, PeerAccepted
  <2>9. /\ \A a \in Address : listener'[a] # None => a = p /\ listener'[a] = p
        /\ listener'[p] # None
        /\ pc[c] \in ClientDialled => open'[ClientEnd(c)] /\ open'[PeerEnd(c)]
    BY <1>1, <2>2, <2>5, <2>8 DEF Joined
  <2>10. Joined(c, p)'
    BY <1>1, <1>3, <2>2, <2>4, <2>5, <2>8, <2>9, PeerJoined
  <2>11. Heard(c, p)
    BY <1>7, <2>4, <2>5, Exchanged DEF Heard, Unheard, SameInbox
  <2> QED BY <2>7, <2>10, <2>11
<1> QED BY <1>5, <1>6, <1>7

(* The second session's part of the Peer handshake. *)
LEMMA PeerTalks ==
  ASSUME BaseInv, NEW c \in Session, NEW p \in Session,
         PairTest(c, p), PairInv(c, p), Thread(p), pc[p] \in PeerAccepted
  PROVE  Beside(c, p)' /\ Joined(c, p)' /\ Heard(c, p)
<1>1. /\ Beside(c, p) /\ Joined(c, p) /\ SessionInv /\ NetTypeOK /\ c # p
      /\ pc \in [Session -> Location]
      /\ verdict \in [Session -> ErrorKind \cup {"socket", None}]
      /\ nonce \in [Session -> Nonce \cup {None}]
      /\ secret \in [Session -> Nonce \cup {None}]
      /\ listener \in [Address -> Session \cup {None}]
      /\ Wants[c] = KeyOf[p]
  BY PairTypes DEF PairInv
<1>2. /\ P2pEnd(p) = PeerEnd(c) /\ accepted[p] = c /\ verdict[p] = None
      /\ listener[p] # None
      /\ \A a \in Address : listener[a] # None => a = p /\ listener[a] = p
  <2>1. pc[p] \notin Finished /\ pc[p] \in Listening
    BY DEF Finished, PeerAccepted, Listening
  <2> QED BY <1>1, <2>1, PairKnows DEF Joined
<1>3. ASSUME NEW location \in {"replying", "replied", "acking", "returning"},
             Go(p, location)
      PROVE  pc'[p] = location /\ pc'[c] = pc[c]
  BY <1>1, <1>3 DEF Go
<1>4. ASSUME NEW location \in {"replying", "replied", "acking"},
             Go(p, location), UNCHANGED <<open, verdict, dial, accepted, listener>>
      PROVE  Joined(c, p)'
  <2>1. pc'[p] = location /\ pc'[c] = pc[c]
    BY <1>3, <1>4
  <2>2. pc'[p] \notin Finished /\ pc'[p] \in Listening
    BY <1>4, <2>1 DEF Finished, Listening, PeerAccepted
  <2>3. /\ verdict'[p] = None /\ verdict'[c] = verdict[c] /\ dial'[c] = dial[c]
        /\ accepted'[p] = c /\ listener'[p] # None
        /\ \A a \in Address : listener'[a] # None => a = p /\ listener'[a] = p
    BY <1>2, <1>4
  <2>4. pc[c] \in ClientDialled => open'[ClientEnd(c)] /\ open'[PeerEnd(c)]
    BY <1>1, <1>4 DEF Joined
  <2> QED BY <1>1, <2>1, <2>2, <2>3, <2>4, PeerJoined
<1>5. CASE pc[p] = "accepted"
  <2> DEFINE m == PeerChallenge(Encrypt(Wants[c], nonce[c]))
  <2>1. ReceivePeerChallenge(p)
    BY <1>5, ThreadAt, NoLoss
  <2>2. pc[c] = "challenging" /\ Under(c, <<m>>, <<>>)
    <3>1. inbox[PeerEnd(c)] # <<>>
      BY <1>2, <2>1 DEF ReceivePeerChallenge, Readable
    <3> QED BY <1>1, <1>5, <3>1, PeerRow DEF Under
  <2>3. inbox[PeerEnd(c)] = <<m>> /\ Head(inbox[PeerEnd(c)]) = m
    BY <2>2, Singletons DEF Under
  <2>4. CanDecrypt(KeyOf[p], m.encrypted_nonce) /\ Decrypt(m.encrypted_nonce) = nonce[c]
    BY <1>1, PeerContents
  <2> HIDE DEF m
  <2>5. /\ secret' = [secret EXCEPT ![p] = nonce[c]]
        /\ Receive(PeerEnd(c)) /\ Go(p, "replying")
        /\ UNCHANGED <<open, verdict, peerVars>>
    BY <1>2, <2>1, <2>3, <2>4 DEF ReceivePeerChallenge
  <2>6. Takes(PeerEnd(c), m) /\ Stays(ClientEnd(c))
    BY <1>1, <2>3, <2>5, Between
  <2>7. /\ pc'[p] = "replying" /\ pc'[c] = pc[c] /\ secret'[p] = nonce[c]
        /\ UNCHANGED <<nonce, dial, accepted, listener>>
    BY <1>1, <1>3, <2>5 DEF peerVars
  <2>8. Beside(c, p)'
    BY <2>2, <2>6, <2>7 DEF Beside, Under, Takes, Stays
  <2>9. PeerTakes(c, p, m)
    <3>1. PeerWrote(pc[p]) = 0 /\ PeerRead(pc[p]) = 0
          /\ PeerWrote(pc'[p]) = 0 /\ PeerRead(pc'[p]) = 1
      BY <1>5, <2>7, Exchanged
    <3>2. PeerRead(pc'[p]) = PeerRead(pc[p]) + 1
      BY SMT, <3>1
    <3> QED BY <2>6, <2>7, <3>1, <3>2 DEF PeerTakes
  <2> QED BY <1>4, <2>5, <2>7, <2>8, <2>9 DEF Heard
<1>6. CASE pc[p] = "replying"
  <2>1. SendPeerChallengeResponse(p)
    BY <1>6, ThreadAt, NoLoss
  <2>2. pc[c] = "challenging" /\ Under(c, <<>>, <<>>) /\ secret[p] = nonce[c]
    BY <1>1, <1>6, PeerRow
  <2>3. PICK n \in Nonce :
          /\ nonce' = [nonce EXCEPT ![p] = n]
          /\ Send(PeerEnd(c), PeerChallengeResponse(Encrypt(Wants[p], n), nonce[c]))
    BY <1>2, <2>1, <2>2 DEF SendPeerChallengeResponse
  <2>4. Go(p, "replied") /\ UNCHANGED <<open, verdict, dial, accepted, listener>>
    BY <2>1 DEF SendPeerChallengeResponse
  <2>5. open[ClientEnd(c)]
    BY <1>1, <2>2 DEF Joined, ClientDialled
  <2>6. /\ Puts(ClientEnd(c), PeerChallengeResponse(Encrypt(Wants[p], n), nonce[c]))
        /\ Stays(PeerEnd(c))
    BY <1>1, <2>2, <2>3, <2>5, Between DEF Under
  <2>7. pc'[p] = "replied" /\ pc'[c] = pc[c] /\ nonce'[p] = n /\ nonce'[c] = nonce[c]
    BY <1>1, <1>3, <2>3, <2>4
  <2>8. Beside(c, p)'
    BY <2>2, <2>6, <2>7 DEF Beside, Under, Puts, Stays
  <2>9. PeerPuts(c, p, PeerChallengeResponse(Encrypt(Wants[p], n), nonce[c]))
    <3>1. PeerWrote(pc[p]) = 0 /\ PeerRead(pc[p]) = 1
          /\ PeerWrote(pc'[p]) = 1 /\ PeerRead(pc'[p]) = 1
      BY <1>6, <2>7, Exchanged
    <3>2. PeerWrote(pc'[p]) = PeerWrote(pc[p]) + 1
      BY SMT, <3>1
    <3> QED BY <2>6, <2>7, <3>1, <3>2 DEF PeerPuts
  <2> QED BY <1>4, <2>4, <2>8, <2>9 DEF Heard
<1>7. CASE pc[p] = "replied"
  <2>1. ReceivePeerResponse(p)
    BY <1>7, ThreadAt, NoLoss
  <2>2. pc[c] = "answered" /\ Under(c, <<PeerResponse(nonce[p])>>, <<>>)
    <3>1. inbox[PeerEnd(c)] # <<>>
      BY <1>2, <2>1 DEF ReceivePeerResponse, Readable
    <3> QED BY <1>1, <1>7, <3>1, PeerRow
  <2>3. /\ inbox[PeerEnd(c)] = <<PeerResponse(nonce[p])>>
        /\ Head(inbox[PeerEnd(c)]) = PeerResponse(nonce[p])
    BY <2>2, Singletons DEF Under
  <2>4. PeerResponse(nonce[p]).nonce = nonce[p]
    BY PeerContents
  <2>5. /\ Receive(PeerEnd(c)) /\ Go(p, "acking")
        /\ UNCHANGED <<open, verdict, secret, nonce, dial, accepted, listener>>
    BY <1>2, <2>1, <2>3, <2>4 DEF ReceivePeerResponse, peerVars
  <2>6. Takes(PeerEnd(c), PeerResponse(nonce[p])) /\ Stays(ClientEnd(c))
    BY <1>1, <2>3, <2>5, Between
  <2>7. pc'[p] = "acking" /\ pc'[c] = pc[c]
    BY <1>3, <2>5
  <2>8. Beside(c, p)'
    BY <2>2, <2>6, <2>7 DEF Beside, Under, Takes, Stays
  <2>9. PeerTakes(c, p, PeerResponse(nonce[p]))
    <3>1. PeerWrote(pc[p]) = 1 /\ PeerRead(pc[p]) = 1
          /\ PeerWrote(pc'[p]) = 1 /\ PeerRead(pc'[p]) = 2
      BY <1>7, <2>7, Exchanged
    <3>2. PeerRead(pc'[p]) = PeerRead(pc[p]) + 1
      BY SMT, <3>1
    <3> QED BY <2>6, <2>7, <3>1, <3>2 DEF PeerTakes
  <2> QED BY <1>4, <2>5, <2>8, <2>9 DEF Heard
<1>8. CASE pc[p] = "acking"
  <2>1. SendPeerAcknowledgement(p)
    BY <1>8, ThreadAt, NoLoss
  <2>2. pc[c] = "answered" /\ Under(c, <<>>, <<>>)
    BY <1>1, <1>8, PeerRow
  <2>3. /\ Send(PeerEnd(c), PeerAcknowledgement) /\ Go(p, "returning")
        /\ verdict' = [verdict EXCEPT ![p] = "socket"]
        /\ StopListening(p) /\ UNCHANGED <<dial, accepted>>
    BY <1>2, <2>1 DEF SendPeerAcknowledgement
  <2>4. open[ClientEnd(c)] /\ open[PeerEnd(c)]
    BY <1>1, <2>2 DEF Joined, ClientDialled
  <2>5. Puts(ClientEnd(c), PeerAcknowledgement) /\ Stays(PeerEnd(c))
    BY <1>1, <2>2, <2>3, <2>4, Between DEF Under
  <2>6. /\ pc'[p] = "returning" /\ pc'[c] = pc[c]
        /\ verdict'[p] = "socket" /\ verdict'[c] = verdict[c]
        /\ accepted'[p] = c /\ dial'[c] = dial[c]
    BY <1>1, <1>2, <1>3, <2>3
  <2>7. pc'[p] \in Finished /\ pc'[p] \notin Listening
    BY <2>6 DEF Finished, Listening, PeerAccepted
  <2>8. Beside(c, p)'
    BY <2>2, <2>5, <2>6, <2>7 DEF Beside, Under, Puts, Stays
  <2>9. open'[ClientEnd(c)] /\ open'[PeerEnd(c)]
    <3>1. /\ ClientEnd(c) \in Endpoint /\ PeerEnd(c) \in Endpoint
          /\ \A d \in Session : ClientEnd(c) # PeerEnd(d)
          /\ \A d \in Session \ {c} : PeerEnd(c) # PeerEnd(d)
      BY Ends
    <3>2. open' = [e \in Endpoint |->
            open[e] /\ ~\E d \in Session \ {c} : dial[d] = p /\ e = PeerEnd(d)]
      BY <1>2, <2>1 DEF SendPeerAcknowledgement
    <3> QED BY <2>4, <3>1, <3>2
  <2>10. \A a \in Address : listener'[a] = None
    BY <1>2, <2>3 DEF StopListening
  <2>11. Joined(c, p)'
    <3>1. p \in Address
      BY DEF Address
    <3> QED BY <1>1, <2>6, <2>7, <2>9, <2>10, <3>1, PeerJoined
  <2>12. PeerPuts(c, p, PeerAcknowledgement)
    <3>1. PeerWrote(pc[p]) = 1 /\ PeerRead(pc[p]) = 2
          /\ PeerWrote(pc'[p]) = 2 /\ PeerRead(pc'[p]) = 2
      BY <1>8, <2>7, Exchanged
    <3>2. PeerWrote(pc'[p]) = PeerWrote(pc[p]) + 1
      BY SMT, <3>1
    <3> QED BY <2>5, <2>6, <3>1, <3>2 DEF PeerPuts
  <2> QED BY <2>8, <2>11, <2>12 DEF Heard
<1> QED BY <1>5, <1>6, <1>7, <1>8 DEF PeerAccepted
=============================================================================
