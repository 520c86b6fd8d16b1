---------------------------- MODULE P2pscProofs ----------------------------
(***************************************************************************)
(* Theorems about the whole system, for any number of sessions and keys:   *)
(* types, authentication, the order in which the FakeMediator tells the    *)
(* two sides about each other, lock step on every connection, and that no  *)
(* handler throws.                                                         *)
(***************************************************************************)
EXTENDS P2psc, ConnectionProofs

(* Most leaves are first-order; the ones that are not cite SMT. *)
USE Zenon

(***************************************************************************)
(* What the locals of a handler hold where the code reads them.            *)
(***************************************************************************)
HandlerDefined(s) ==
  /\ handler[s] \in Running \ {"advertise"} =>
       /\ advertise[s].our_key \in Key /\ advertise[s].their_key \in Key
       /\ advertise[s].version \in Version
  /\ handler[s] \in {"waitDisconnect", "identify", "identified"} =>
       awaited[s] \in PeerIdentifier

(***************************************************************************)
(* completed holds only addresses whose PeerDisconnect has been sent and   *)
(* whose handler has returned; a handler that goes on to identify a Peer   *)
(* has taken the Peer's address out, and nobody puts it back.              *)
(***************************************************************************)
Disconnected(a) == a \in Session /\ handler[a] = "disconnected"

Ordered(s) ==
  /\ s \in completed => Disconnected(s)
  /\ handler[s] \in {"identify", "identified"} =>
       /\ Disconnected(awaited[s].address)
       /\ awaited[s].address \notin completed
  /\ punched_peer[s] # None => Disconnected(punched_peer[s].address)
  /\ \A m \in Unread(MedEnd(s)) :
       m.type = "PeerIdentification" => Disconnected(m.address)

HandlerInv ==
  /\ FakeMediatorTypeOK
  /\ \A s \in Session : HandlerDefined(s) /\ Ordered(s)
  /\ OneIdentificationPerDisconnect

Inv == SessionInv /\ KeysInv /\ HandlerInv
-----------------------------------------------------------------------------
(* Nothing new is sent to a session on its connection to the Mediator. *)
MedQuiet == \A c \in Session : Unread(MedEnd(c))' \subseteq Unread(MedEnd(c))

(* Steps that touch neither the handlers nor what they told the sessions. *)
LEMMA HandlersUnchanged ==
  ASSUME HandlerInv, MedQuiet, UNCHANGED <<punched_peer, handlerVars>>
  PROVE  HandlerInv'
<1>1. UNCHANGED <<punched_peer, handler, advertise, store, awaited, completed,
                  quit_after>>
  BY DEF handlerVars
<1>2. FakeMediatorTypeOK' /\ OneIdentificationPerDisconnect'
  BY <1>1 DEF HandlerInv, FakeMediatorTypeOK, OneIdentificationPerDisconnect
<1>3. ASSUME NEW t \in Session PROVE HandlerDefined(t)'
  BY <1>1 DEF HandlerInv, HandlerDefined
<1>4. ASSUME NEW t \in Session PROVE Ordered(t)'
  <2>1. Unread(MedEnd(t))' \subseteq Unread(MedEnd(t))
    BY DEF MedQuiet
  <2>2. Ordered(t)
    BY DEF HandlerInv
  <2> QED BY <1>1, <2>1, <2>2 DEF Ordered, Disconnected
<1> QED BY <1>2, <1>3, <1>4 DEF HandlerInv

(* The ends a session uses with another one are not its Mediator socket. *)
LEMMA SessionEnds ==
  ASSUME NEW s, NEW c
  PROVE  /\ P2pEnd(s) # MedEnd(c) /\ Far(P2pEnd(s)) # MedEnd(c)
         /\ ClientEnd(s) # MedEnd(c) /\ Far(ClientEnd(s)) # MedEnd(c)
         /\ Far(MedEnd(s)) # MedEnd(c)
  BY DEF P2pEnd, ClientEnd, PeerEnd, MedEnd, Far

(* Traffic on another connection leaves the Mediator sockets alone. *)
LEMMA AwayFromMed ==
  ASSUME NetTypeOK, NEW e, \A c : Far(e) # MedEnd(c),
         \/ \E m : Send(e, m)
         \/ Receive(e) /\ \A c : e # MedEnd(c)
         \/ UNCHANGED inbox
  PROVE  MedQuiet
<1>1. \A c \in Session : inbox'[MedEnd(c)] = inbox[MedEnd(c)]
  BY Ends DEF Send, Receive, NetTypeOK
<1> QED BY <1>1 DEF MedQuiet, Unread

(***************************************************************************)
(* A session sends nothing to itself, and learns the address of its Peer   *)
(* only from a PeerIdentification.                                         *)
(***************************************************************************)
LEMMA SessionLearns ==
  ASSUME SessionInv, NEW s \in Session, Connect(s) \/ Thread(s) \/ Crash(s)
  PROVE  /\ MedQuiet
         /\ UNCHANGED punched_peer \/ ReceivePeerIdentification(s)
<1>1. NetTypeOK
  BY DEF SessionInv, ConnectionTypeOK
<1>2. CASE MediatorConnect(s)
  <2>1. \/ UNCHANGED inbox
        \/ \E m : Send(MedEnd(s), m)
        \/ inbox[MedEnd(s)] # <<>> /\ Receive(MedEnd(s))
    BY <1>2
    DEF MediatorConnect, DialMediator, SendAdvertise, ReceiveAdvertiseRetry,
        ReceiveAdvertiseChallenge, SendAdvertiseResponse,
        ReceivePeerIdentification, ReceivePeerDisconnect, ReceiveUnexpected,
        LoseMediator, MediatorThrow, ReadableAnyType
  <2>2. MedQuiet
    BY SMT, <1>1, <2>1, Ends, SessionEnds, AwayFromMed, ReceiveRemoves DEF MedQuiet
  <2>3. UNCHANGED punched_peer \/ ReceivePeerIdentification(s)
    BY <1>2
    DEF MediatorConnect, DialMediator, SendAdvertise, ReceiveAdvertiseRetry,
        ReceiveAdvertiseChallenge, SendAdvertiseResponse,
        ReceivePeerDisconnect, ReceiveUnexpected, LoseMediator, MediatorThrow
  <2> QED BY <2>2, <2>3
<1>3. CASE Connect(s) \/ PeerHandshake(s) \/ Crash(s)
  <2>1. /\ UNCHANGED punched_peer
        /\ \E e \in {ClientEnd(s), P2pEnd(s)} :
             (\E m : Send(e, m)) \/ Receive(e) \/ UNCHANGED inbox
    BY <1>3
    DEF Connect, Crash, PeerHandshake, CloseMediatorAsClient, DialPeer,
        SendPeerChallenge, ReceivePeerChallengeResponse, SendPeerResponse,
        ReceivePeerAcknowledgement, CloseMediatorAsPeer, Listen, Accept,
        ReceivePeerChallenge, SendPeerChallengeResponse, ReceivePeerResponse,
        SendPeerAcknowledgement, LosePeer, Callback, CallbackThrows, Throw,
        Die, netVars
  <2> QED BY <1>1, <2>1, SessionEnds, AwayFromMed
<1> QED BY <1>2, <1>3 DEF Thread

(***************************************************************************)
(* A step of a session keeps the Mediator's invariant.                     *)
(***************************************************************************)
LEMMA SessionKeepsHandlers ==
  ASSUME Inv, NEW s \in Session, Connect(s) \/ Thread(s) \/ Crash(s),
         UNCHANGED handlerVars
  PROVE  HandlerInv'
<1> USE DEF Inv, HandlerInv, handlerVars
<1>1. /\ MedQuiet
      /\ UNCHANGED punched_peer \/ ReceivePeerIdentification(s)
  BY SessionLearns
<1>2. FakeMediatorTypeOK' /\ OneIdentificationPerDisconnect'
  BY DEF FakeMediatorTypeOK, OneIdentificationPerDisconnect
<1>3. ASSUME NEW t \in Session PROVE HandlerDefined(t)'
  BY DEF HandlerDefined
<1>4. ASSUME NEW t \in Session PROVE Ordered(t)'
  <2>1. punched_peer'[t] # None => Disconnected(punched_peer'[t].address)
    <3>1. CASE UNCHANGED punched_peer
      BY <3>1 DEF Ordered
    <3>2. CASE ReceivePeerIdentification(s)
      <4>1. Head(inbox[MedEnd(s)]) \in Unread(MedEnd(s))
        BY <3>2, Ends, HeadUnread
        DEF ReceivePeerIdentification, ReadableAnyType, SessionInv, ConnectionTypeOK
      <4>2. /\ Disconnected(Head(inbox[MedEnd(s)]).address)
            /\ punched_peer' = [punched_peer EXCEPT ![s] =
                 [address |-> Head(inbox[MedEnd(s)]).address,
                  version |-> Head(inbox[MedEnd(s)]).version]]
        BY <3>2, <4>1 DEF ReceivePeerIdentification, Ordered
      <4> QED BY <4>2
              DEF Ordered, SessionInv, ConnectionTypeOK, MediatorConnectionTypeOK
    <3> QED BY <1>1, <3>1, <3>2
  <2>2. \A m \in Unread(MedEnd(t))' : m \in Unread(MedEnd(t))
    BY <1>1 DEF MedQuiet
  <2> QED BY <2>1, <2>2 DEF Ordered, Disconnected
<1> QED BY <1>2, <1>3, <1>4

(***************************************************************************)
(* What has to be checked of a step of the handler of session s.           *)
(***************************************************************************)
LEMMA HandlerMove ==
  ASSUME HandlerInv, FakeMediatorTypeOK', NEW s \in Session, NEW location,
         ~Disconnected(s), handler' = [handler EXCEPT ![s] = location],
         \A t \in Session \ {s} : /\ awaited'[t] = awaited[t]
                                  /\ advertise'[t] = advertise[t],
         HandlerDefined(s)', UNCHANGED punched_peer,
         completed' \subseteq completed \cup
           {t \in {s} : location = "disconnected"},
         location \in {"identify", "identified"} =>
           /\ Disconnected(awaited'[s].address)
           /\ awaited'[s].address \notin completed'
           /\ \A d \in Session \ {s} :
                handler[d] \in {"identify", "identified"} =>
                  awaited[d].address # awaited'[s].address,
         \A c \in Session : \A m \in Unread(MedEnd(c))' :
           \/ m \in Unread(MedEnd(c))
           \/ m.type = "PeerIdentification" => Disconnected(m.address)
  PROVE  HandlerInv'
<1>1. \A t \in Session : handler'[t] = IF t = s THEN location ELSE handler[t]
  BY DEF HandlerInv, FakeMediatorTypeOK
<1>2. \A a : Disconnected(a) => Disconnected(a)'
  BY DEF HandlerInv, FakeMediatorTypeOK, Disconnected
<1>3. ASSUME NEW t \in Session PROVE HandlerDefined(t)'
  <2>1. CASE t # s
    BY <1>1, <2>1 DEF HandlerInv, HandlerDefined
  <2> QED BY <2>1
<1>4. ASSUME NEW t \in Session PROVE Ordered(t)'
  <2>1. Ordered(t) /\ HandlerDefined(t)
    BY DEF HandlerInv
  <2>2. t \in completed' => Disconnected(t)'
    BY <1>1, <1>2, <2>1 DEF Ordered, Disconnected
  <2>3. handler'[t] \in {"identify", "identified"} =>
          /\ Disconnected(awaited[t].address)'
          /\ awaited'[t].address \notin completed'
    <3>1. CASE t = s
      BY <1>1, <1>2, <3>1 DEF Disconnected
    <3>2. CASE t # s
      BY <1>1, <1>2, <2>1, <3>2 DEF Ordered, Disconnected
    <3> QED BY <3>1, <3>2
  <2>4. punched_peer'[t] # None => Disconnected(punched_peer[t].address)'
    BY <1>2, <2>1 DEF Ordered, Disconnected
  <2>5. \A m \in Unread(MedEnd(t))' :
          m.type = "PeerIdentification" => Disconnected(m.address)'
    BY <1>2, <2>1 DEF Ordered, Disconnected
  <2> QED BY <2>2, <2>3, <2>4, <2>5 DEF Ordered, Disconnected
<1>5. OneIdentificationPerDisconnect'
  BY SMT, <1>1 DEF HandlerInv, OneIdentificationPerDisconnect
<1> QED BY <1>3, <1>4, <1>5 DEF HandlerInv

(* A handler that sends adds its message to what one session can read. *)
LEMMA MedAfterSend ==
  ASSUME NetTypeOK, NEW s \in Session, NEW m \in Message, Send(HandlerEnd(s), m)
  PROVE  /\ Quiet /\ inbox' \in [Endpoint -> Seq(Message)]
         /\ \A c \in Session : \A x \in Unread(MedEnd(c))' :
              x \in Unread(MedEnd(c)) \/ x = m
  BY SMT, Ends, SendAdds, MediatorTraffic

(* A handler that reads adds nothing. *)
LEMMA MedAfterReceive ==
  ASSUME NetTypeOK, NEW s \in Session, inbox[HandlerEnd(s)] # <<>>,
         Receive(HandlerEnd(s))
  PROVE  /\ Quiet /\ inbox' \in [Endpoint -> Seq(Message)]
         /\ \A c \in Session : \A x \in Unread(MedEnd(c))' : x \in Unread(MedEnd(c))
  BY Ends, ReceiveRemoves, MediatorTraffic

(* Nor does one that does neither. *)
LEMMA MedUntouched ==
  ASSUME NetTypeOK, UNCHANGED inbox
  PROVE  /\ Quiet /\ inbox' \in [Endpoint -> Seq(Message)]
         /\ \A c \in Session : \A x \in Unread(MedEnd(c))' : x \in Unread(MedEnd(c))
  BY NoTraffic DEF Unread, NetTypeOK

(***************************************************************************)
(* The steps of a handler, and HandlerThrow.  The cases that matter are    *)
(* the wait for the PeerDisconnect and the two messages that end a         *)
(* handler.                                                                *)
(***************************************************************************)
LEMMA HandlerSteps ==
  ASSUME Inv, NEW s \in Session, Handler(s) \/ HandlerAwaitTimeout(s)
  PROVE  Inv'
<1>1. /\ NetTypeOK /\ mediatorUp \in BOOLEAN /\ FakeMediatorTypeOK
      /\ HandlerDefined(s) /\ Ordered(s) /\ SessionInv /\ KeysInv /\ HandlerInv
  BY DEF Inv, HandlerInv, SessionInv, ConnectionTypeOK, MediatorConnectionTypeOK
<1>2. ASSUME NetTypeOK', Quiet, UNCHANGED <<medVars, peerVars>>, HandlerInv'
      PROVE  Inv'
  BY <1>1, <1>2, OthersKeep DEF Inv, medVars
<1>3. HandlerEnd(s) \in Endpoint
  BY Ends
<1> USE DEF HandlerGo, FakeMediatorTypeOK, Running, Returned, Disconnected
<1>4. CASE HandlerAccept(s)
  <2>1. NetTypeOK' /\ UNCHANGED <<medVars, peerVars, netVars>>
    BY <1>1, <1>4 DEF HandlerAccept, sessionVars, netVars, NetTypeOK
  <2>2. HandlerInv'
    <3>1. FakeMediatorTypeOK'
      BY <1>1, <1>4 DEF HandlerAccept
    <3>2. HandlerDefined(s)'
      BY <1>1, <1>4 DEF HandlerAccept, HandlerDefined
    <3> QED BY <1>1, <1>4, <2>1, <3>1, <3>2, MedUntouched, HandlerMove
            DEF HandlerAccept, netVars, medVars
  <2> QED BY <1>1, <1>2, <2>1, <2>2, MedUntouched DEF netVars
<1>5. CASE HandlerReceiveAdvertise(s)
  <2> DEFINE m == Head(inbox[HandlerEnd(s)])
  <2>1. /\ inbox[HandlerEnd(s)] # <<>> /\ m \in Message
        /\ m.our_key \in Key /\ m.their_key \in Key /\ m.version \in Version
    BY <1>1, <1>3, <1>5, HeadUnread, Decoded DEF HandlerReceiveAdvertise, Readable
  <2>2. PICK location \in {"quit", "abort", "challenge"} :
          handler' = [handler EXCEPT ![s] = location]
    BY <1>5 DEF HandlerReceiveAdvertise, QuitOr, Return
  <2>3. open' \in [Endpoint -> BOOLEAN]
    BY <1>1, <1>3, <1>5 DEF HandlerReceiveAdvertise, QuitOr, Return, NetTypeOK
  <2>4. FakeMediatorTypeOK'
    BY <1>1, <1>5, <2>1, <2>2 DEF HandlerReceiveAdvertise
  <2>5. HandlerDefined(s)'
    BY <1>1, <1>5, <2>1, <2>2 DEF HandlerReceiveAdvertise, HandlerDefined
  <2>6. /\ Quiet /\ inbox' \in [Endpoint -> Seq(Message)]
        /\ \A c \in Session : \A x \in Unread(MedEnd(c))' : x \in Unread(MedEnd(c))
    BY <1>1, <1>5, <2>1, MedAfterReceive DEF HandlerReceiveAdvertise
  <2>7. HandlerInv'
    BY <1>1, <1>5, <2>2, <2>4, <2>5, <2>6, HandlerMove
    DEF HandlerReceiveAdvertise, medVars
  <2> QED BY <1>2, <1>5, <2>3, <2>6, <2>7 DEF HandlerReceiveAdvertise, NetTypeOK
<1>6. CASE HandlerSendAbort(s)
  <2>1. PICK m \in Message : m = AdvertiseAbort
    BY Constructors
  <2>2. handler' = [handler EXCEPT ![s] = "aborted"]
    BY <1>6 DEF HandlerSendAbort, Return
  <2>3. open' \in [Endpoint -> BOOLEAN]
    BY <1>1, <1>3, <1>6 DEF HandlerSendAbort, Return, NetTypeOK
  <2>4. FakeMediatorTypeOK'
    BY <1>1, <1>6, <2>2 DEF HandlerSendAbort
  <2>5. HandlerDefined(s)'
    BY <1>1, <1>6, <2>2 DEF HandlerSendAbort, HandlerDefined
  <2>6. /\ Quiet /\ inbox' \in [Endpoint -> Seq(Message)]
        /\ \A c \in Session : \A x \in Unread(MedEnd(c))' :
             x \in Unread(MedEnd(c)) \/ x = m
    BY <1>1, <1>6, <2>1, MedAfterSend DEF HandlerSendAbort
  <2>7. HandlerInv'
    BY <1>1, <1>6, <2>1, <2>2, <2>4, <2>5, <2>6, HandlerMove
    DEF HandlerSendAbort, medVars, Blank, AdvertiseAbort
  <2> QED BY <1>2, <1>6, <2>3, <2>6, <2>7 DEF HandlerSendAbort, NetTypeOK
<1>7. CASE HandlerSendChallenge(s)
  <2>1. PICK m \in Message : 
          m = AdvertiseChallenge(Encrypt(advertise[s].our_key, MediatorNonce))
    BY <1>1, <1>7, Constructors, MediatorAssumption
    DEF HandlerSendChallenge, HandlerDefined, Encrypt, Cipher
  <2>2. PICK location \in {"quit", "response"} :
          handler' = [handler EXCEPT ![s] = location]
    BY <1>7 DEF HandlerSendChallenge, QuitOr, Return
  <2>3. open' \in [Endpoint -> BOOLEAN]
    BY <1>1, <1>3, <1>7 DEF HandlerSendChallenge, QuitOr, Return, NetTypeOK
  <2>4. FakeMediatorTypeOK'
    BY <1>1, <1>7, <2>2 DEF HandlerSendChallenge
  <2>5. HandlerDefined(s)'
    BY <1>1, <1>7, <2>2 DEF HandlerSendChallenge, HandlerDefined
  <2>6. /\ Quiet /\ inbox' \in [Endpoint -> Seq(Message)]
        /\ \A c \in Session : \A x \in Unread(MedEnd(c))' :
             x \in Unread(MedEnd(c)) \/ x = m
    BY <1>1, <1>7, <2>1, MedAfterSend DEF HandlerSendChallenge
  <2>7. HandlerInv'
    BY <1>1, <1>7, <2>1, <2>2, <2>4, <2>5, <2>6, HandlerMove
    DEF HandlerSendChallenge, medVars, Blank, AdvertiseChallenge
  <2> QED BY <1>2, <1>7, <2>3, <2>6, <2>7 DEF HandlerSendChallenge, NetTypeOK
<1>8. CASE HandlerReceiveResponse(s)
  <2>1. inbox[HandlerEnd(s)] # <<>>
    BY <1>8 DEF HandlerReceiveResponse, Readable
  <2>2. PICK location \in {"quit", "lookup"} :
          handler' = [handler EXCEPT ![s] = location]
    BY <1>8 DEF HandlerReceiveResponse, QuitOr, Return
  <2>3. open' \in [Endpoint -> BOOLEAN]
    BY <1>1, <1>3, <1>8 DEF HandlerReceiveResponse, QuitOr, Return, NetTypeOK
  <2>4. FakeMediatorTypeOK'
    BY <1>1, <1>8, <2>2 DEF HandlerReceiveResponse
  <2>5. HandlerDefined(s)'
    BY <1>1, <1>8, <2>2 DEF HandlerReceiveResponse, HandlerDefined
  <2>6. /\ Quiet /\ inbox' \in [Endpoint -> Seq(Message)]
        /\ \A c \in Session : \A x \in Unread(MedEnd(c))' : x \in Unread(MedEnd(c))
    BY <1>1, <1>8, <2>1, MedAfterReceive DEF HandlerReceiveResponse
  <2>7. HandlerInv'
    BY <1>1, <1>8, <2>2, <2>4, <2>5, <2>6, HandlerMove
    DEF HandlerReceiveResponse, medVars
  <2> QED BY <1>2, <1>8, <2>3, <2>6, <2>7 DEF HandlerReceiveResponse, NetTypeOK
<1>9. CASE HandlerGet(s)
  <2>1. NetTypeOK' /\ UNCHANGED <<medVars, peerVars, netVars>>
    BY <1>1, <1>9 DEF HandlerGet, sessionVars, netVars, NetTypeOK
  <2>2. PICK location \in {"putClient", "putPeer"} :
          handler' = [handler EXCEPT ![s] = location]
    BY <1>9 DEF HandlerGet
  <2>3. FakeMediatorTypeOK'
    BY <1>1, <1>9, <2>2 DEF HandlerGet
  <2>4. HandlerDefined(s)'
    BY <1>1, <1>9, <2>2 DEF HandlerGet, HandlerDefined
  <2>6. HandlerInv'
    BY <1>1, <1>9, <2>1, <2>2, <2>3, <2>4, MedUntouched, HandlerMove
    DEF HandlerGet, netVars, medVars
  <2> QED BY <1>1, <1>2, <2>1, <2>6, MedUntouched DEF netVars
<1>10. CASE HandlerPut(s)
  <2>1. NetTypeOK' /\ UNCHANGED <<medVars, peerVars, netVars>>
    BY <1>1, <1>10 DEF HandlerPut, sessionVars, netVars, NetTypeOK
  <2>2. PICK location \in {"await", "disconnect"} :
          handler' = [handler EXCEPT ![s] = location]
    BY <1>10 DEF HandlerPut
  <2>3. FakeMediatorTypeOK'
    BY <1>1, <1>10, <2>2 DEF HandlerPut, Put, HandlerDefined, PeerIdentifier, Address
  <2>4. HandlerDefined(s)'
    BY <1>1, <1>10, <2>2 DEF HandlerPut, HandlerDefined
  <2>6. HandlerInv'
    BY <1>1, <1>10, <2>1, <2>2, <2>3, <2>4, MedUntouched, HandlerMove
    DEF HandlerPut, netVars, medVars
  <2> QED BY <1>1, <1>2, <2>1, <2>6, MedUntouched DEF netVars
<1>11. CASE HandlerAwaitFound(s)
  <2>1. NetTypeOK' /\ UNCHANGED <<medVars, peerVars, netVars>>
    BY <1>1, <1>11 DEF HandlerAwaitFound, sessionVars, netVars, NetTypeOK
  <2>2. handler' = [handler EXCEPT ![s] = "waitDisconnect"]
    BY <1>11 DEF HandlerAwaitFound
  <2>a. store[advertise[s].their_key] \in PeerIdentifier
    BY <1>1, <1>11 DEF HandlerAwaitFound, HandlerDefined
  <2>3. FakeMediatorTypeOK'
    BY <1>1, <1>11, <2>2, <2>a DEF HandlerAwaitFound
  <2>4. HandlerDefined(s)'
    BY <1>1, <1>11, <2>2, <2>a DEF HandlerAwaitFound, HandlerDefined
  <2>6. HandlerInv'
    BY <1>1, <1>11, <2>1, <2>2, <2>3, <2>4, MedUntouched, HandlerMove
    DEF HandlerAwaitFound, netVars, medVars
  <2> QED BY <1>1, <1>2, <2>1, <2>6, MedUntouched DEF netVars
<1>12. CASE HandlerWaitForDisconnect(s)
  <2>1. NetTypeOK' /\ UNCHANGED <<medVars, peerVars, netVars>>
    BY <1>1, <1>12 DEF HandlerWaitForDisconnect, sessionVars, netVars, NetTypeOK
  <2>2. handler' = [handler EXCEPT ![s] = "identify"]
    BY <1>12 DEF HandlerWaitForDisconnect
  <2>3. FakeMediatorTypeOK'
    BY <1>1, <1>12, <2>2 DEF HandlerWaitForDisconnect, EraseDisconnect
  <2>4. HandlerDefined(s)'
    BY <1>1, <1>12, <2>2 DEF HandlerWaitForDisconnect, HandlerDefined
  <2>5. LET a == awaited[s].address IN
          /\ a \in Session /\ Disconnected(a)
          /\ a \notin completed' /\ completed' \subseteq completed
          /\ \A d \in Session \ {s} :
               handler[d] \in {"identify", "identified"} => awaited[d].address # a
    <3>1. awaited[s].address \in completed /\ awaited[s].address \in Session
      BY <1>1, <1>12
      DEF HandlerWaitForDisconnect, DisconnectSent, HandlerDefined,
          PeerIdentifier, Address
    <3> QED BY <1>1, <1>12, <3>1
            DEF HandlerWaitForDisconnect, EraseDisconnect, HandlerInv, Ordered
  <2>6. HandlerInv'
    BY <1>1, <1>12, <2>1, <2>2, <2>3, <2>4, <2>5, MedUntouched, HandlerMove
    DEF HandlerWaitForDisconnect, netVars, medVars
  <2> QED BY <1>1, <1>2, <2>1, <2>6, MedUntouched DEF netVars
<1>13. CASE HandlerSendIdentification(s)
  <2>0. /\ awaited[s] \in PeerIdentifier /\ awaited[s].address \in Session
        /\ handler[awaited[s].address] = "disconnected"
        /\ awaited[s].address \notin completed
        /\ \A d \in Session \ {s} :
             handler[d] \in {"identify", "identified"} =>
               awaited[d].address # awaited[s].address
    BY <1>1, <1>13
    DEF HandlerSendIdentification, HandlerDefined, Ordered, HandlerInv,
        OneIdentificationPerDisconnect, PeerIdentifier, Address
  <2>1. PICK m \in Message : 
          m = PeerIdentification(awaited[s].version, awaited[s].address)
    BY <2>0, Constructors DEF PeerIdentifier
  <2>2. handler' = [handler EXCEPT ![s] = "identified"]
    BY <1>13 DEF HandlerSendIdentification, Return
  <2>3. open' \in [Endpoint -> BOOLEAN]
    BY <1>1, <1>3, <1>13 DEF HandlerSendIdentification, Return, NetTypeOK
  <2>4. FakeMediatorTypeOK'
    BY <1>1, <1>13, <2>2 DEF HandlerSendIdentification
  <2>5. HandlerDefined(s)'
    BY <1>1, <1>13, <2>2 DEF HandlerSendIdentification, HandlerDefined
  <2>6. /\ Quiet /\ inbox' \in [Endpoint -> Seq(Message)]
        /\ \A c \in Session : \A x \in Unread(MedEnd(c))' :
             x \in Unread(MedEnd(c)) \/ x = m
    BY <1>1, <1>13, <2>1, MedAfterSend DEF HandlerSendIdentification
  <2>7. HandlerInv'
    BY <1>1, <1>13, <2>0, <2>1, <2>2, <2>4, <2>5, <2>6, HandlerMove
    DEF HandlerSendIdentification, medVars, Blank, PeerIdentification
  <2> QED BY <1>2, <1>13, <2>3, <2>6, <2>7 DEF HandlerSendIdentification, NetTypeOK
<1>14. CASE HandlerSendDisconnect(s)
  <2>1. PICK m \in Message : m = PeerDisconnect(s)
    BY Constructors DEF Address
  <2>2. handler' = [handler EXCEPT ![s] = "addDisconnect"]
    BY <1>14 DEF HandlerSendDisconnect
  <2>3. open' \in [Endpoint -> BOOLEAN]
    BY <1>1, <1>3, <1>14 DEF HandlerSendDisconnect, NetTypeOK
  <2>4. FakeMediatorTypeOK'
    BY <1>1, <1>14, <2>2 DEF HandlerSendDisconnect
  <2>5. HandlerDefined(s)'
    BY <1>1, <1>14, <2>2 DEF HandlerSendDisconnect, HandlerDefined
  <2>6. /\ Quiet /\ inbox' \in [Endpoint -> Seq(Message)]
        /\ \A c \in Session : \A x \in Unread(MedEnd(c))' :
             x \in Unread(MedEnd(c)) \/ x = m
    BY <1>1, <1>14, <2>1, MedAfterSend DEF HandlerSendDisconnect
  <2>7. HandlerInv'
    BY <1>1, <1>14, <2>1, <2>2, <2>4, <2>5, <2>6, HandlerMove
    DEF HandlerSendDisconnect, medVars, Blank, PeerDisconnect
  <2> QED BY <1>2, <1>14, <2>3, <2>6, <2>7 DEF HandlerSendDisconnect, NetTypeOK
<1>15. CASE HandlerAddDisconnect(s)
  <2>1. NetTypeOK' /\ UNCHANGED <<medVars, peerVars, inbox>>
    BY <1>1, <1>3, <1>15 DEF HandlerAddDisconnect, Return, NetTypeOK
  <2>2. handler' = [handler EXCEPT ![s] = "disconnected"]
    BY <1>15 DEF HandlerAddDisconnect, Return
  <2>3. FakeMediatorTypeOK'
    BY <1>1, <1>15, <2>2 DEF HandlerAddDisconnect, Address
  <2>4. HandlerDefined(s)'
    BY <1>1, <1>15, <2>2 DEF HandlerAddDisconnect, HandlerDefined
  <2>5. HandlerInv'
    BY <1>1, <1>15, <2>1, <2>2, <2>3, <2>4, MedUntouched, HandlerMove
    DEF HandlerAddDisconnect, medVars
  <2> QED BY <1>1, <1>2, <2>1, <2>5, MedUntouched
<1>16. CASE HandlerAwaitTimeout(s)
  <2>1. NetTypeOK' /\ UNCHANGED <<medVars, peerVars, inbox>>
    BY <1>1, <1>3, <1>16 DEF HandlerAwaitTimeout, Return, NetTypeOK
  <2>2. handler' = [handler EXCEPT ![s] = "gaveUp"]
    BY <1>16 DEF HandlerAwaitTimeout, Return
  <2>3. FakeMediatorTypeOK'
    BY <1>1, <1>16, <2>2 DEF HandlerAwaitTimeout
  <2>4. HandlerDefined(s)'
    BY <1>1, <1>16, <2>2 DEF HandlerAwaitTimeout, HandlerDefined
  <2>5. HandlerInv'
    BY <1>1, <1>16, <2>1, <2>2, <2>3, <2>4, MedUntouched, HandlerMove
    DEF HandlerAwaitTimeout, medVars
  <2> QED BY <1>1, <1>2, <2>1, <2>5, MedUntouched
<1>17. CASE HandlerThrow(s)
  <2>1. NetTypeOK' /\ mediatorUp' \in BOOLEAN
    BY <1>1, <1>17 DEF HandlerThrow, NetTypeOK
  <2>2. SessionInv' /\ KeysInv'
    BY <1>1, <1>17, <2>1, NoTraffic, OthersKeep DEF HandlerThrow
  <2>3. MedQuiet /\ UNCHANGED <<punched_peer, handlerVars>>
    BY <1>17 DEF HandlerThrow, MedQuiet, Unread
  <2> QED BY <1>1, <2>2, <2>3, HandlersUnchanged DEF Inv
<1> QED BY <1>4, <1>5, <1>6, <1>7, <1>8, <1>9, <1>10, <1>11, <1>12, <1>13,
           <1>14, <1>15, <1>16, <1>17 DEF Handler
-----------------------------------------------------------------------------
(***************************************************************************)
(* The conversation of a session with its handler: where the session is    *)
(* and what is under way, while the handler is at a given place.  With     *)
(* Exchange it makes every receive() of the system find what it expects.   *)
(***************************************************************************)
Registered == {"lookup", "putClient", "await", "waitDisconnect", "identify",
               "putPeer", "disconnect"}

Assigning == {"addDisconnect", "disconnected", "identified"}

Conversation(s) ==
  /\ handler[s] \in {"none", "advertise"} =>
       /\ pc[s] \in {"idle", "mediator", "advertise", "advertised"} \cup Final
       /\ Finds(HandlerEnd(s), {"Advertise"}) /\ inbox[MedEnd(s)] = <<>>
  /\ pc[s] \in {"idle", "mediator", "advertise"} =>
       handler[s] \in {"none", "advertise"} /\ inbox[HandlerEnd(s)] = <<>>
  /\ handler[s] \in {"abort", "challenge"} =>
       /\ pc[s] \in {"advertised"} \cup Final
       /\ inbox[MedEnd(s)] = <<>> /\ inbox[HandlerEnd(s)] = <<>>
  /\ handler[s] = "aborted" =>
       pc[s] \in {"advertised"} \cup Final /\ Finds(MedEnd(s), {"AdvertiseAbort"})
  /\ handler[s] \in {"response", "quit"} =>
       /\ pc[s] \in {"advertised", "challenged", "registered"} \cup Final
       /\ Finds(MedEnd(s), {"AdvertiseChallenge"})
       /\ pc[s] \in {"challenged", "registered"} => inbox[MedEnd(s)] = <<>>
  /\ handler[s] = "response" =>
       /\ Finds(HandlerEnd(s), {"AdvertiseResponse"})
       /\ pc[s] \in {"advertised", "challenged"} => inbox[HandlerEnd(s)] = <<>>
       /\ inbox[HandlerEnd(s)] # <<>> => inbox[MedEnd(s)] = <<>>
  /\ handler[s] \in Registered \cup {"gaveUp"} =>
       pc[s] \in {"registered"} \cup Final /\ inbox[MedEnd(s)] = <<>>
  /\ handler[s] \in Assigning =>
       /\ pc[s] \notin Unassigned \ {"registered"}
       /\ Finds(MedEnd(s), {"PeerIdentification", "PeerDisconnect"})

(***************************************************************************)
(* What keeps the handlers from throwing if no process is killed: a        *)
(* session stays connected while its handler talks to it, because the      *)
(* Mediator stays up and encrypts its nonce with the session's own key.    *)
(***************************************************************************)
Live(s) ==
  /\ open[HandlerEnd(s)] <=>
       \/ handler[s] \in Running
       \/ handler[s] = "none" /\ pc[s] \in {"advertise", "advertised"}
  /\ handler[s] \in Running \ {"addDisconnect"} =>
       pc[s] \in MediatorStage \ {"mediator"}
  /\ \A m \in Unread(HandlerEnd(s)) :
       m.type = "Advertise" => m.our_key = KeyOf[s]
  /\ \A m \in Unread(MedEnd(s)) :
       m.type = "AdvertiseChallenge" => m.encrypted_nonce.key = KeyOf[s]
  /\ handler[s] = "challenge" => advertise[s].our_key = KeyOf[s]

SystemInv ==
  /\ Inv /\ RendezvousInv
  /\ \A s \in Session : Conversation(s)
  /\ "crash" \notin Faults => mediatorUp /\ \A s \in Session : Live(s)

(***************************************************************************)
(* The steps of a handler, sorted by what they send and read.              *)
(***************************************************************************)
Thinks(s, to) ==
  /\ UNCHANGED <<inbox, advertise>>
  /\ \/ handler[s] = "none" /\ to = "advertise" /\ open[HandlerEnd(s)]
     \/ handler[s] \in Registered /\ to \in Registered \cup {"gaveUp"}
     \/ handler[s] = "addDisconnect" /\ to = "disconnected"

Listens(s, to) ==
  /\ inbox[HandlerEnd(s)] # <<>> /\ Receive(HandlerEnd(s))
  /\ \/ /\ handler[s] = "advertise" /\ to \in {"quit", "abort", "challenge"}
        /\ advertise'[s] = Head(inbox[HandlerEnd(s)])
     \/ handler[s] = "response" /\ to \in {"quit", "lookup"}

Says(s, to, m) ==
  /\ Send(HandlerEnd(s), m) /\ UNCHANGED advertise
  /\ \/ handler[s] = "abort" /\ to = "aborted" /\ m.type = "AdvertiseAbort"
     \/ /\ handler[s] = "challenge" /\ to \in {"quit", "response"}
        /\ m.type = "AdvertiseChallenge"
        /\ m.encrypted_nonce.key = advertise[s].our_key
     \/ /\ handler[s] = "identify" /\ to = "identified"
        /\ m.type = "PeerIdentification"
     \/ /\ handler[s] = "disconnect" /\ to = "addDisconnect"
        /\ m.type = "PeerDisconnect"

Moves(s, to) ==
  /\ HandlerGo(s, to)
  /\ Thinks(s, to) \/ Listens(s, to) \/ \E m \in Message : Says(s, to, m)
  /\ IF to \in Returned THEN open' = [open EXCEPT ![HandlerEnd(s)] = FALSE]
                        ELSE UNCHANGED open
  /\ \A t \in Session \ {s} : advertise'[t] = advertise[t]
  /\ UNCHANGED <<medVars, peerVars>>

LEMMA HandlerKinds ==
  ASSUME Inv, NEW s \in Session, Handler(s) \/ HandlerAwaitTimeout(s)
  PROVE  HandlerThrow(s) \/ \E to \in Running \cup Returned : Moves(s, to)
<1>1. FakeMediatorTypeOK /\ HandlerDefined(s)
  BY DEF Inv, HandlerInv
<1> USE DEF HandlerGo, Running, Returned, Registered, Moves
<1>2. CASE HandlerAccept(s)
  BY <1>2 DEF HandlerAccept, Thinks, sessionVars, netVars
<1>3. CASE HandlerGet(s)
  <2>1. PICK to \in {"putClient", "putPeer"} : HandlerGo(s, to)
    BY <1>3 DEF HandlerGet
  <2> QED BY <1>3, <2>1 DEF HandlerGet, Thinks, sessionVars, netVars
<1>4. CASE HandlerPut(s)
  <2>1. PICK to \in {"await", "disconnect"} : HandlerGo(s, to)
    BY <1>4 DEF HandlerPut
  <2> QED BY <1>4, <2>1 DEF HandlerPut, Thinks, sessionVars, netVars
<1>5. CASE HandlerAwaitFound(s)
  BY <1>5 DEF HandlerAwaitFound, Thinks, sessionVars, netVars
<1>6. CASE HandlerWaitForDisconnect(s)
  BY <1>6 DEF HandlerWaitForDisconnect, Thinks, sessionVars, netVars
<1>7. CASE HandlerAddDisconnect(s)
  BY <1>7 DEF HandlerAddDisconnect, Return, Thinks
<1>8. CASE HandlerAwaitTimeout(s)
  BY <1>8 DEF HandlerAwaitTimeout, Return, Thinks
<1>9. CASE HandlerReceiveAdvertise(s)
  <2>1. PICK to \in {"quit", "abort", "challenge"} :
          /\ HandlerGo(s, to)
          /\ IF to = "quit" THEN open' = [open EXCEPT ![HandlerEnd(s)] = FALSE]
                            ELSE UNCHANGED open
    BY <1>9 DEF HandlerReceiveAdvertise, QuitOr, Return
  <2>2. /\ handler[s] = "advertise" /\ inbox[HandlerEnd(s)] # <<>>
        /\ Receive(HandlerEnd(s)) /\ UNCHANGED <<medVars, peerVars>>
        /\ advertise' = [advertise EXCEPT ![s] = Head(inbox[HandlerEnd(s)])]
    BY <1>9 DEF HandlerReceiveAdvertise, Readable
  <2>3. /\ advertise'[s] = Head(inbox[HandlerEnd(s)])
        /\ \A t \in Session \ {s} : advertise'[t] = advertise[t]
    BY <1>1, <2>2 DEF FakeMediatorTypeOK
  <2> QED BY <2>1, <2>2, <2>3 DEF Listens
<1>10. CASE HandlerReceiveResponse(s)
  <2>1. PICK to \in {"quit", "lookup"} :
          /\ HandlerGo(s, to)
          /\ IF to = "quit" THEN open' = [open EXCEPT ![HandlerEnd(s)] = FALSE]
                            ELSE UNCHANGED open
    BY <1>10 DEF HandlerReceiveResponse, QuitOr, Return
  <2> QED BY <1>10, <2>1 DEF HandlerReceiveResponse, Readable, Listens
<1>11. CASE HandlerSendAbort(s)
  <2>1. AdvertiseAbort \in Message /\ AdvertiseAbort.type = "AdvertiseAbort"
    BY Constructors DEF AdvertiseAbort, Blank
  <2> QED BY <1>11, <2>1 DEF HandlerSendAbort, Return, Says
<1>12. CASE HandlerSendChallenge(s)
  <2>1. PICK to \in {"quit", "response"} :
          /\ HandlerGo(s, to)
          /\ IF to = "quit" THEN open' = [open EXCEPT ![HandlerEnd(s)] = FALSE]
                            ELSE UNCHANGED open
    BY <1>12 DEF HandlerSendChallenge, QuitOr, Return
  <2>2. PICK m \in Message :
          m = AdvertiseChallenge(Encrypt(advertise[s].our_key, MediatorNonce))
    BY <1>1, <1>12, Constructors, MediatorAssumption
    DEF HandlerSendChallenge, HandlerDefined, Encrypt, Cipher
  <2>3. /\ m.type = "AdvertiseChallenge"
        /\ m.encrypted_nonce.key = advertise[s].our_key
    BY <2>2 DEF AdvertiseChallenge, Blank, Encrypt
  <2> QED BY <1>12, <2>1, <2>2, <2>3 DEF HandlerSendChallenge, Says
<1>13. CASE HandlerSendIdentification(s)
  <2>1. PICK m \in Message :
          m = PeerIdentification(awaited[s].version, awaited[s].address)
    BY <1>1, <1>13, Constructors
    DEF HandlerSendIdentification, HandlerDefined, PeerIdentifier
  <2>2. m.type = "PeerIdentification"
    BY <2>1 DEF PeerIdentification, Blank
  <2> QED BY <1>13, <2>1, <2>2 DEF HandlerSendIdentification, Return, Says
<1>14. CASE HandlerSendDisconnect(s)
  <2>1. PICK m \in Message : m = PeerDisconnect(s)
    BY Constructors DEF Address
  <2>2. m.type = "PeerDisconnect"
    BY <2>1 DEF PeerDisconnect, Blank
  <2> QED BY <1>14, <2>1, <2>2 DEF HandlerSendDisconnect, Says
<1> QED BY <1>2, <1>3, <1>4, <1>5, <1>6, <1>7, <1>8, <1>9, <1>10, <1>11, <1>12,
           <1>13, <1>14 DEF Handler

(* The conversation of a session that neither takes a step nor is told. *)
LEMMA ConversationSame ==
  ASSUME NEW s \in Session, Conversation(s), pc'[s] = pc[s],
         handler'[s] = handler[s], inbox'[MedEnd(s)] = inbox[MedEnd(s)],
         inbox'[HandlerEnd(s)] = inbox[HandlerEnd(s)]
  PROVE  Conversation(s)'
<1>1. \A types : /\ Finds(MedEnd(s), types)' <=> Finds(MedEnd(s), types)
                 /\ Finds(HandlerEnd(s), types)' <=> Finds(HandlerEnd(s), types)
  BY DEF Finds
<1> QED BY <1>1 DEF Conversation

(* A handler's message reaches its session, if any, and nobody else. *)
LEMMA HandlerInboxes ==
  ASSUME NetTypeOK, NEW s \in Session
  PROVE  /\ \A m : Send(HandlerEnd(s), m) =>
              /\ \/ inbox'[MedEnd(s)] = inbox[MedEnd(s)]
                 \/ inbox'[MedEnd(s)] = Append(inbox[MedEnd(s)], m)
              /\ inbox'[HandlerEnd(s)] = inbox[HandlerEnd(s)]
              /\ \A t \in Session \ {s} :
                   /\ inbox'[MedEnd(t)] = inbox[MedEnd(t)]
                   /\ inbox'[HandlerEnd(t)] = inbox[HandlerEnd(t)]
         /\ Receive(HandlerEnd(s)) =>
              /\ inbox'[HandlerEnd(s)] = Tail(inbox[HandlerEnd(s)])
              /\ inbox'[MedEnd(s)] = inbox[MedEnd(s)]
              /\ \A t \in Session \ {s} :
                   /\ inbox'[MedEnd(t)] = inbox[MedEnd(t)]
                   /\ inbox'[HandlerEnd(t)] = inbox[HandlerEnd(t)]
  BY SMT, Ends, SendAppends, ReceiveTakes

(* And what a session says to the Mediator reaches its own handler. *)
LEMMA SessionInboxes ==
  ASSUME NetTypeOK, NEW s \in Session
  PROVE  /\ \A m : Send(MedEnd(s), m) =>
              /\ \/ inbox'[HandlerEnd(s)] = inbox[HandlerEnd(s)]
                 \/ inbox'[HandlerEnd(s)] = Append(inbox[HandlerEnd(s)], m)
              /\ inbox'[MedEnd(s)] = inbox[MedEnd(s)]
              /\ \A t \in Session \ {s} :
                   /\ inbox'[MedEnd(t)] = inbox[MedEnd(t)]
                   /\ inbox'[HandlerEnd(t)] = inbox[HandlerEnd(t)]
         /\ Receive(MedEnd(s)) =>
              /\ inbox'[MedEnd(s)] = Tail(inbox[MedEnd(s)])
              /\ inbox'[HandlerEnd(s)] = inbox[HandlerEnd(s)]
              /\ \A t \in Session \ {s} :
                   /\ inbox'[MedEnd(t)] = inbox[MedEnd(t)]
                   /\ inbox'[HandlerEnd(t)] = inbox[HandlerEnd(t)]
  BY SMT, Ends, SendAppends, ReceiveTakes

(***************************************************************************)
(* A step of a handler keeps every conversation.                           *)
(***************************************************************************)
LEMMA HandlerConverses ==
  ASSUME Inv, \A t \in Session : Conversation(t), NEW s \in Session,
         NEW to \in Running \cup Returned, Moves(s, to)
  PROVE  \A t \in Session : Conversation(t)'
<1>1. /\ NetTypeOK /\ FakeMediatorTypeOK
      /\ inbox[MedEnd(s)] \in Seq(Message) /\ inbox[HandlerEnd(s)] \in Seq(Message)
  BY Ends DEF Inv, HandlerInv, SessionInv, ConnectionTypeOK, NetTypeOK
<1>2. /\ UNCHANGED pc /\ handler'[s] = to
      /\ \A t \in Session \ {s} : handler'[t] = handler[t]
  BY <1>1 DEF Moves, HandlerGo, medVars, FakeMediatorTypeOK
<1>3. ASSUME NEW t \in Session \ {s} PROVE Conversation(t)'
  <2>1. inbox'[MedEnd(t)] = inbox[MedEnd(t)]
        /\ inbox'[HandlerEnd(t)] = inbox[HandlerEnd(t)]
    BY <1>1, HandlerInboxes DEF Moves, Thinks, Listens, Says
  <2> QED BY <1>1, <1>2, <2>1, ConversationSame
<1>4. Conversation(s) /\ pc'[s] = pc[s]
  BY <1>1, <1>2
<1>5. ASSUME Thinks(s, to) PROVE Conversation(s)'
  <2>1. \A types : /\ Finds(MedEnd(s), types)' <=> Finds(MedEnd(s), types)
                   /\ Finds(HandlerEnd(s), types)' <=> Finds(HandlerEnd(s), types)
    BY <1>5 DEF Thinks, Finds
  <2>2. Finds(MedEnd(s), {"PeerIdentification", "PeerDisconnect"})
          \/ handler[s] # "addDisconnect"
    BY <1>4 DEF Conversation, Assigning
  <2>3. UNCHANGED inbox
    BY <1>5 DEF Thinks
  <2> QED BY <1>2, <1>4, <1>5, <2>1, <2>2, <2>3
          DEF Conversation, Thinks, Registered, Assigning
<1>6. ASSUME Listens(s, to) PROVE Conversation(s)'
  <2>1. /\ inbox[HandlerEnd(s)] # <<>> /\ inbox'[MedEnd(s)] = inbox[MedEnd(s)]
        /\ inbox'[HandlerEnd(s)] = Tail(inbox[HandlerEnd(s)])
    BY <1>1, <1>6, HandlerInboxes DEF Listens
  <2>3. CASE handler[s] = "advertise" /\ to \in {"quit", "abort", "challenge"}
    <3>1. /\ Finds(HandlerEnd(s), {"Advertise"}) /\ inbox[MedEnd(s)] = <<>>
          /\ pc[s] \in {"advertised"} \cup Final
      BY <1>4, <2>1, <2>3 DEF Conversation
    <3>2. inbox'[HandlerEnd(s)] = <<>> /\ inbox'[MedEnd(s)] = <<>>
      BY <1>1, <2>1, <3>1, FindsAfter
    <3>3. Finds(MedEnd(s), {"AdvertiseChallenge"})'
      BY SMT, <3>2 DEF Finds
    <3> QED BY <1>2, <2>3, <3>1, <3>2, <3>3
            DEF Conversation, Registered, Assigning, Final
  <2>4. CASE handler[s] = "response" /\ to \in {"quit", "lookup"}
    <3>1. /\ Finds(HandlerEnd(s), {"AdvertiseResponse"}) /\ inbox[MedEnd(s)] = <<>>
          /\ pc[s] \in {"registered"} \cup Final
      BY <1>4, <2>1, <2>4 DEF Conversation
    <3>2. inbox'[MedEnd(s)] = <<>>
      BY <2>1, <3>1
    <3>3. Finds(MedEnd(s), {"AdvertiseChallenge"})'
      BY SMT, <3>2 DEF Finds
    <3> QED BY <1>2, <2>4, <3>1, <3>2, <3>3
            DEF Conversation, Registered, Assigning, Final
  <2> QED BY <1>6, <2>3, <2>4 DEF Listens
<1>7. ASSUME NEW m \in Message, Says(s, to, m) PROVE Conversation(s)'
  <2>1. /\ \/ inbox'[MedEnd(s)] = inbox[MedEnd(s)]
           \/ inbox'[MedEnd(s)] = Append(inbox[MedEnd(s)], m)
        /\ inbox'[HandlerEnd(s)] = inbox[HandlerEnd(s)]
    BY <1>1, <1>7, HandlerInboxes DEF Says
  <2>2. ASSUME NEW types, inbox[MedEnd(s)] = <<>>, m.type \in types
        PROVE  Finds(MedEnd(s), types)'
    BY <2>1, <2>2, FindsSent
  <2>3. /\ inbox[MedEnd(s)] = <<>>
        /\ handler[s] \in {"abort", "challenge", "identify", "disconnect"}
    BY <1>4, <1>7 DEF Conversation, Says, Registered
  <2>4. CASE handler[s] = "abort"
    <3>1. to = "aborted" /\ Finds(MedEnd(s), {"AdvertiseAbort"})'
          /\ pc[s] \in {"advertised"} \cup Final
      BY <1>4, <1>7, <2>2, <2>3, <2>4 DEF Says, Conversation
    <3> QED BY <1>2, <3>1 DEF Conversation, Registered, Assigning, Final
  <2>5. CASE handler[s] = "challenge"
    <3>1. /\ to \in {"quit", "response"} /\ Finds(MedEnd(s), {"AdvertiseChallenge"})'
          /\ pc[s] \in {"advertised"} \cup Final
          /\ inbox'[HandlerEnd(s)] = <<>>
      BY <1>4, <1>7, <2>1, <2>2, <2>3, <2>5 DEF Says, Conversation
    <3>2. Finds(HandlerEnd(s), {"AdvertiseResponse"})'
      BY SMT, <3>1 DEF Finds
    <3> QED BY <1>2, <3>1, <3>2 DEF Conversation, Registered, Assigning, Final
  <2>6. CASE handler[s] \in {"identify", "disconnect"}
    <3>1. /\ to \in Assigning
          /\ Finds(MedEnd(s), {"PeerIdentification", "PeerDisconnect"})'
          /\ pc[s] \in {"registered"} \cup Final
      BY <1>4, <1>7, <2>2, <2>3, <2>6 DEF Says, Conversation, Registered, Assigning
    <3> QED BY <1>2, <3>1
            DEF Conversation, Registered, Assigning, Final, Unassigned, MediatorStage
  <2> QED BY <2>3, <2>4, <2>5, <2>6
<1> QED BY <1>3, <1>5, <1>6, <1>7 DEF Moves

(***************************************************************************)
(* So does a step of a session.  It never hears AdvertiseRetry, which the  *)
(* FakeMediator does not send.                                             *)
(***************************************************************************)
LEMMA SessionConverses ==
  ASSUME Inv, \A t \in Session : Conversation(t), NEW s \in Session,
         Connect(s) \/ Thread(s) \/ Crash(s), UNCHANGED handlerVars
  PROVE  \A t \in Session : Conversation(t)'
<1>1. /\ SessionInv /\ NetTypeOK /\ ConnectionTypeOK /\ FakeMediatorTypeOK
      /\ inbox[MedEnd(s)] \in Seq(Message) /\ inbox[HandlerEnd(s)] \in Seq(Message)
      /\ \A t \in Session : Conversation(t) /\ Defined(t)
  BY Ends DEF Inv, HandlerInv, SessionInv, ConnectionTypeOK, NetTypeOK
<1>2. /\ UNCHANGED handler /\ \A t \in Session \ {s} : pc'[t] = pc[t]
      /\ pc[s] \in Final => pc'[s] \in Final
  BY <1>1, SessionDefined, ListeningStep DEF handlerVars, Same
<1>3. ASSUME NEW location, Go(s, location) PROVE pc'[s] = location
  BY <1>1, <1>3 DEF Go, ConnectionTypeOK, MediatorConnectionTypeOK
<1>4. ASSUME NEW t \in Session \ {s}, inbox'[MedEnd(t)] = inbox[MedEnd(t)],
             inbox'[HandlerEnd(t)] = inbox[HandlerEnd(t)]
      PROVE  Conversation(t)'
  BY <1>1, <1>2, <1>4, ConversationSame
<1>5. Conversation(s) /\ handler[s] \in Running \cup Returned \cup {"none"}
  BY <1>1 DEF FakeMediatorTypeOK
<1> USE DEF Running, Returned, Registered, Assigning, Unassigned, MediatorStage, Final
<1>6. ASSUME inbox'[MedEnd(s)] = inbox[MedEnd(s)],
             inbox'[HandlerEnd(s)] = inbox[HandlerEnd(s)],
             \/ pc[s] = "idle" /\ pc'[s] = "mediator"
             \/ pc[s] = "mediator" /\ pc'[s] = "advertise"
             \/ pc'[s] \in Final
             \/ pc[s] \in PeerStage /\ pc'[s] \in PeerStage \cup {"silent"}
      PROVE  Conversation(s)'
  <2>1. \A types : /\ Finds(MedEnd(s), types)' <=> Finds(MedEnd(s), types)
                   /\ Finds(HandlerEnd(s), types)' <=> Finds(HandlerEnd(s), types)
    BY <1>6 DEF Finds
  <2> QED BY SMT, <1>2, <1>5, <1>6, <2>1 DEF Conversation, PeerStage
<1>7. CASE GivesUp(s) \/ GoneOn(s)
  <2>1. Conversation(s)'
    BY <1>2, <1>6, <1>7 DEF GivesUp, GoneOn, MedSame
  <2> QED BY <1>4, <1>7, <2>1 DEF GivesUp, GoneOn, MedSame
<1>8. CASE UNCHANGED inbox /\ \/ pc[s] = "idle" /\ Go(s, "mediator")
                              \/ pc[s] = "mediator" /\ Go(s, "advertise")
  BY <1>3, <1>4, <1>6, <1>8
<1>9. ASSUME NEW from, NEW then, NEW m \in Message, Tells(s, from, then, m),
             \/ /\ from = "advertise" /\ then = "advertised"
                /\ m.type = "Advertise"
             \/ /\ from = "challenged" /\ then = "registered"
                /\ m.type = "AdvertiseResponse"
      PROVE  \A t \in Session : Conversation(t)'
  <2>1. /\ pc[s] = from /\ pc'[s] = then
        /\ \/ inbox'[HandlerEnd(s)] = inbox[HandlerEnd(s)]
           \/ inbox'[HandlerEnd(s)] = Append(inbox[HandlerEnd(s)], m)
        /\ inbox'[MedEnd(s)] = inbox[MedEnd(s)]
        /\ \A t \in Session \ {s} : /\ inbox'[MedEnd(t)] = inbox[MedEnd(t)]
                                    /\ inbox'[HandlerEnd(t)] = inbox[HandlerEnd(t)]
    BY <1>1, <1>3, <1>9, SessionInboxes DEF Tells
  <2>2. \A types : Finds(MedEnd(s), types)' <=> Finds(MedEnd(s), types)
    BY <2>1 DEF Finds
  <2>3. CASE from = "advertise"
    <3>1. handler[s] \in {"none", "advertise"} /\ inbox[HandlerEnd(s)] = <<>>
          /\ inbox[MedEnd(s)] = <<>>
      BY <1>5, <2>1, <2>3 DEF Conversation
    <3>2. Finds(HandlerEnd(s), {"Advertise"})'
      BY <1>9, <2>1, <2>3, <3>1, FindsSent
    <3>3. Conversation(s)'
      BY <1>2, <1>9, <2>1, <2>3, <3>1, <3>2 DEF Conversation
    <3> QED BY <1>4, <2>1, <3>3
  <2>4. CASE from = "challenged"
    <3>1. /\ handler[s] \in {"response", "quit"} /\ inbox[MedEnd(s)] = <<>>
          /\ handler[s] = "response" => inbox[HandlerEnd(s)] = <<>>
      BY <1>5, <2>1, <2>4 DEF Conversation
    <3>2. handler[s] = "response" => Finds(HandlerEnd(s), {"AdvertiseResponse"})'
      BY <1>9, <2>1, <2>4, <3>1, FindsSent
    <3>3. Finds(MedEnd(s), {"AdvertiseChallenge"})'
      BY SMT, <2>1, <3>1 DEF Finds
    <3>4. Conversation(s)'
      BY <1>2, <1>9, <2>1, <2>4, <3>1, <3>2, <3>3 DEF Conversation
    <3> QED BY <1>4, <2>1, <3>4
  <2> QED BY <1>9, <2>3, <2>4
<1>10. ASSUME NEW from, NEW then, NEW type, Hears(s, from, then, type),
              \/ from = "advertised" /\ then = "advertise" /\ type = "AdvertiseRetry"
              \/ from = "advertised" /\ then = "challenged"
                 /\ type = "AdvertiseChallenge"
              \/ from = "registered" /\ then \in {"client", "peer"}
                 /\ type \in {"PeerIdentification", "PeerDisconnect"}
       PROVE  \A t \in Session : Conversation(t)'
  <2>1. /\ pc[s] = from /\ pc'[s] = then
        /\ inbox[MedEnd(s)] # <<>> /\ Head(inbox[MedEnd(s)]).type = type
        /\ inbox'[MedEnd(s)] = Tail(inbox[MedEnd(s)])
        /\ inbox'[HandlerEnd(s)] = inbox[HandlerEnd(s)]
        /\ \A t \in Session \ {s} : /\ inbox'[MedEnd(t)] = inbox[MedEnd(t)]
                                    /\ inbox'[HandlerEnd(t)] = inbox[HandlerEnd(t)]
    BY <1>1, <1>3, <1>10, SessionInboxes DEF Hears
  <2>2. ASSUME NEW types, Finds(MedEnd(s), types)
        PROVE  type \in types /\ inbox'[MedEnd(s)] = <<>>
    BY <1>1, <2>1, <2>2, FindsAfter DEF Finds
  <2>3. CASE from = "advertised"
    <3>1. handler[s] \in {"response", "quit", "aborted"}
      BY <1>5, <2>1, <2>3 DEF Conversation
    <3>2. CASE handler[s] = "aborted"
      BY SMT, <1>5, <1>10, <2>2, <2>3, <3>2 DEF Conversation
    <3>3. CASE handler[s] \in {"response", "quit"}
      <4>1. /\ type = "AdvertiseChallenge" /\ inbox'[MedEnd(s)] = <<>>
            /\ handler[s] = "response" => inbox'[HandlerEnd(s)] = <<>>
        BY SMT, <1>5, <2>1, <2>2, <2>3, <3>3 DEF Conversation
      <4>2. /\ Finds(MedEnd(s), {"AdvertiseChallenge"})'
            /\ handler[s] = "response" => Finds(HandlerEnd(s), {"AdvertiseResponse"})'
        BY SMT, <4>1 DEF Finds
      <4>3. Conversation(s)'
        BY <1>2, <1>10, <2>1, <2>3, <3>3, <4>1, <4>2 DEF Conversation
      <4> QED BY <1>4, <2>1, <4>3
    <3> QED BY <3>1, <3>2, <3>3
  <2>4. CASE from = "registered"
    <3>1. handler[s] \in Assigning
      BY <1>5, <2>1, <2>4 DEF Conversation
    <3>2. inbox'[MedEnd(s)] = <<>>
      BY <1>5, <2>2, <3>1 DEF Conversation
    <3>3. Finds(MedEnd(s), {"PeerIdentification", "PeerDisconnect"})'
      BY SMT, <3>2 DEF Finds
    <3>4. Conversation(s)'
      BY <1>2, <1>10, <2>1, <2>4, <3>1, <3>3 DEF Conversation
    <3> QED BY <1>4, <2>1, <3>4
  <2> QED BY <1>10, <2>3, <2>4
<1>11. Advertise(kVersion[s], KeyOf[s], Wants[s]) \in Message
       /\ Advertise(kVersion[s], KeyOf[s], Wants[s]).type = "Advertise"
  BY Constructors, SessionAssumption DEF Advertise, Blank
<1>12. pc[s] = "challenged" => /\ AdvertiseResponse(secret[s]) \in Message
                               /\ AdvertiseResponse(secret[s]).type = "AdvertiseResponse"
  BY <1>1, Constructors DEF Defined, AdvertiseResponse, Blank
<1>13. ASSUME Tells(s, "challenged", "registered", AdvertiseResponse(secret[s]))
       PROVE  \A t \in Session : Conversation(t)'
  BY <1>9, <1>12, <1>13 DEF Tells
<1>14. CASE Converses(s)
  BY <1>8, <1>9, <1>10, <1>11, <1>13, <1>14 DEF Converses
<1> QED BY <1>1, <1>7, <1>14, MediatorSide

(***************************************************************************)
(* Live, without crashes.  First a session that neither takes a step nor   *)
(* is told anything.                                                       *)
(***************************************************************************)
LEMMA LiveSame ==
  ASSUME NEW s \in Session, Live(s), pc'[s] = pc[s], handler'[s] = handler[s],
         advertise'[s] = advertise[s],
         open'[HandlerEnd(s)] = open[HandlerEnd(s)],
         inbox'[MedEnd(s)] = inbox[MedEnd(s)],
         inbox'[HandlerEnd(s)] = inbox[HandlerEnd(s)]
  PROVE  Live(s)'
<1>1. Unread(MedEnd(s))' = Unread(MedEnd(s))
      /\ Unread(HandlerEnd(s))' = Unread(HandlerEnd(s))
  BY DEF Unread
<1> QED BY <1>1 DEF Live

(***************************************************************************)
(* A step of a handler: it accepts only a session that has just connected, *)
(* reads only while the session is connected and encrypts its nonce with   *)
(* the session's key, which it took from the session's own Advertise.      *)
(***************************************************************************)
LEMMA HandlerLive ==
  ASSUME Inv, \A t \in Session : Conversation(t) /\ Live(t),
         NEW s \in Session, NEW to \in Running \cup Returned, Moves(s, to)
  PROVE  \A t \in Session : Live(t)'
<1>1. NetTypeOK /\ FakeMediatorTypeOK
  BY DEF Inv, HandlerInv, SessionInv, ConnectionTypeOK
<1>2. /\ UNCHANGED pc /\ handler'[s] = to
      /\ \A t \in Session \ {s} : /\ handler'[t] = handler[t]
                                  /\ advertise'[t] = advertise[t]
  BY <1>1 DEF Moves, HandlerGo, medVars, FakeMediatorTypeOK
<1>3. /\ \A t \in Session \ {s} : open'[HandlerEnd(t)] = open[HandlerEnd(t)]
      /\ to \in Returned => ~open'[HandlerEnd(s)]
      /\ to \notin Returned => open'[HandlerEnd(s)] = open[HandlerEnd(s)]
  BY <1>1, Ends DEF Moves, NetTypeOK
<1>4. ASSUME NEW t \in Session \ {s} PROVE Live(t)'
  <2>1. inbox'[MedEnd(t)] = inbox[MedEnd(t)]
        /\ inbox'[HandlerEnd(t)] = inbox[HandlerEnd(t)]
    BY <1>1, HandlerInboxes DEF Moves, Thinks, Listens, Says
  <2> QED BY <1>1, <1>2, <1>3, <2>1, LiveSame
<1>5. Conversation(s) /\ Live(s) /\ pc'[s] = pc[s]
  BY <1>1, <1>2
<1>6. ASSUME handler[s] \in Running \/ (handler[s] = "none" /\ open[HandlerEnd(s)]),
             to \in Running => \/ handler[s] = "none" /\ to = "advertise"
                               \/ handler[s] \in Running \ {"addDisconnect"},
             \A m \in Unread(HandlerEnd(s))' : m \in Unread(HandlerEnd(s)),
             \A m \in Unread(MedEnd(s))' :
               \/ m \in Unread(MedEnd(s))
               \/ m.type = "AdvertiseChallenge" => m.encrypted_nonce.key = KeyOf[s],
             to = "challenge" => advertise'[s].our_key = KeyOf[s]
      PROVE  Live(s)'
  <2>1. /\ open'[HandlerEnd(s)] <=> to \in Running
        /\ to \in Running => pc[s] \in MediatorStage \ {"mediator"}
    BY <1>3, <1>5, <1>6 DEF Live, Running, Returned, MediatorStage
  <2> QED BY <1>2, <1>5, <1>6, <2>1 DEF Live, Running, Returned
<1>7. ASSUME Thinks(s, to) PROVE Live(s)'
  <2>1. Unread(MedEnd(s))' = Unread(MedEnd(s))
        /\ Unread(HandlerEnd(s))' = Unread(HandlerEnd(s))
    BY <1>7 DEF Thinks, Unread
  <2>3. /\ handler[s] \in Running \/ (handler[s] = "none" /\ open[HandlerEnd(s)])
        /\ to \in Running => \/ handler[s] = "none" /\ to = "advertise"
                             \/ handler[s] \in Running \ {"addDisconnect"}
        /\ to # "challenge"
    BY <1>7 DEF Thinks, Registered, Running
  <2> QED BY <1>6, <2>1, <2>3
<1>8. ASSUME Listens(s, to) PROVE Live(s)'
  <2>1. /\ Unread(HandlerEnd(s))' \subseteq Unread(HandlerEnd(s))
        /\ Unread(MedEnd(s))' \subseteq Unread(MedEnd(s))
    BY <1>1, <1>8, ReceiveRemoves, Ends DEF Listens
  <2>2. to = "challenge" => advertise'[s].our_key = KeyOf[s]
    <3>1. Head(inbox[HandlerEnd(s)]) \in Unread(HandlerEnd(s))
      BY <1>1, <1>8, HeadUnread, Ends DEF Listens
    <3>2. handler[s] = "advertise" => Head(inbox[HandlerEnd(s)]).type = "Advertise"
      BY <1>5, <1>8 DEF Conversation, Finds, Listens
    <3>3. to = "challenge" => /\ handler[s] = "advertise"
                              /\ advertise'[s] = Head(inbox[HandlerEnd(s)])
      BY <1>8 DEF Listens
    <3>4. Head(inbox[HandlerEnd(s)]).type = "Advertise" =>
            Head(inbox[HandlerEnd(s)]).our_key = KeyOf[s]
      BY <1>5, <3>1 DEF Live
    <3> QED BY <3>2, <3>3, <3>4
  <2>3. /\ handler[s] \in Running \/ (handler[s] = "none" /\ open[HandlerEnd(s)])
        /\ to \in Running => \/ handler[s] = "none" /\ to = "advertise"
                             \/ handler[s] \in Running \ {"addDisconnect"}
    BY <1>8 DEF Listens, Running
  <2> QED BY <1>6, <2>1, <2>2, <2>3
<1>9. ASSUME NEW m \in Message, Says(s, to, m) PROVE Live(s)'
  <2>1. /\ \A x \in Unread(HandlerEnd(s))' : x \in Unread(HandlerEnd(s))
        /\ \A x \in Unread(MedEnd(s))' : x \in Unread(MedEnd(s)) \/ x = m
    BY SMT, <1>1, <1>9, SendAdds, Ends DEF Says
  <2>2. m.type = "AdvertiseChallenge" => m.encrypted_nonce.key = KeyOf[s]
    BY <1>5, <1>9 DEF Says, Live
  <2>3. /\ handler[s] \in Running \/ (handler[s] = "none" /\ open[HandlerEnd(s)])
        /\ to \in Running => \/ handler[s] = "none" /\ to = "advertise"
                             \/ handler[s] \in Running \ {"addDisconnect"}
        /\ to # "challenge"
    BY <1>9 DEF Says, Running
  <2> QED BY <1>6, <2>1, <2>2, <2>3
<1> QED BY <1>4, <1>7, <1>8, <1>9 DEF Moves

(***************************************************************************)
(* No handler throws: its session is still connected, and what it finds is *)
(* the message that it decodes.                                            *)
(***************************************************************************)
LEMMA NoHandlerThrows ==
  ASSUME NetTypeOK, NEW s \in Session, Conversation(s), Live(s), Progress(s)
  PROVE  ~HandlerThrow(s)
<1>1. handler[s] \in Running \ {"addDisconnect"} => open[Far(HandlerEnd(s))]
  BY Ends DEF Live, Progress, AtMediator, MediatorStage
<1>2. handler[s] \in {"advertise", "response", "abort", "challenge", "identify",
                      "disconnect"} => open[Far(HandlerEnd(s))]
  BY <1>1 DEF Running
<1>3. ASSUME NEW T \in {"Advertise", "AdvertiseResponse"},
             Finds(HandlerEnd(s), {T})
      PROVE  ~Undecodable(HandlerEnd(s), T)
  <2>1. inbox[HandlerEnd(s)] \in Seq(Message) /\ ~(Len(inbox[HandlerEnd(s)]) > 1)
    BY SMT, <1>3, Ends DEF Finds, NetTypeOK
  <2>2. inbox[HandlerEnd(s)] # <<>> => Head(inbox[HandlerEnd(s)]).type = T
    BY <1>3 DEF Finds
  <2>3. ASSUME inbox[HandlerEnd(s)] # <<>> PROVE Decodes(T, Head(inbox[HandlerEnd(s)]))
    BY <2>2, <2>3 DEF Decodes, DecodesType, MessageType
  <2> QED BY <2>1, <2>3 DEF Undecodable
<1>4. /\ handler[s] = "advertise" => Finds(HandlerEnd(s), {"Advertise"})
      /\ handler[s] = "response" => Finds(HandlerEnd(s), {"AdvertiseResponse"})
  BY DEF Conversation
<1> QED BY <1>2, <1>3, <1>4 DEF HandlerThrow, AtEof, SendMayThrow

(***************************************************************************)
(* A step of a session.  While its handler runs it neither loses the       *)
(* connection nor reads what makes it give up, so it hangs up only after   *)
(* the handler has told it its part or has returned.                       *)
(***************************************************************************)
LEMMA SessionLive ==
  ASSUME Inv, \A t \in Session : Conversation(t) /\ Live(t),
         NEW s \in Session, Connect(s) \/ Thread(s), UNCHANGED handlerVars
  PROVE  \A t \in Session : Live(t)'
<1>1. /\ SessionInv /\ NetTypeOK /\ ConnectionTypeOK /\ FakeMediatorTypeOK
      /\ \A t \in Session : Conversation(t) /\ Defined(t) /\ Live(t)
  BY DEF Inv, HandlerInv, SessionInv, ConnectionTypeOK
<1>2. /\ UNCHANGED <<handler, advertise>>
      /\ \A t \in Session \ {s} : pc'[t] = pc[t]
      /\ pc[s] \in Final => pc'[s] \in Final
  BY <1>1, SessionDefined, ListeningStep DEF handlerVars, Same
<1>3. ASSUME NEW location, Go(s, location) PROVE pc'[s] = location
  BY <1>1, <1>3 DEF Go, ConnectionTypeOK, MediatorConnectionTypeOK
<1>4. ASSUME NEW t \in Session \ {s}, inbox'[MedEnd(t)] = inbox[MedEnd(t)],
             inbox'[HandlerEnd(t)] = inbox[HandlerEnd(t)],
             open'[HandlerEnd(t)] = open[HandlerEnd(t)]
      PROVE  Live(t)'
  BY <1>1, <1>2, <1>4, LiveSame
<1>5. Conversation(s) /\ Live(s) /\ handler[s] \in Running \cup Returned \cup {"none"}
  BY <1>1 DEF FakeMediatorTypeOK
<1>6. ASSUME open'[HandlerEnd(s)] <=>
               \/ handler[s] \in Running
               \/ handler[s] = "none" /\ pc'[s] \in {"advertise", "advertised"},
             handler[s] \in Running \ {"addDisconnect"} =>
               pc'[s] \in MediatorStage \ {"mediator"},
             \A m \in Unread(HandlerEnd(s))' :
               \/ m \in Unread(HandlerEnd(s))
               \/ m.type = "Advertise" => m.our_key = KeyOf[s],
             \A m \in Unread(MedEnd(s))' : m \in Unread(MedEnd(s))
      PROVE  Live(s)'
  BY <1>2, <1>5, <1>6 DEF Live
<1>7. ASSUME inbox'[MedEnd(s)] = inbox[MedEnd(s)],
             inbox'[HandlerEnd(s)] = inbox[HandlerEnd(s)]
      PROVE  /\ \A m \in Unread(HandlerEnd(s))' : m \in Unread(HandlerEnd(s))
             /\ \A m \in Unread(MedEnd(s))' : m \in Unread(MedEnd(s))
  BY <1>7 DEF Unread
<1>8. CASE UNCHANGED <<inbox, open>> /\ pc[s] = "idle" /\ Go(s, "mediator")
  <2>1. handler[s] \notin Running
    BY <1>5, <1>8 DEF Conversation, Live, MediatorStage, Running
  <2>2. Live(s)'
    BY <1>3, <1>5, <1>6, <1>7, <1>8, <2>1 DEF Live
  <2> QED BY <1>4, <1>8, <2>2
<1>9. CASE UNCHANGED inbox /\ pc[s] = "mediator" /\ Go(s, "advertise")
           /\ Establish(MedEnd(s))
  <2>1. handler[s] = "none"
    BY <1>5, <1>9 DEF Conversation, Live, MediatorStage, Running
  <2>2. /\ open'[HandlerEnd(s)]
        /\ \A t \in Session \ {s} : open'[HandlerEnd(t)] = open[HandlerEnd(t)]
    BY SMT, <1>1, <1>9, EstablishOpens, Ends
  <2>3. Live(s)'
    BY <1>3, <1>6, <1>7, <1>9, <2>1, <2>2 DEF Running
  <2> QED BY <1>4, <1>9, <2>2, <2>3
<1>10. ASSUME NEW from, NEW then, NEW m \in Message, Tells(s, from, then, m),
              m.type = "Advertise" => m.our_key = KeyOf[s],
              \/ from = "advertise" /\ then = "advertised"
              \/ from = "challenged" /\ then = "registered"
       PROVE  \A t \in Session : Live(t)'
  <2>1. /\ pc[s] = from /\ pc'[s] = then /\ UNCHANGED open
        /\ \A t \in Session \ {s} : /\ inbox'[MedEnd(t)] = inbox[MedEnd(t)]
                                    /\ inbox'[HandlerEnd(t)] = inbox[HandlerEnd(t)]
    BY <1>1, <1>3, <1>10, SessionInboxes DEF Tells
  <2>2. /\ \A x \in Unread(HandlerEnd(s))' : x \in Unread(HandlerEnd(s)) \/ x = m
        /\ \A x \in Unread(MedEnd(s))' : x \in Unread(MedEnd(s))
    BY SMT, <1>1, <1>10, SendAdds, Ends DEF Tells
  <2>3. open'[HandlerEnd(s)] <=>
          \/ handler[s] \in Running
          \/ handler[s] = "none" /\ pc'[s] \in {"advertise", "advertised"}
    BY <1>5, <1>10, <2>1 DEF Live
  <2>4. handler[s] \in Running \ {"addDisconnect"} =>
          pc'[s] \in MediatorStage \ {"mediator"}
    BY <1>10, <2>1 DEF MediatorStage
  <2>5. Live(s)'
    BY <1>6, <1>10, <2>2, <2>3, <2>4
  <2> QED BY <1>4, <2>1, <2>5
<1>11. ASSUME NEW from, NEW then, NEW type, Hears(s, from, then, type),
              \/ from = "advertised" /\ then = "advertise"
              \/ from = "advertised" /\ then = "challenged"
              \/ from = "registered" /\ then \in {"client", "peer"}
       PROVE  \A t \in Session : Live(t)'
  <2>1. /\ pc[s] = from /\ pc'[s] = then /\ UNCHANGED open
        /\ inbox[MedEnd(s)] # <<>>
        /\ \A t \in Session \ {s} : /\ inbox'[MedEnd(t)] = inbox[MedEnd(t)]
                                    /\ inbox'[HandlerEnd(t)] = inbox[HandlerEnd(t)]
    BY <1>1, <1>3, <1>11, SessionInboxes DEF Hears
  <2>2. /\ \A x \in Unread(HandlerEnd(s))' : x \in Unread(HandlerEnd(s))
        /\ \A x \in Unread(MedEnd(s))' : x \in Unread(MedEnd(s))
    BY <1>1, <1>11, ReceiveRemoves, Ends DEF Hears
  <2>3. /\ handler[s] # "none"
        /\ from = "registered" => handler[s] \in Assigning \cup {"response", "quit"}
        /\ from = "registered" => handler[s] \notin {"response", "quit"}
    BY <1>5, <1>11, <2>1
    DEF Conversation, Running, Returned, Registered, Assigning, Final
  <2>4. handler[s] \in Running \ {"addDisconnect"} =>
          pc'[s] \in MediatorStage \ {"mediator"}
    BY <1>11, <2>1, <2>3 DEF MediatorStage, Assigning, Running
  <2>5. open'[HandlerEnd(s)] <=>
          \/ handler[s] \in Running
          \/ handler[s] = "none" /\ pc'[s] \in {"advertise", "advertised"}
    BY <1>5, <2>1, <2>3 DEF Live
  <2>6. Live(s)'
    BY <1>6, <2>2, <2>4, <2>5
  <2> QED BY <1>4, <2>1, <2>6
<1>12. CASE GivesUp(s) \/ GoneOn(s)
  <2>1. /\ inbox'[MedEnd(s)] = inbox[MedEnd(s)]
        /\ inbox'[HandlerEnd(s)] = inbox[HandlerEnd(s)]
        /\ open'[HandlerEnd(s)] = open[HandlerEnd(s)]
        /\ \A t \in Session \ {s} : /\ inbox'[MedEnd(t)] = inbox[MedEnd(t)]
                                    /\ inbox'[HandlerEnd(t)] = inbox[HandlerEnd(t)]
                                    /\ open'[HandlerEnd(t)] = open[HandlerEnd(t)]
    BY <1>12 DEF GivesUp, GoneOn, MedSame
  <2>2. /\ handler[s] \notin Running \ {"addDisconnect"}
        /\ handler[s] = "none" => pc[s] \notin {"advertise", "advertised"}
    <3>1. CASE GoneOn(s)
      BY <1>5, <3>1 DEF GoneOn, Live, MediatorStage, PeerStage, Final
    <3>2. ASSUME GivesUp(s), handler[s] \in Running \ {"addDisconnect"}
                 \/ (handler[s] = "none" /\ pc[s] \in {"advertise", "advertised"})
          PROVE  FALSE
      <4>1. /\ open[HandlerEnd(s)] /\ pc[s] \in MediatorStage \ {"mediator"}
            /\ Stuck(s)
        BY <1>1, <1>5, <3>2, NotKilled DEF Live, GivesUp, MediatorStage
      <4>2. /\ pc[s] \in {"advertised", "registered"} /\ inbox[MedEnd(s)] # <<>>
            /\ \/ Len(inbox[MedEnd(s)]) > 1
               \/ pc[s] = "advertised" /\
                    (Head(inbox[MedEnd(s)]).type = "AdvertiseChallenge" =>
                       Head(inbox[MedEnd(s)]).encrypted_nonce.key # KeyOf[s])
               \/ pc[s] = "registered" /\ Head(inbox[MedEnd(s)]).type
                    \notin {"PeerIdentification", "PeerDisconnect"}
        BY <4>1 DEF Stuck
      <4>3. /\ handler[s] = "response" /\ pc[s] = "advertised"
            /\ Finds(MedEnd(s), {"AdvertiseChallenge"})
        BY <1>5, <3>2, <4>2 DEF Conversation, Running, Registered, Final
      <4>4. /\ ~(Len(inbox[MedEnd(s)]) > 1)
            /\ Head(inbox[MedEnd(s)]).type = "AdvertiseChallenge"
            /\ Head(inbox[MedEnd(s)]) \in Unread(MedEnd(s))
        <5>1. inbox[MedEnd(s)] \in Seq(Message)
          BY <1>1, Ends DEF NetTypeOK
        <5> QED BY SMT, <1>1, <4>2, <4>3, <5>1, HeadUnread, Ends DEF Finds
      <4> QED BY <1>5, <4>2, <4>3, <4>4 DEF Live
    <3> QED BY <1>12, <3>1, <3>2
  <2>3. handler[s] = "none" => pc'[s] \notin {"advertise", "advertised"}
    BY <1>12 DEF GivesUp, GoneOn, Final, PeerStage
  <2>4. open'[HandlerEnd(s)] <=>
          \/ handler[s] \in Running
          \/ handler[s] = "none" /\ pc'[s] \in {"advertise", "advertised"}
    BY <1>5, <2>1, <2>2, <2>3 DEF Live
  <2>5. Live(s)'
    BY <1>6, <1>7, <2>1, <2>2, <2>4
  <2> QED BY <1>4, <2>1, <2>5
<1>13. /\ Advertise(kVersion[s], KeyOf[s], Wants[s]) \in Message
       /\ Advertise(kVersion[s], KeyOf[s], Wants[s]).our_key = KeyOf[s]
  BY Constructors, SessionAssumption DEF Advertise, Blank
<1>14. pc[s] = "challenged" => /\ AdvertiseResponse(secret[s]) \in Message
                               /\ AdvertiseResponse(secret[s]).type = "AdvertiseResponse"
  BY <1>1, Constructors DEF Defined, AdvertiseResponse, Blank
<1>15. ASSUME Tells(s, "challenged", "registered", AdvertiseResponse(secret[s]))
       PROVE  \A t \in Session : Live(t)'
  BY <1>10, <1>14, <1>15 DEF Tells
<1>16. CASE Converses(s)
  BY <1>8, <1>9, <1>10, <1>11, <1>13, <1>15, <1>16 DEF Converses
<1> QED BY <1>1, <1>12, <1>16, MediatorSide

(***************************************************************************)
(* The Mediator does not touch what the sessions say to each other.        *)
(***************************************************************************)
LEMMA HandlerRendezvous ==
  ASSUME Inv, RendezvousInv, NEW s \in Session,
         Handler(s) \/ HandlerAwaitTimeout(s)
  PROVE  RendezvousInv' /\ UNCHANGED <<verdict, punched_peer, peerVars>>
<1>1. NetTypeOK /\ SessionInv
  BY DEF Inv, SessionInv, ConnectionTypeOK
<1>2. ASSUME NEW c \in Session
      PROVE  \A e \in {MedEnd(c), ClientEnd(c), PeerEnd(c)} :
               /\ e \in Endpoint /\ open[e] \in BOOLEAN
               /\ ~\E t \in Session : e = HandlerEnd(t)
  BY <1>1, Ends DEF NetTypeOK
<1>3. CASE HandlerThrow(s)
  <2>1. UNCHANGED <<inbox, pc, verdict, connected, punched_peer,
                    peer_disconnect, secret, peerVars>>
    BY <1>3 DEF HandlerThrow
  <2>2. ASSUME NEW c \in Session
        PROVE  \A e \in {MedEnd(c), ClientEnd(c), PeerEnd(c)} : open'[e] = open[e]
    BY <1>2, <1>3 DEF HandlerThrow
  <2> QED BY <1>1, <2>1, <2>2, OthersRendezvous DEF SameInbox
<1>4. ASSUME NEW to \in Running \cup Returned, Moves(s, to)
      PROVE  RendezvousInv' /\ UNCHANGED <<verdict, punched_peer, peerVars>>
  <2>1. UNCHANGED <<pc, verdict, connected, punched_peer, peer_disconnect,
                    secret, peerVars>>
    BY <1>4 DEF Moves, medVars
  <2>2. ASSUME NEW c \in Session
        PROVE  \A e \in {MedEnd(c), ClientEnd(c), PeerEnd(c)} : open'[e] = open[e]
    BY <1>1, <1>2, <1>4 DEF Moves, NetTypeOK
  <2>3. P2pSame
    <3>1. UNCHANGED inbox => P2pSame
      BY DEF P2pSame
    <3> QED BY <1>1, <1>4, <3>1, MediatorSame DEF Moves, Thinks, Listens, Says
  <2> QED BY <1>1, <2>1, <2>2, <2>3, OthersRendezvous DEF P2pSame, SameInbox
<1> QED BY <1>3, <1>4, HandlerKinds
-----------------------------------------------------------------------------
(***************************************************************************)
(* Inv is an inductive invariant of the system.                            *)
(***************************************************************************)
LEMMA Initially ==
  ASSUME Init
  PROVE  Inv
<1>1. SessionInv /\ KeysInv
  BY InitKeys DEF Init
<1>2. Blank \in Message
  BY Constructors DEF ApplicationData
<1>3. FakeMediatorTypeOK
  BY <1>2 DEF Init, FakeMediatorInit, FakeMediatorTypeOK
<1>4. ASSUME NEW s \in Session PROVE HandlerDefined(s) /\ Ordered(s)
  <2>1. /\ handler[s] = "none" /\ completed = {} /\ punched_peer[s] = None
        /\ inbox[MedEnd(s)] = <<>>
    BY Ends
    DEF Init, FakeMediatorInit, ConnectionInit, NetInit, MediatorConnectionInit
  <2>2. Unread(MedEnd(s)) = {}
    BY SMT, <2>1 DEF Unread
  <2> QED BY <2>1, <2>2 DEF HandlerDefined, Ordered, Running
<1>5. OneIdentificationPerDisconnect
  BY DEF Init, FakeMediatorInit, OneIdentificationPerDisconnect
<1> QED BY <1>1, <1>3, <1>4, <1>5 DEF Inv, HandlerInv

LEMMA InvHolds == Spec => []Inv
<1>1. Init => Inv
  BY Initially
<1>2. Inv /\ [Next]_vars => Inv'
  <2> SUFFICES ASSUME Inv, [Next]_vars PROVE Inv'
    OBVIOUS
  <2>1. CASE UNCHANGED vars
    <3>1. NetTypeOK' /\ mediatorUp' \in BOOLEAN
      BY <2>1
      DEF vars, sessionVars, netVars, medVars, Inv, SessionInv, ConnectionTypeOK,
          NetTypeOK, MediatorConnectionTypeOK
    <3>2. SessionInv' /\ KeysInv'
      BY <2>1, <3>1, NoTraffic, OthersKeep
      DEF vars, sessionVars, netVars, medVars, Inv
    <3>3. HandlerInv'
      BY <2>1, HandlersUnchanged
      DEF vars, sessionVars, netVars, medVars, Inv, MedQuiet, Unread
    <3> QED BY <3>2, <3>3 DEF Inv
  <2>2. ASSUME NEW s \in Session, Connect(s) \/ Thread(s) \/ Crash(s),
               UNCHANGED handlerVars
        PROVE  Inv'
    BY <2>2, SessionDefined, SessionKeys, SessionKeepsHandlers DEF Inv
  <2> QED BY <2>1, <2>2, HandlerSteps DEF Next, Start, SessionStep, SessionCrash
<1> QED BY <1>1, <1>2, PTL DEF Spec

(***************************************************************************)
(* Every variable of the sessions and of the Mediator keeps its type.      *)
(***************************************************************************)
THEOREM TypeCorrect == Spec => []TypeOK
<1>1. Inv => TypeOK
  BY DEF Inv, SessionInv, HandlerInv, TypeOK
<1> QED BY <1>1, InvHolds, PTL

(***************************************************************************)
(* A socket that connect hands out leads to a holder of the wanted key.    *)
(***************************************************************************)
THEOREM AuthenticatedHolds == Spec => []Authenticated
<1>1. Inv => Authenticated
  BY KeysAuthenticate DEF Inv
<1> QED BY <1>1, InvHolds, PTL

(***************************************************************************)
(* A session learns its Peer's address only after the Mediator has sent    *)
(* that Peer its PeerDisconnect.                                           *)
(***************************************************************************)
THEOREM DisconnectComesFirst == Spec => []DisconnectSentFirst
<1>1. Inv => DisconnectSentFirst
  BY DEF Inv, HandlerInv, Ordered, Disconnected, DisconnectSentFirst
<1> QED BY <1>1, InvHolds, PTL

(***************************************************************************)
(* One PeerDisconnect leads to at most one PeerIdentification.             *)
(***************************************************************************)
THEOREM OneClientPerDisconnect == Spec => []OneIdentificationPerDisconnect
<1>1. Inv => OneIdentificationPerDisconnect
  BY DEF Inv, HandlerInv
<1> QED BY <1>1, InvHolds, PTL
-----------------------------------------------------------------------------
(***************************************************************************)
(* SystemInv is an inductive invariant of the system.                      *)
(***************************************************************************)
LEMMA SystemInitially ==
  ASSUME Init, Inv
  PROVE  SystemInv /\ mediatorUp /\ \A s \in Session : Live(s)
<1>1. RendezvousInv /\ mediatorUp
  BY InitRendezvous DEF Init, ConnectionInit, MediatorConnectionInit
<1>2. ASSUME NEW s \in Session PROVE Conversation(s) /\ Live(s)
  <2>1. /\ inbox[MedEnd(s)] = <<>> /\ inbox[HandlerEnd(s)] = <<>>
        /\ ~open[HandlerEnd(s)] /\ handler[s] = "none" /\ pc[s] = "idle"
    BY Ends
    DEF Init, FakeMediatorInit, ConnectionInit, NetInit, MediatorConnectionInit
  <2>2. /\ Finds(HandlerEnd(s), {"Advertise"})
        /\ Unread(MedEnd(s)) = {} /\ Unread(HandlerEnd(s)) = {}
    BY SMT, <2>1 DEF Finds, Unread
  <2> QED BY <2>1, <2>2 DEF Conversation, Live, Registered, Assigning, Running
<1> QED BY <1>1, <1>2 DEF SystemInv

LEMMA SystemStep ==
  ASSUME SystemInv, Inv', [Next]_vars
  PROVE  SystemInv'
<1>1. CASE UNCHANGED vars
  <2>1. /\ UNCHANGED <<handler, advertise, pc, verdict, connected, punched_peer,
                       peer_disconnect, secret, peerVars>>
        /\ UNCHANGED <<inbox, open, mediatorUp>>
    BY <1>1 DEF vars, sessionVars, netVars, medVars, handlerVars
  <2>2. RendezvousInv'
    BY <2>1, OthersRendezvous DEF SystemInv, Inv, SameInbox
  <2>3. \A t \in Session : Conversation(t)'
    BY <2>1, ConversationSame DEF SystemInv
  <2>4. "crash" \notin Faults => \A t \in Session : Live(t)'
    BY <2>1, LiveSame DEF SystemInv
  <2> QED BY <2>1, <2>2, <2>3, <2>4 DEF SystemInv
<1>2. ASSUME NEW s \in Session, Connect(s) \/ Thread(s) \/ Crash(s),
             UNCHANGED handlerVars
      PROVE  SystemInv'
  <2>1. RendezvousInv'
    BY <1>2, SessionRendezvous DEF SystemInv, Inv
  <2>2. \A t \in Session : Conversation(t)'
    BY <1>2, SessionConverses DEF SystemInv
  <2>3. "crash" \notin Faults => \A t \in Session : Live(t)'
    BY <1>2, SessionLive DEF SystemInv, Crash
  <2>4. UNCHANGED mediatorUp
    BY <1>2, MediatorSide DEF SystemInv, Inv
  <2> QED BY <2>1, <2>2, <2>3, <2>4 DEF SystemInv
<1>3. ASSUME NEW s \in Session, Handler(s) \/ HandlerAwaitTimeout(s)
      PROVE  SystemInv'
  <2>1. RendezvousInv'
    BY <1>3, HandlerRendezvous DEF SystemInv
  <2>2. CASE HandlerThrow(s)
    <3>1. "crash" \in Faults
      BY <2>2, NoHandlerThrows
      DEF SystemInv, Inv, SessionInv, ConnectionTypeOK, RendezvousInv
    <3>2. \A t \in Session : Conversation(t)'
      BY <2>2, ConversationSame DEF HandlerThrow, handlerVars, SystemInv
    <3> QED BY <2>1, <3>1, <3>2 DEF SystemInv
  <2>3. ASSUME NEW to \in Running \cup Returned, Moves(s, to)
        PROVE  SystemInv'
    <3>1. \A t \in Session : Conversation(t)'
      BY <2>3, HandlerConverses DEF SystemInv
    <3>2. "crash" \notin Faults => \A t \in Session : Live(t)'
      BY <2>3, HandlerLive DEF SystemInv
    <3>3. UNCHANGED mediatorUp
      BY <2>3 DEF Moves, medVars
    <3> QED BY <2>1, <3>1, <3>2, <3>3 DEF SystemInv
  <2> QED BY <1>3, <2>2, <2>3, HandlerKinds DEF SystemInv
<1> QED BY <1>1, <1>2, <1>3 DEF Next, Start, SessionStep, SessionCrash

LEMMA SystemInvHolds == Spec => []SystemInv
<1>1. Init /\ Inv => SystemInv
  BY SystemInitially
<1>2. SystemInv /\ Inv' /\ [Next]_vars => SystemInv'
  BY SystemStep
<1> QED BY <1>1, <1>2, InvHolds, PTL DEF Spec

(***************************************************************************)
(* A Client that calls back with a socket was verified by the Peer at the  *)
(* other end, whatever the interleaving of sessions, handlers and faults.  *)
(***************************************************************************)
THEOREM ClientHasPeer == Spec => []ClientImpliesPeer
<1>1. SystemInv => ClientImpliesPeer
  BY RendezvousPromises DEF SystemInv, Inv
<1> QED BY <1>1, SystemInvHolds, PTL

(***************************************************************************)
(* The other way around, as long as no Peer uses its socket before the     *)
(* Client has read the acknowledgement.                                    *)
(***************************************************************************)
THEOREM PeerHasClient ==
  ASSUME "peer" \notin TalkRoles
  PROVE  Spec => []PeerImpliesClient
<1>1. SystemInv => PeerImpliesClient
  BY RendezvousPromises DEF SystemInv, Inv
<1> QED BY <1>1, SystemInvHolds, PTL

(***************************************************************************)
(* The error a callback gets tells how far its session came.               *)
(***************************************************************************)
THEOREM ErrorKindHolds == Spec => []ErrorKindIsTruthful
<1>1. SystemInv => ErrorKindIsTruthful
  BY ProgressPromises DEF SystemInv, RendezvousInv, Inv
<1> QED BY <1>1, SystemInvHolds, PTL

(***************************************************************************)
(* The assertions behind MediatorConnection::close_socket hold.            *)
(***************************************************************************)
THEOREM CloseHolds == Spec => []CloseIsLegal
<1>1. SystemInv => CloseIsLegal
  BY ProgressPromises DEF SystemInv, RendezvousInv, Inv
<1> QED BY <1>1, SystemInvHolds, PTL

(***************************************************************************)
(* Every receive() of the handshakes, in sessions and in handlers, finds   *)
(* at most the one message it decodes, as long as no Peer sends            *)
(* application data right behind its acknowledgement.                      *)
(***************************************************************************)
THEOREM LockStepHolds ==
  ASSUME "peer" \notin TalkRoles
  PROVE  Spec => []LockStep
<1>1. SystemInv => LockStep
  <2> SUFFICES ASSUME SystemInv, NEW s \in Session
               PROVE  /\ pc[s] = "advertised" =>
                           Finds(MedEnd(s), {"AdvertiseChallenge", "AdvertiseAbort"})
                      /\ pc[s] = "registered" =>
                           Finds(MedEnd(s), {"PeerIdentification", "PeerDisconnect"})
                      /\ pc[s] \in {"challenging", "answered", "accepted", "replied"}
                           => Finds(P2pEnd(s), {Awaited(pc[s])})
                      /\ handler[s] = "advertise" =>
                           Finds(HandlerEnd(s), {"Advertise"})
                      /\ handler[s] = "response" =>
                           Finds(HandlerEnd(s), {"AdvertiseResponse"})
    BY DEF LockStep
  <2>1. /\ Conversation(s) /\ inbox[MedEnd(s)] \in Seq(Message)
        /\ handler[s] \in Running \cup Returned \cup {"none"}
    BY Ends
    DEF SystemInv, Inv, SessionInv, HandlerInv, ConnectionTypeOK, NetTypeOK,
        FakeMediatorTypeOK
  <2>2. \A types : inbox[MedEnd(s)] = <<>> => Finds(MedEnd(s), types)
    BY <2>1, FindsAfter
  <2>3. pc[s] = "advertised" =>
          Finds(MedEnd(s), {"AdvertiseChallenge", "AdvertiseAbort"})
    <3>1. pc[s] = "advertised" =>
            \/ inbox[MedEnd(s)] = <<>>
            \/ Finds(MedEnd(s), {"AdvertiseChallenge"})
            \/ Finds(MedEnd(s), {"AdvertiseAbort"})
      BY <2>1
      DEF Conversation, Running, Returned, Registered, Assigning, Final, Unassigned,
          MediatorStage
    <3> QED BY <2>2, <3>1 DEF Finds
  <2>4. pc[s] = "registered" =>
          Finds(MedEnd(s), {"PeerIdentification", "PeerDisconnect"})
    BY <2>1, <2>2 DEF Conversation, Running, Returned, Registered, Assigning, Final
  <2>5. pc[s] \in {"challenging", "answered", "accepted", "replied"} =>
          Finds(P2pEnd(s), {Awaited(pc[s])})
    BY HandshakeLockStep DEF SystemInv, Inv
  <2> QED BY <2>1, <2>3, <2>4, <2>5 DEF Conversation
<1> QED BY <1>1, SystemInvHolds, PTL

(***************************************************************************)
(* As long as no process is killed, no handler thread of the FakeMediator  *)
(* ends with an exception, whatever the sessions do and whatever else      *)
(* fails.                                                                  *)
(***************************************************************************)
THEOREM MediatorHolds ==
  ASSUME "crash" \notin Faults
  PROVE  Spec => []MediatorSurvives
<1>1. SystemInv => MediatorSurvives
  BY DEF SystemInv, MediatorSurvives
<1> QED BY <1>1, SystemInvHolds, PTL

(***************************************************************************)
(* The system implements module Rendezvous: what p2psc::connect promises   *)
(* about verification, confirmation and the calls of the callback.         *)
(***************************************************************************)
THEOREM SystemKeepsPromise == Spec => PromiseIsKept
<1>1. Init => Promise!RendezvousInit
  BY PromiseInitially DEF Init
<1>2. SystemInv /\ [Next]_vars =>
        [Promise!RendezvousNext]_(Promise!rendezvousVars)
  <2> SUFFICES ASSUME SystemInv, [Next]_vars
               PROVE  [Promise!RendezvousNext]_(Promise!rendezvousVars)
    OBVIOUS
  <2>1. ASSUME NEW s \in Session, Connect(s) \/ Thread(s) \/ Crash(s)
        PROVE  [Promise!RendezvousNext]_(Promise!rendezvousVars)
    BY <2>1, PromiseStep DEF SystemInv, Inv
  <2>2. ASSUME UNCHANGED <<verdict, punched_peer, peerVars>>
        PROVE  UNCHANGED Promise!rendezvousVars
    BY <2>2 DEF Promise!rendezvousVars, As, Role, GotSocket, peerVars
  <2>3. CASE UNCHANGED vars
    BY <2>2, <2>3 DEF vars, sessionVars, medVars
  <2>4. ASSUME NEW s \in Session, Handler(s) \/ HandlerAwaitTimeout(s)
        PROVE  UNCHANGED Promise!rendezvousVars
    BY <2>2, <2>4, HandlerRendezvous DEF SystemInv
  <2> QED BY <2>1, <2>3, <2>4 DEF Next, Start, SessionStep, SessionCrash
<1> QED BY <1>1, <1>2, SystemInvHolds, PTL
        DEF Spec, PromiseIsKept, Promise!RendezvousSpec
-----------------------------------------------------------------------------
(***************************************************************************)
(* The part of SystemInv that does not depend on when the callers of       *)
(* connect begin to use their sockets.                                     *)
(***************************************************************************)
CoreInv == Inv /\ mediatorUp
             /\ \A s \in Session : Progress(s) /\ Conversation(s) /\ Live(s)

(* CoreInv in the initial states. *)
LEMMA CoreInitially ==
  ASSUME Init
  PROVE  CoreInv
  BY Initially, SystemInitially DEF CoreInv, SystemInv, RendezvousInv

(* A step of a session's thread. *)
LEMMA CoreSession ==
  ASSUME CoreInv, NEW s \in Session, Connect(s) \/ Thread(s),
         UNCHANGED handlerVars
  PROVE  CoreInv'
<1>1. Inv'
  BY SessionDefined, SessionKeys, SessionKeepsHandlers DEF CoreInv, Inv
<1>2. mediatorUp'
  BY MediatorSide DEF CoreInv, Inv
<1>3. \A t \in Session : Progress(t)'
  BY ProgressKept DEF CoreInv, Inv
<1>4. \A t \in Session : Conversation(t)'
  BY SessionConverses DEF CoreInv
<1>5. \A t \in Session : Live(t)'
  BY SessionLive DEF CoreInv
<1> QED BY <1>1, <1>2, <1>3, <1>4, <1>5 DEF CoreInv

(* A step of a handler, which never throws. *)
LEMMA CoreHandler ==
  ASSUME CoreInv, NEW s \in Session, Handler(s) \/ HandlerAwaitTimeout(s)
  PROVE  /\ CoreInv'
         /\ \E to \in Running \cup Returned : Moves(s, to)
<1>1. Inv'
  BY HandlerSteps DEF CoreInv
<1>2. PICK to \in Running \cup Returned : Moves(s, to)
  BY HandlerKinds, NoHandlerThrows
  DEF CoreInv, Inv, SessionInv, ConnectionTypeOK
<1>3. mediatorUp'
  BY <1>2 DEF Moves, medVars, CoreInv
<1>4. ASSUME NEW t \in Session PROVE Progress(t)'
  <2>1. Same(t) /\ connected'[t] = connected[t]
    BY <1>2 DEF Moves, Same, medVars, peerVars
  <2>2. open'[MedEnd(t)] = open[MedEnd(t)]
    BY <1>2, Ends
    DEF Moves, CoreInv, Inv, SessionInv, ConnectionTypeOK, NetTypeOK
  <2> QED BY <2>1, <2>2, SameProgress DEF CoreInv, Inv
<1>5. \A t \in Session : Conversation(t)'
  BY <1>2, HandlerConverses DEF CoreInv
<1>6. \A t \in Session : Live(t)'
  BY <1>2, HandlerLive DEF CoreInv
<1> QED BY <1>1, <1>2, <1>3, <1>4, <1>5, <1>6 DEF CoreInv

(* What a test does with the sockets that it was given. *)
LEMMA CoreSockets ==
  ASSUME CoreInv, NetTypeOK', KeysInv',
         UNCHANGED <<medVars, peerVars, handlerVars>>,
         \A t \in Session : /\ inbox'[MedEnd(t)] = inbox[MedEnd(t)]
                            /\ inbox'[HandlerEnd(t)] = inbox[HandlerEnd(t)]
                            /\ open'[MedEnd(t)] = open[MedEnd(t)]
                            /\ open'[HandlerEnd(t)] = open[HandlerEnd(t)]
  PROVE  CoreInv'
<1>1. /\ \A t \in Session : Same(t) /\ connected'[t] = connected[t]
      /\ mediatorUp'
  BY DEF Same, medVars, peerVars, CoreInv
<1>2. SessionInv'
  <2>1. ConnectionTypeOK'
    BY DEF CoreInv, Inv, SessionInv, ConnectionTypeOK, MediatorConnectionTypeOK,
           medVars, peerVars
  <2> QED BY <1>1, <2>1, SameDefined DEF CoreInv, Inv, SessionInv
<1>3. HandlerInv'
  <2>1. MedQuiet
    BY DEF MedQuiet, Unread
  <2> QED BY <2>1, HandlersUnchanged DEF CoreInv, Inv, medVars
<1>4. ASSUME NEW t \in Session PROVE Progress(t)'
  BY <1>1, SameProgress DEF CoreInv, Inv
<1>5. ASSUME NEW t \in Session PROVE Conversation(t)' /\ Live(t)'
  <2>1. UNCHANGED <<pc, handler, advertise>>
    BY DEF medVars, handlerVars
  <2> QED BY <2>1, ConversationSame, LiveSame DEF CoreInv
<1> QED BY <1>1, <1>2, <1>3, <1>4, <1>5 DEF CoreInv, Inv

(* Which step a handler takes, by where it is. *)
LEMMA HandlerAt ==
  ASSUME NEW s \in Session, Handler(s), mediatorUp'
  PROVE  /\ handler[s] = "none" => HandlerAccept(s)
         /\ handler[s] = "advertise" => HandlerReceiveAdvertise(s)
         /\ handler[s] = "abort" => HandlerSendAbort(s)
         /\ handler[s] = "challenge" => HandlerSendChallenge(s)
         /\ handler[s] = "response" => HandlerReceiveResponse(s)
         /\ handler[s] = "lookup" => HandlerGet(s)
         /\ handler[s] \in {"putClient", "putPeer"} => HandlerPut(s)
         /\ handler[s] = "await" => HandlerAwaitFound(s)
         /\ handler[s] = "waitDisconnect" => HandlerWaitForDisconnect(s)
         /\ handler[s] = "identify" => HandlerSendIdentification(s)
         /\ handler[s] = "disconnect" => HandlerSendDisconnect(s)
         /\ handler[s] = "addDisconnect" => HandlerAddDisconnect(s)
         /\ handler[s] \notin Returned
<1>1. ~HandlerThrow(s)
  BY DEF HandlerThrow
<1>2. CASE HandlerAccept(s)
  BY <1>2 DEF HandlerAccept, Returned
<1>3. CASE HandlerReceiveAdvertise(s)
  BY <1>3 DEF HandlerReceiveAdvertise, Returned
<1>4. CASE HandlerSendAbort(s)
  BY <1>4 DEF HandlerSendAbort, Returned
<1>5. CASE HandlerSendChallenge(s)
  BY <1>5 DEF HandlerSendChallenge, Returned
<1>6. CASE HandlerReceiveResponse(s)
  BY <1>6 DEF HandlerReceiveResponse, Returned
<1>7. CASE HandlerGet(s)
  BY <1>7 DEF HandlerGet, Returned
<1>8. CASE HandlerPut(s)
  BY <1>8 DEF HandlerPut, Returned
<1>9. CASE HandlerAwaitFound(s)
  BY <1>9 DEF HandlerAwaitFound, Returned
<1>10. CASE HandlerWaitForDisconnect(s)
  BY <1>10 DEF HandlerWaitForDisconnect, Returned
<1>11. CASE HandlerSendIdentification(s)
  BY <1>11 DEF HandlerSendIdentification, Returned
<1>12. CASE HandlerSendDisconnect(s)
  BY <1>12 DEF HandlerSendDisconnect, Returned
<1>13. CASE HandlerAddDisconnect(s)
  BY <1>13 DEF HandlerAddDisconnect, Returned
<1> QED BY <1>1, <1>2, <1>3, <1>4, <1>5, <1>6, <1>7, <1>8, <1>9, <1>10, <1>11,
           <1>12, <1>13 DEF Handler

-----------------------------------------------------------------------------
(***************************************************************************)
(* No message between a session and its handler is lost while both live:   *)
(* where a session stands, where its handler stands, and what is under way *)
(* between them.  Conversation says what may be there at most; this says   *)
(* what is there.                                                          *)
(***************************************************************************)
Adv(s) == Advertise(kVersion[s], KeyOf[s], Wants[s])
Chal(s) == AdvertiseChallenge(Encrypt(KeyOf[s], MediatorNonce))

Assignment(s) ==
  IF handler[s] = "identified"
    THEN PeerIdentification(awaited[s].version, awaited[s].address)
    ELSE PeerDisconnect(s)

Wire(s) ==
  /\ pc[s] = "advertised" =>
       \/ handler[s] \in {"none", "advertise"} /\ inbox[HandlerEnd(s)] = <<Adv(s)>>
       \/ handler[s] \in {"abort", "aborted", "challenge", "quit"}
       \/ handler[s] = "response" /\ inbox[MedEnd(s)] = <<Chal(s)>>
  /\ pc[s] = "challenged" =>
       handler[s] = "quit" \/ (handler[s] = "response" /\ secret[s] = MediatorNonce)
  /\ pc[s] = "registered" =>
       \/ /\ handler[s] = "response"
          /\ inbox[HandlerEnd(s)] = <<AdvertiseResponse(MediatorNonce)>>
       \/ handler[s] \in Registered \cup {"quit"}
       \/ handler[s] \in Assigning /\ inbox[MedEnd(s)] = <<Assignment(s)>>
  /\ handler[s] \notin {"none", "advertise"} => advertise[s] = Adv(s)
  /\ handler[s] # "gaveUp"
  /\ punched_peer[s] # None =>
       handler[s] = "identified" /\ punched_peer[s] = awaited[s]
  /\ peer_disconnect[s] # None =>
       handler[s] \in {"addDisconnect", "disconnected"} /\ peer_disconnect[s] = s
  /\ pc[s] = "done" =>
       callbacks[s] # <<>> /\ callbacks[s][Len(callbacks[s])] = verdict[s]

(***************************************************************************)
(* The store holds the sessions whose handlers have put them there, and a  *)
(* recorded disconnect stays until a handler that goes on takes it.        *)
(***************************************************************************)
PastPut == {"await", "waitDisconnect", "identify", "identified", "disconnect",
            "addDisconnect", "disconnected"}

Identifier(s) == [address |-> s, version |-> kVersion[s]]

Stored ==
  /\ \A k \in Key : store[k] # None =>
       \E s \in Session : /\ KeyOf[s] = k /\ handler[s] \in PastPut
                          /\ store[k] = Identifier(s)
  /\ \A s \in Session :
       /\ handler[s] \in PastPut => store[KeyOf[s]] # None
       /\ handler[s] \in {"waitDisconnect", "identify", "identified"} =>
            awaited[s] = store[Wants[s]]
       /\ handler[s] = "disconnected" =>
            \/ s \in completed
            \/ \E t \in Session : /\ handler[t] \in {"identify", "identified"}
                                  /\ awaited[t].address = s

WireInv == Stored /\ \A s \in Session : Wire(s)

(***************************************************************************)
(* The only steps that lead a session to these places, tell it to listen,  *)
(* or tell it whom to dial.                                                *)
(***************************************************************************)
LEMMA Arrives ==
  ASSUME SessionInv, NEW s \in Session, Connect(s) \/ Thread(s)
  PROVE  /\ pc'[s] = "advertised" => SendAdvertise(s)
         /\ pc'[s] = "challenged" =>
              /\ ReceiveAdvertiseChallenge(s) /\ Receive(MedEnd(s))
              /\ secret'[s] = Decrypt(Head(inbox[MedEnd(s)]).encrypted_nonce)
         /\ pc'[s] = "registered" => SendAdvertiseResponse(s)
         /\ pc'[s] = "done" => Callback(s)
         /\ UNCHANGED punched_peer \/ ReceivePeerIdentification(s)
         /\ UNCHANGED peer_disconnect \/ ReceivePeerDisconnect(s)
<1>1. \A location : Go(s, location) => pc'[s] = location
  BY DEF Go, SessionInv, ConnectionTypeOK, MediatorConnectionTypeOK
<1>2. CASE Connect(s)
  BY <1>1, <1>2 DEF Connect
<1>3. CASE MediatorConnect(s)
  <2>1. \A kind : MediatorThrow(s, kind) =>
          /\ pc'[s] = "returning"
          /\ UNCHANGED punched_peer /\ UNCHANGED peer_disconnect
    BY <1>1 DEF MediatorThrow
  <2>2. CASE ReceiveAdvertiseChallenge(s)
    <3>1. CASE secret' = [secret EXCEPT ![s] =
                            Decrypt(Head(inbox[MedEnd(s)]).encrypted_nonce)]
               /\ Receive(MedEnd(s)) /\ Go(s, "challenged")
               /\ UNCHANGED punched_peer /\ UNCHANGED peer_disconnect
      <4>1. secret'[s] = Decrypt(Head(inbox[MedEnd(s)]).encrypted_nonce)
        BY <3>1 DEF SessionInv, ConnectionTypeOK, MediatorConnectionTypeOK
      <4> QED BY <1>1, <2>2, <3>1, <4>1
    <3> QED BY <2>1, <2>2, <3>1 DEF ReceiveAdvertiseChallenge
  <2>3. CASE DialMediator(s) \/ ReceiveAdvertiseRetry(s)
    BY <1>1, <2>1, <2>3 DEF DialMediator, ReceiveAdvertiseRetry
  <2>4. CASE SendAdvertise(s)
    BY <1>1, <2>4 DEF SendAdvertise
  <2>5. CASE SendAdvertiseResponse(s)
    BY <1>1, <2>5 DEF SendAdvertiseResponse
  <2>6. CASE ReceivePeerIdentification(s)
    BY <1>1, <2>6 DEF ReceivePeerIdentification
  <2>7. CASE ReceivePeerDisconnect(s)
    BY <1>1, <2>7 DEF ReceivePeerDisconnect
  <2>8. CASE ReceiveUnexpected(s) \/ LoseMediator(s)
    BY <2>1, <2>8 DEF ReceiveUnexpected, LoseMediator
  <2> QED BY <1>3, <2>2, <2>3, <2>4, <2>5, <2>6, <2>7, <2>8 DEF MediatorConnect
<1>4. CASE PeerHandshake(s)
  <2>1. /\ \A kind : Throw(s, kind) => /\ pc'[s] = "returning"
                                       /\ UNCHANGED punched_peer
                                       /\ UNCHANGED peer_disconnect
        /\ Die(s) => /\ pc'[s] = "died"
                     /\ UNCHANGED punched_peer /\ UNCHANGED peer_disconnect
    BY <1>1 DEF Throw, Die
  <2>2. CASE Callback(s)
    BY <1>1, <2>2 DEF Callback
  <2>3. CASE CloseMediatorAsClient(s) \/ DialPeer(s) \/ SendPeerChallenge(s)
               \/ ReceivePeerChallengeResponse(s) \/ SendPeerResponse(s)
               \/ ReceivePeerAcknowledgement(s)
    BY <1>1, <2>1, <2>3
    DEF CloseMediatorAsClient, DialPeer, SendPeerChallenge,
        ReceivePeerChallengeResponse, SendPeerResponse,
        ReceivePeerAcknowledgement
  <2>4. CASE CloseMediatorAsPeer(s) \/ Listen(s) \/ Accept(s)
               \/ ReceivePeerChallenge(s) \/ SendPeerChallengeResponse(s)
               \/ ReceivePeerResponse(s) \/ SendPeerAcknowledgement(s)
    BY <1>1, <2>1, <2>4
    DEF CloseMediatorAsPeer, Listen, Accept, ReceivePeerChallenge,
        SendPeerChallengeResponse, ReceivePeerResponse, SendPeerAcknowledgement
  <2>5. CASE LosePeer(s) \/ CallbackThrows(s)
    BY <2>1, <2>5 DEF LosePeer, CallbackThrows
  <2> QED BY <1>4, <2>2, <2>3, <2>4, <2>5 DEF PeerHandshake
<1> QED BY <1>2, <1>3, <1>4 DEF Thread

(* What the messages that the Mediator exchanges with a session say. *)
LEMMA Contents ==
  /\ \A v, k, l : /\ Advertise(v, k, l).type = "Advertise"
                  /\ Advertise(v, k, l).version = v
                  /\ Advertise(v, k, l).our_key = k
                  /\ Advertise(v, k, l).their_key = l
  /\ \A k, n : /\ AdvertiseChallenge(Encrypt(k, n)).type = "AdvertiseChallenge"
               /\ CanDecrypt(k, AdvertiseChallenge(Encrypt(k, n)).encrypted_nonce)
               /\ Decrypt(AdvertiseChallenge(Encrypt(k, n)).encrypted_nonce) = n
  /\ \A n : AdvertiseResponse(n).type = "AdvertiseResponse"
            /\ AdvertiseResponse(n).nonce = n
  /\ \A a : PeerDisconnect(a).type = "PeerDisconnect"
            /\ PeerDisconnect(a).address = a
  /\ \A v, a : /\ PeerIdentification(v, a).type = "PeerIdentification"
               /\ PeerIdentification(v, a).version = v
               /\ PeerIdentification(v, a).address = a
  BY SMT
  DEF Advertise, AdvertiseChallenge, AdvertiseResponse, PeerDisconnect,
      PeerIdentification, Blank, Encrypt, CanDecrypt, Decrypt

(* Steps that leave a session and its handler alone. *)
WireSame(t) ==
  /\ Same(t)
  /\ inbox'[MedEnd(t)] = inbox[MedEnd(t)]
  /\ inbox'[HandlerEnd(t)] = inbox[HandlerEnd(t)]
  /\ handler'[t] = handler[t] /\ advertise'[t] = advertise[t]
  /\ awaited'[t] = awaited[t]

(* A step that leaves what Wire reads alone keeps it. *)
LEMMA WireKept ==
  ASSUME NEW t \in Session, Wire(t), WireSame(t)
  PROVE  Wire(t)'
  BY DEF Wire, WireSame, Same, Assignment

(* The same for Stored. *)
LEMMA StoredKept ==
  ASSUME Stored, UNCHANGED handlerVars
  PROVE  Stored'
  BY DEF Stored, handlerVars

(* What a session at the end of the Mediator handshake can read. *)
LEMMA Assigned ==
  ASSUME CoreInv, NEW s \in Session, Wire(s), pc[s] = "registered",
         inbox[MedEnd(s)] # <<>>
  PROVE  /\ handler[s] \in Assigning /\ Head(inbox[MedEnd(s)]) = Assignment(s)
         /\ Assignment(s).type = "PeerIdentification" =>
              /\ handler[s] = "identified"
              /\ Assignment(s).address = awaited[s].address
              /\ Assignment(s).version = awaited[s].version
              /\ awaited[s] = [address |-> awaited[s].address,
                               version |-> awaited[s].version]
         /\ Assignment(s).type = "PeerDisconnect" =>
              /\ handler[s] \in {"addDisconnect", "disconnected"}
              /\ Assignment(s).address = s
<1>1. Conversation(s)
  BY DEF CoreInv
<1>2. handler[s] \notin {"response", "quit"} \cup Registered
  BY <1>1 DEF Conversation
<1>3. handler[s] \in Assigning /\ inbox[MedEnd(s)] = <<Assignment(s)>>
  BY <1>2 DEF Wire
<1>4. CASE handler[s] = "identified"
  <2>1. awaited[s] \in PeerIdentifier
    BY <1>4 DEF CoreInv, Inv, HandlerInv, HandlerDefined
  <2>2. awaited[s] = [address |-> awaited[s].address, version |-> awaited[s].version]
    BY SMT, <2>1 DEF PeerIdentifier
  <2>3. /\ Assignment(s).type = "PeerIdentification"
        /\ Assignment(s).address = awaited[s].address
        /\ Assignment(s).version = awaited[s].version
    <3>1. Assignment(s) = PeerIdentification(awaited[s].version, awaited[s].address)
      BY <1>4 DEF Assignment
    <3> QED BY SMT, <3>1 DEF PeerIdentification, Blank
  <2> QED BY <1>3, <1>4, <2>2, <2>3, Singletons
<1>5. CASE handler[s] # "identified"
  <2>1. Assignment(s).type = "PeerDisconnect" /\ Assignment(s).address = s
    BY <1>5, Contents DEF Assignment
  <2>2. handler[s] \in {"addDisconnect", "disconnected"}
    BY <1>3, <1>5 DEF Assigning
  <2> QED BY <1>3, <2>1, <2>2, Singletons
<1> QED BY <1>4, <1>5

(* A step of a session keeps what is under way in order. *)
LEMMA WireSession ==
  ASSUME CoreInv, WireInv, NEW s \in Session, Connect(s) \/ Thread(s),
         UNCHANGED handlerVars
  PROVE  WireInv'
<1>1. /\ SessionInv /\ NetTypeOK /\ Conversation(s) /\ Live(s) /\ Progress(s)
      /\ Wire(s)
  BY DEF CoreInv, Inv, SessionInv, ConnectionTypeOK, WireInv
<1>2. UNCHANGED <<handler, advertise, awaited>>
  BY DEF handlerVars
<1>3. ASSUME NEW t \in Session \ {s} PROVE Wire(t)'
  <2>1. /\ inbox'[MedEnd(t)] = inbox[MedEnd(t)]
        /\ inbox'[HandlerEnd(t)] = inbox[HandlerEnd(t)]
    <3>1. CASE Converses(s)
      BY <1>1, <3>1, SessionInboxes DEF Converses, Tells, Hears
    <3>2. CASE GivesUp(s) \/ GoneOn(s)
      BY <3>2 DEF GivesUp, GoneOn, MedSame
    <3> QED BY <1>1, <3>1, <3>2, MediatorSide
  <2>2. Same(t)
    BY <1>1, SessionDefined
  <2> QED BY <1>2, <2>1, <2>2, WireKept DEF WireSame, WireInv
<1>4. pc'[s] = "advertised" =>
        /\ handler'[s] \in {"none", "advertise"}
        /\ inbox'[HandlerEnd(s)] = <<Adv(s)>>
  <2> SUFFICES ASSUME pc'[s] = "advertised"
               PROVE  /\ handler'[s] \in {"none", "advertise"}
                      /\ inbox'[HandlerEnd(s)] = <<Adv(s)>>
    OBVIOUS
  <2>1. SendAdvertise(s)
    BY <1>1, Arrives
  <2>2. handler[s] \in {"none", "advertise"} /\ inbox[HandlerEnd(s)] = <<>>
    BY <1>1, <2>1 DEF SendAdvertise, Conversation
  <2>3. open[HandlerEnd(s)]
    BY <1>1, <2>1, <2>2 DEF SendAdvertise, Live, Running
  <2>4. Send(MedEnd(s), Adv(s))
    BY <2>1 DEF SendAdvertise, Adv
  <2>5. inbox'[HandlerEnd(s)] = Append(<<>>, Adv(s))
    <3>1. MedEnd(s) \in Endpoint /\ Far(MedEnd(s)) = HandlerEnd(s)
      BY Ends
    <3>2. inbox'[Far(MedEnd(s))] = Append(inbox[Far(MedEnd(s))], Adv(s))
      BY <1>1, <2>3, <2>4, <3>1, SendAppends
    <3> QED BY <2>2, <3>1, <3>2
  <2> QED BY <1>2, <2>2, <2>5, Singletons
<1>5. pc'[s] = "challenged" =>
        \/ handler'[s] = "quit"
        \/ handler'[s] = "response" /\ secret'[s] = MediatorNonce
  <2> SUFFICES ASSUME pc'[s] = "challenged", handler[s] # "quit"
               PROVE  handler[s] = "response" /\ secret'[s] = MediatorNonce
    BY <1>2
  <2>1. /\ pc[s] = "advertised" /\ inbox[MedEnd(s)] # <<>>
        /\ Head(inbox[MedEnd(s)]).type = "AdvertiseChallenge"
        /\ secret'[s] = Decrypt(Head(inbox[MedEnd(s)]).encrypted_nonce)
    BY <1>1, Arrives DEF ReceiveAdvertiseChallenge, ReadableAnyType
  <2>2. handler[s] \notin {"none", "advertise", "abort", "challenge"}
    BY <1>1, <2>1 DEF Conversation
  <2>3. handler[s] # "aborted"
    <3>1. "AdvertiseChallenge" \notin {"AdvertiseAbort"}
      OBVIOUS
    <3> QED BY <1>1, <2>1, <3>1 DEF Conversation, Finds
  <2>4. handler[s] = "response" /\ inbox[MedEnd(s)] = <<Chal(s)>>
    BY <1>1, <2>1, <2>2, <2>3 DEF Wire
  <2>5. Head(inbox[MedEnd(s)]) = Chal(s)
    BY <2>4, Singletons
  <2>6. Decrypt(Chal(s).encrypted_nonce) = MediatorNonce
    BY SMT DEF Chal, AdvertiseChallenge, Encrypt, Decrypt, Blank
  <2> QED BY <2>1, <2>4, <2>5, <2>6
<1>6. pc'[s] = "registered" =>
        \/ handler'[s] = "quit"
        \/ /\ handler'[s] = "response"
           /\ inbox'[HandlerEnd(s)] = <<AdvertiseResponse(MediatorNonce)>>
  <2> SUFFICES ASSUME pc'[s] = "registered", handler[s] # "quit"
               PROVE  /\ handler[s] = "response"
                      /\ inbox'[HandlerEnd(s)] = <<AdvertiseResponse(MediatorNonce)>>
    BY <1>2
  <2>1. SendAdvertiseResponse(s)
    BY <1>1, Arrives
  <2>2. pc[s] = "challenged" /\ handler[s] = "response" /\ secret[s] = MediatorNonce
    BY <1>1, <2>1 DEF SendAdvertiseResponse, Wire
  <2>3. open[HandlerEnd(s)] /\ inbox[HandlerEnd(s)] = <<>>
    BY <1>1, <2>2 DEF Live, Conversation, Running
  <2>4. Send(MedEnd(s), AdvertiseResponse(MediatorNonce))
    BY <2>1, <2>2 DEF SendAdvertiseResponse
  <2>5. inbox'[HandlerEnd(s)] = Append(<<>>, AdvertiseResponse(MediatorNonce))
    <3>1. MedEnd(s) \in Endpoint /\ Far(MedEnd(s)) = HandlerEnd(s)
      BY Ends
    <3>2. inbox'[Far(MedEnd(s))] =
            Append(inbox[Far(MedEnd(s))], AdvertiseResponse(MediatorNonce))
      BY <1>1, <2>3, <2>4, <3>1, SendAppends
    <3> QED BY <2>3, <3>1, <3>2
  <2> QED BY <2>2, <2>5, Singletons
<1>7. punched_peer'[s] # None =>
        handler'[s] = "identified" /\ punched_peer'[s] = awaited'[s]
  <2>1. CASE UNCHANGED punched_peer
    BY <1>1, <1>2, <2>1 DEF Wire
  <2>2. CASE ReceivePeerIdentification(s)
    <3>1. /\ pc[s] = "registered" /\ inbox[MedEnd(s)] # <<>>
          /\ Head(inbox[MedEnd(s)]).type = "PeerIdentification"
          /\ punched_peer'[s] = [address |-> Head(inbox[MedEnd(s)]).address,
                                 version |-> Head(inbox[MedEnd(s)]).version]
      BY <1>1, <2>2
      DEF ReceivePeerIdentification, ReadableAnyType, SessionInv,
          ConnectionTypeOK, MediatorConnectionTypeOK
    <3>2. /\ handler[s] = "identified"
          /\ Head(inbox[MedEnd(s)]).address = awaited[s].address
          /\ Head(inbox[MedEnd(s)]).version = awaited[s].version
          /\ awaited[s] = [address |-> awaited[s].address,
                           version |-> awaited[s].version]
      BY <1>1, <3>1, Assigned
    <3> QED BY <1>2, <3>1, <3>2
  <2> QED BY <1>1, <2>1, <2>2, Arrives
<1>8. peer_disconnect'[s] # None =>
        /\ handler'[s] \in {"addDisconnect", "disconnected"}
        /\ peer_disconnect'[s] = s
  <2>1. CASE UNCHANGED peer_disconnect
    BY <1>1, <1>2, <2>1 DEF Wire
  <2>2. CASE ReceivePeerDisconnect(s)
    <3>1. /\ pc[s] = "registered" /\ inbox[MedEnd(s)] # <<>>
          /\ Head(inbox[MedEnd(s)]).type = "PeerDisconnect"
          /\ peer_disconnect'[s] = Head(inbox[MedEnd(s)]).address
      BY <1>1, <2>2
      DEF ReceivePeerDisconnect, ReadableAnyType, SessionInv,
          ConnectionTypeOK, MediatorConnectionTypeOK
    <3> QED BY <1>1, <1>2, <3>1, Assigned
  <2> QED BY <1>1, <2>1, <2>2, Arrives
<1>9. pc'[s] = "done" =>
        callbacks'[s] # <<>> /\ callbacks'[s][Len(callbacks'[s])] = verdict'[s]
  <2> SUFFICES ASSUME pc'[s] = "done"
               PROVE  /\ callbacks'[s] # <<>>
                      /\ callbacks'[s][Len(callbacks'[s])] = verdict'[s]
    OBVIOUS
  <2>1. Callback(s)
    BY <1>1, Arrives
  <2>2. /\ callbacks[s] \in Seq(ErrorKind \cup {"socket"})
        /\ verdict[s] \in ErrorKind \cup {"socket"}
    <3>1. /\ callbacks \in [Session -> Seq(ErrorKind \cup {"socket"})]
          /\ verdict \in [Session -> ErrorKind \cup {"socket", None}]
          /\ Defined(s)
      BY <1>1 DEF SessionInv, ConnectionTypeOK, MediatorConnectionTypeOK
    <3>2. verdict[s] # None
      BY <2>1, <3>1 DEF Callback, Defined
    <3> QED BY <3>1, <3>2
  <2>3. callbacks'[s] = Append(callbacks[s], verdict[s]) /\ verdict'[s] = verdict[s]
    BY <1>1, <2>1 DEF Callback, Called, SessionInv, ConnectionTypeOK
  <2>4. Append(callbacks[s], verdict[s]) # <<>>
    BY SMT, <2>2
  <2>5. \A q : q = Append(callbacks[s], verdict[s]) => q[Len(q)] = verdict[s]
    <3> DEFINE Kinds == ErrorKind \cup {"socket"}
    <3>1. callbacks[s] \in Seq(Kinds) /\ verdict[s] \in Kinds
      BY <2>2
    <3> HIDE DEF Kinds
    <3> QED BY SMT, <3>1
  <2> QED BY <2>3, <2>4, <2>5
<1>10. Wire(s)'
  BY <1>1, <1>2, <1>4, <1>5, <1>6, <1>7, <1>8, <1>9 DEF Wire
<1> QED BY <1>3, <1>10, StoredKept DEF WireInv

(***************************************************************************)
(* The steps of a handler: what it finds, where it goes, and what it does  *)
(* to the Mediator's tables.                                               *)
(***************************************************************************)
LEMMA HandlerGoes ==
  ASSUME CoreInv, WireInv, NEW s \in Session, Handler(s)
  PROVE  /\ handler[s] = "none" => handler'[s] = "advertise" /\ UNCHANGED inbox
         /\ handler[s] = "advertise" =>
              /\ pc[s] = "advertised" /\ inbox[HandlerEnd(s)] = <<Adv(s)>>
              /\ advertise'[s] = Adv(s)
              /\ handler'[s] = IF quit_after = "Advertise" THEN "quit"
                                 ELSE IF kVersion[s] < protocol_version
                                        THEN "abort" ELSE "challenge"
         /\ handler[s] = "abort" => handler'[s] = "aborted"
         /\ handler[s] = "challenge" =>
              /\ inbox'[MedEnd(s)] = <<Chal(s)>>
              /\ handler'[s] = IF quit_after = "AdvertiseChallenge"
                                 THEN "quit" ELSE "response"
         /\ handler[s] = "response" =>
              /\ pc[s] = "registered"
              /\ inbox[HandlerEnd(s)] = <<AdvertiseResponse(MediatorNonce)>>
              /\ handler'[s] = IF quit_after = "AdvertiseResponse"
                                 THEN "quit" ELSE "lookup"
         /\ handler[s] = "lookup" =>
              handler'[s] = IF store[Wants[s]] = None THEN "putClient" ELSE "putPeer"
         /\ handler[s] = "putClient" => handler'[s] = "await"
         /\ handler[s] = "putPeer" => handler'[s] = "disconnect"
         /\ handler[s] = "await" =>
              /\ handler'[s] = "waitDisconnect"
              /\ store[Wants[s]] # None /\ awaited'[s] = store[Wants[s]]
         /\ handler[s] = "waitDisconnect" =>
              handler'[s] = "identify" /\ awaited[s].address \in completed
         /\ handler[s] = "identify" =>
              /\ handler'[s] = "identified"
              /\ inbox'[MedEnd(s)] =
                   <<PeerIdentification(awaited[s].version, awaited[s].address)>>
         /\ handler[s] = "disconnect" =>
              /\ handler'[s] = "addDisconnect"
              /\ inbox'[MedEnd(s)] = <<PeerDisconnect(s)>>
         /\ handler[s] = "addDisconnect" =>
              handler'[s] = "disconnected" /\ UNCHANGED inbox
         /\ handler[s] \notin Returned
<1>1. /\ NetTypeOK /\ FakeMediatorTypeOK /\ Conversation(s) /\ Live(s) /\ Progress(s)
      /\ Wire(s) /\ mediatorUp'
  BY CoreHandler DEF CoreInv, Inv, SessionInv, ConnectionTypeOK, HandlerInv, WireInv
<1>2. \A location : HandlerGo(s, location) => handler'[s] = location
  BY <1>1 DEF HandlerGo, FakeMediatorTypeOK
<1>3. \A type, location : QuitOr(s, type, location) =>
        handler'[s] = IF quit_after = type THEN "quit" ELSE location
  BY <1>2 DEF QuitOr, Return
<1>4. \A how : Return(s, how) => handler'[s] = how
  BY <1>2 DEF Return
<1>5. ASSUME NEW m, Send(HandlerEnd(s), m), inbox[MedEnd(s)] = <<>>,
             handler[s] \in {"abort", "challenge", "identify", "disconnect"}
      PROVE  inbox'[MedEnd(s)] = <<m>>
  <2>1. HandlerEnd(s) \in Endpoint /\ Far(HandlerEnd(s)) = MedEnd(s)
    BY Ends
  <2>2. handler[s] \in Running \ {"addDisconnect"}
    BY <1>5 DEF Running
  <2>3. open[Far(HandlerEnd(s))]
    BY <1>1, <2>1, <2>2 DEF Live, Progress, MediatorStage, AtMediator
  <2>4. inbox'[MedEnd(s)] = Append(<<>>, m)
    BY <1>1, <1>5, <2>1, <2>3, SendAppends
  <2> QED BY <2>4, Singletons
<1>6. handler[s] \notin {"none", "advertise"} =>
        /\ advertise[s] = Adv(s) /\ advertise[s].our_key = KeyOf[s]
        /\ advertise[s].their_key = Wants[s] /\ advertise[s].version = kVersion[s]
  <2>1. /\ Adv(s).our_key = KeyOf[s] /\ Adv(s).their_key = Wants[s]
        /\ Adv(s).version = kVersion[s]
    BY SMT DEF Adv, Advertise, Blank
  <2> QED BY <1>1, <2>1 DEF Wire
<1>7. CASE handler[s] = "none"
  BY <1>1, <1>2, <1>7, HandlerAt DEF HandlerAccept, sessionVars, netVars, Returned
<1>8. CASE handler[s] = "advertise"
  <2>1. /\ inbox[HandlerEnd(s)] # <<>>
        /\ advertise' = [advertise EXCEPT ![s] = Head(inbox[HandlerEnd(s)])]
        /\ QuitOr(s, "Advertise",
             IF Head(inbox[HandlerEnd(s)]).version < protocol_version
               THEN "abort" ELSE "challenge")
    BY <1>1, <1>8, HandlerAt DEF HandlerReceiveAdvertise, Readable
  <2>2. pc[s] \in {"advertise", "advertised"}
    BY <1>1, <1>8 DEF Live, Conversation, Running, MediatorStage, Final
  <2>3. pc[s] = "advertised"
    BY <1>1, <2>1, <2>2 DEF Conversation
  <2>4. inbox[HandlerEnd(s)] = <<Adv(s)>>
    BY <1>1, <1>8, <2>3 DEF Wire
  <2>5. Head(inbox[HandlerEnd(s)]) = Adv(s)
    BY <2>4, Singletons
  <2>6. Adv(s).version = kVersion[s]
    BY SMT DEF Adv, Advertise, Blank
  <2>7. advertise'[s] = Adv(s)
    BY <1>1, <2>1, <2>5 DEF FakeMediatorTypeOK
  <2>8. handler'[s] = IF quit_after = "Advertise" THEN "quit"
                        ELSE IF kVersion[s] < protocol_version
                               THEN "abort" ELSE "challenge"
    BY <1>3, <2>1, <2>5, <2>6
  <2> QED BY <1>8, <2>3, <2>4, <2>7, <2>8 DEF Returned
<1>9. CASE handler[s] = "abort"
  BY <1>1, <1>4, <1>9, HandlerAt DEF HandlerSendAbort, Returned
<1>10. CASE handler[s] = "challenge"
  <2>1. /\ Send(HandlerEnd(s), Chal(s))
        /\ QuitOr(s, "AdvertiseChallenge", "response")
    BY <1>1, <1>6, <1>10, HandlerAt DEF HandlerSendChallenge, Chal
  <2>2. inbox[MedEnd(s)] = <<>>
    BY <1>1, <1>10 DEF Conversation
  <2> QED BY <1>3, <1>5, <1>10, <2>1, <2>2 DEF Returned
<1>11. CASE handler[s] = "response"
  <2>1. inbox[HandlerEnd(s)] # <<>> /\ QuitOr(s, "AdvertiseResponse", "lookup")
    BY <1>1, <1>11, HandlerAt DEF HandlerReceiveResponse, Readable
  <2>2. pc[s] = "registered"
    BY <1>1, <1>11, <2>1 DEF Live, Conversation, Running, MediatorStage, Final
  <2> QED BY <1>1, <1>3, <1>11, <2>1, <2>2 DEF Wire, Registered, Assigning, Returned
<1>12. CASE handler[s] = "lookup"
  BY <1>1, <1>2, <1>6, <1>12, HandlerAt DEF HandlerGet, Returned
<1>13. CASE handler[s] \in {"putClient", "putPeer"}
  BY <1>1, <1>2, <1>13, HandlerAt DEF HandlerPut, Returned
<1>14. CASE handler[s] = "await"
  <2>1. /\ store[Wants[s]] # None /\ HandlerGo(s, "waitDisconnect")
        /\ awaited' = [awaited EXCEPT ![s] = store[Wants[s]]]
    BY <1>1, <1>6, <1>14, HandlerAt DEF HandlerAwaitFound
  <2>2. awaited'[s] = store[Wants[s]]
    BY <1>1, <2>1 DEF FakeMediatorTypeOK
  <2> QED BY <1>2, <1>14, <2>1, <2>2 DEF Returned
<1>15. CASE handler[s] = "waitDisconnect"
  BY <1>1, <1>2, <1>15, HandlerAt
  DEF HandlerWaitForDisconnect, DisconnectSent, Returned
<1>16. CASE handler[s] = "identify"
  <2>1. inbox[MedEnd(s)] = <<>>
    BY <1>1, <1>16 DEF Conversation, Registered
  <2> QED BY <1>1, <1>4, <1>5, <1>16, <2>1, HandlerAt
          DEF HandlerSendIdentification, Returned
<1>17. CASE handler[s] = "disconnect"
  <2>1. inbox[MedEnd(s)] = <<>>
    BY <1>1, <1>17 DEF Conversation, Registered
  <2> QED BY <1>1, <1>2, <1>5, <1>17, <2>1, HandlerAt
          DEF HandlerSendDisconnect, Returned
<1>18. CASE handler[s] = "addDisconnect"
  BY <1>1, <1>4, <1>18, HandlerAt DEF HandlerAddDisconnect, Returned
<1>19. handler[s] \notin Returned
  BY <1>1, HandlerAt
<1> QED BY <1>1, <1>7, <1>8, <1>9, <1>10, <1>11, <1>12, <1>13, <1>14, <1>15, <1>16,
           <1>17, <1>18, <1>19 DEF FakeMediatorTypeOK, Running, Returned

(* What a step of a handler leaves alone. *)
LEMMA HandlerKeeps ==
  ASSUME CoreInv, WireInv, NEW s \in Session, Handler(s)
  PROVE  /\ UNCHANGED <<medVars, peerVars>> /\ UNCHANGED quit_after
         /\ \A t \in Session : t # s => WireSame(t)
         /\ handler[s] # "advertise" => UNCHANGED advertise
         /\ handler[s] # "await" => UNCHANGED awaited
         /\ store' = IF handler[s] \in {"putClient", "putPeer"}
                       THEN [store EXCEPT ![KeyOf[s]] =
                               IF @ = None THEN Identifier(s) ELSE @]
                       ELSE store
         /\ completed' = CASE handler[s] = "waitDisconnect" ->
                                completed \ {awaited[s].address}
                           [] handler[s] = "addDisconnect" -> completed \cup {s}
                           [] OTHER -> completed
<1>1. /\ NetTypeOK /\ FakeMediatorTypeOK /\ mediatorUp' /\ Wire(s)
  BY CoreHandler DEF CoreInv, Inv, SessionInv, ConnectionTypeOK, HandlerInv, WireInv
<1>2. PICK to \in Running \cup Returned : Moves(s, to)
  BY CoreHandler
<1>3. UNCHANGED <<medVars, peerVars>>
  BY <1>2 DEF Moves
<1>4. /\ UNCHANGED quit_after
      /\ handler[s] # "advertise" => UNCHANGED advertise
      /\ handler[s] # "await" => UNCHANGED awaited
      /\ store' = IF handler[s] \in {"putClient", "putPeer"}
                    THEN [store EXCEPT ![KeyOf[s]] =
                            IF @ = None THEN Identifier(s) ELSE @]
                    ELSE store
      /\ completed' = CASE handler[s] = "waitDisconnect" ->
                             completed \ {awaited[s].address}
                        [] handler[s] = "addDisconnect" -> completed \cup {s}
                        [] OTHER -> completed
  <2>1. CASE handler[s] \in {"putClient", "putPeer"}
    <3>1. /\ UNCHANGED <<advertise, awaited, completed, quit_after>>
          /\ Put(advertise[s].our_key,
                 [address |-> s, version |-> advertise[s].version])
      BY <1>1, <2>1, HandlerAt DEF HandlerPut
    <3>2. advertise[s] = Adv(s)
      BY <1>1, <2>1 DEF Wire
    <3>3. Adv(s).our_key = KeyOf[s] /\ Adv(s).version = kVersion[s]
      BY SMT DEF Adv, Advertise, Blank
    <3>4. Put(KeyOf[s], Identifier(s))
      BY <3>1, <3>2, <3>3 DEF Identifier
    <3> QED BY <2>1, <3>1, <3>4 DEF Put
  <2>2. CASE handler[s] = "await"
    BY <1>1, <2>2, HandlerAt DEF HandlerAwaitFound
  <2>3. CASE handler[s] = "waitDisconnect"
    BY <1>1, <2>3, HandlerAt DEF HandlerWaitForDisconnect, EraseDisconnect
  <2>4. CASE handler[s] = "addDisconnect"
    BY <1>1, <2>4, HandlerAt DEF HandlerAddDisconnect
  <2>5. CASE handler[s] \in {"none", "advertise", "abort", "challenge"}
    <3>1. /\ UNCHANGED <<awaited, store, completed, quit_after>>
          /\ handler[s] # "advertise" => UNCHANGED advertise
      BY <1>1, <2>5, HandlerAt
      DEF HandlerAccept, HandlerReceiveAdvertise, HandlerSendAbort,
          HandlerSendChallenge
    <3> QED BY <2>5, <3>1
  <2>6. CASE handler[s] \in {"response", "lookup", "identify", "disconnect"}
    <3>1. UNCHANGED <<advertise, awaited, store, completed, quit_after>>
      BY <1>1, <2>6, HandlerAt
      DEF HandlerReceiveResponse, HandlerGet, HandlerSendIdentification,
          HandlerSendDisconnect
    <3> QED BY <2>6, <3>1
  <2> QED BY <1>1, <2>1, <2>2, <2>3, <2>4, <2>5, <2>6, HandlerAt
          DEF FakeMediatorTypeOK, Running
<1>5. ASSUME NEW t \in Session, t # s PROVE WireSame(t)
  <2>1. Same(t)
    BY <1>3 DEF Same, medVars, peerVars
  <2>2. handler'[t] = handler[t] /\ advertise'[t] = advertise[t]
    BY <1>1, <1>2, <1>5 DEF Moves, HandlerGo, FakeMediatorTypeOK
  <2>3. awaited'[t] = awaited[t]
    <3>1. CASE handler[s] = "await"
      BY <1>1, <1>5, <3>1, HandlerAt DEF HandlerAwaitFound, FakeMediatorTypeOK
    <3> QED BY <1>4, <3>1
  <2>4. /\ inbox'[MedEnd(t)] = inbox[MedEnd(t)]
        /\ inbox'[HandlerEnd(t)] = inbox[HandlerEnd(t)]
    <3>1. CASE UNCHANGED inbox
      BY <3>1
    <3>2. CASE Receive(HandlerEnd(s))
      BY <1>1, <1>5, <3>2, HandlerInboxes
    <3>3. CASE \E m \in Message : Send(HandlerEnd(s), m)
      BY <1>1, <1>5, <3>3, HandlerInboxes
    <3> QED BY <1>2, <3>1, <3>2, <3>3 DEF Moves, Thinks, Listens, Says
  <2> QED BY <2>1, <2>2, <2>3, <2>4 DEF WireSame
<1> QED BY <1>3, <1>4, <1>5

(* A step of a handler keeps the Mediator's tables in order. *)
LEMMA StoredStep ==
  ASSUME CoreInv, WireInv, NEW s \in Session, Handler(s)
  PROVE  Stored'
<1>1. FakeMediatorTypeOK /\ Stored /\ \A t \in Session : HandlerDefined(t)
  BY DEF CoreInv, Inv, HandlerInv, WireInv
<1>2. \A t \in Session : t # s =>
        handler'[t] = handler[t] /\ awaited'[t] = awaited[t]
  BY HandlerKeeps DEF WireSame
<1>3. Identifier(s) # None /\ KeyOf[s] \in Key /\ Wants[s] \in Key
  <2>1. kVersion[s] \in Version /\ KeyOf[s] \in Key /\ Wants[s] \in Key
    BY SessionAssumption
  <2>2. Identifier(s) \in PunchedPeer
    BY SMT, <2>1 DEF Identifier, PunchedPeer, Address
  <2> QED BY <2>1, <2>2, AbsentAssumption
<1>4. /\ handler[s] \in {"putClient", "putPeer"} =>
           store' = [store EXCEPT ![KeyOf[s]] = IF @ = None THEN Identifier(s) ELSE @]
      /\ handler[s] \notin {"putClient", "putPeer"} => UNCHANGED store
  BY HandlerKeeps
<1>5. /\ \A k \in Key : store[k] # None => store'[k] = store[k]
      /\ \A k \in Key : store[k] = None /\ store'[k] # None =>
           /\ handler[s] \in {"putClient", "putPeer"} /\ k = KeyOf[s]
           /\ store'[k] = Identifier(s)
      /\ handler[s] \in {"putClient", "putPeer"} => store'[KeyOf[s]] # None
  BY <1>1, <1>3, <1>4 DEF FakeMediatorTypeOK
<1>6. /\ handler[s] \in PastPut \cup {"putClient", "putPeer"} => handler'[s] \in PastPut
      /\ handler'[s] \in PastPut =>
           handler[s] \in PastPut \cup {"putClient", "putPeer"}
      /\ handler'[s] \in {"waitDisconnect", "identify", "identified"} =>
           handler[s] \in {"await", "waitDisconnect", "identify"}
      /\ handler'[s] = "disconnected" => handler[s] = "addDisconnect"
      /\ handler[s] \notin Returned
  BY <1>1, HandlerGoes DEF PastPut, Returned, FakeMediatorTypeOK, Running
<1>7. ASSUME NEW k \in Key, store'[k] # None
      PROVE  \E t \in Session : /\ KeyOf[t] = k /\ handler'[t] \in PastPut
                                /\ store'[k] = Identifier(t)
  <2>1. CASE store[k] # None
    <3>1. PICK t \in Session : /\ KeyOf[t] = k /\ handler[t] \in PastPut
                               /\ store[k] = Identifier(t)
      BY <1>1, <2>1 DEF Stored
    <3> QED BY <1>2, <1>5, <1>6, <2>1, <3>1
  <2>2. CASE store[k] = None
    BY <1>5, <1>6, <1>7, <2>2
  <2> QED BY <2>1, <2>2
<1>8. ASSUME NEW t \in Session, handler'[t] \in PastPut PROVE store'[KeyOf[t]] # None
  <2>1. KeyOf[t] \in Key
    BY SessionAssumption
  <2>2. CASE handler[t] \in PastPut
    BY <1>1, <1>5, <2>1, <2>2 DEF Stored
  <2> QED BY <1>2, <1>5, <1>6, <1>8, <2>2
<1>9. ASSUME NEW t \in Session,
             handler'[t] \in {"waitDisconnect", "identify", "identified"}
      PROVE  awaited'[t] = store'[Wants[t]]
  <2>1. Wants[t] \in Key
    BY SessionAssumption
  <2>2. CASE handler[t] \in {"waitDisconnect", "identify", "identified"}
    <3>1. awaited[t] \in PeerIdentifier /\ awaited[t] = store[Wants[t]]
      BY <1>1, <2>2 DEF HandlerDefined, Stored
    <3>2. awaited[t] # None
      BY <3>1, AbsentAssumption DEF PeerIdentifier, PunchedPeer
    <3>3. awaited'[t] = awaited[t]
      BY <1>2, <2>2, HandlerKeeps
    <3> QED BY <1>5, <2>1, <3>1, <3>2, <3>3
  <2>3. CASE t = s /\ handler[s] = "await"
    BY <1>4, <2>3, HandlerGoes
  <2> QED BY <1>2, <1>6, <1>9, <2>2, <2>3
<1>10. ASSUME NEW u \in Session, handler'[u] = "disconnected"
       PROVE  \/ u \in completed'
              \/ \E t \in Session : /\ handler'[t] \in {"identify", "identified"}
                                    /\ awaited'[t].address = u
  <2>1. CASE handler[u] # "disconnected"
    BY <1>2, <1>6, <1>10, <2>1, HandlerKeeps
  <2>2. CASE u \in completed
    <3>1. CASE handler[s] = "waitDisconnect" /\ awaited[s].address = u
      BY <3>1, HandlerGoes, HandlerKeeps
    <3> QED BY <2>2, <3>1, HandlerKeeps
  <2>3. ASSUME NEW t \in Session, handler[t] \in {"identify", "identified"},
               awaited[t].address = u
        PROVE  handler'[t] \in {"identify", "identified"} /\ awaited'[t].address = u
    <3>1. CASE t = s
      BY <1>6, <2>3, <3>1, HandlerGoes, HandlerKeeps DEF Returned
    <3> QED BY <1>2, <2>3, <3>1
  <2> QED BY <1>1, <2>1, <2>2, <2>3 DEF Stored
<1> QED BY <1>7, <1>8, <1>9, <1>10 DEF Stored

(* A step of a handler keeps what is under way in order. *)
LEMMA WireHandler ==
  ASSUME CoreInv, WireInv, NEW s \in Session, Handler(s)
  PROVE  WireInv'
<1>1. FakeMediatorTypeOK /\ Conversation(s) /\ Wire(s) /\ handler[s] \notin Returned
  BY HandlerGoes DEF CoreInv, Inv, HandlerInv, WireInv
<1>2. UNCHANGED <<pc, verdict, punched_peer, peer_disconnect, secret, callbacks>>
  BY HandlerKeeps DEF medVars, peerVars
<1>3. \A t \in Session : t # s => Wire(t)'
  BY HandlerKeeps, WireKept DEF WireInv
<1>4. handler'[s] \notin {"none", "advertise"} => advertise'[s] = Adv(s)
  BY <1>1, HandlerGoes, HandlerKeeps DEF Wire
<1>5. handler'[s] \notin {"none", "gaveUp"}
  BY <1>1, HandlerGoes DEF Returned, FakeMediatorTypeOK, Running
<1>6. pc[s] = "advertised" =>
        \/ handler'[s] \in {"none", "advertise"} /\ inbox'[HandlerEnd(s)] = <<Adv(s)>>
        \/ handler'[s] \in {"abort", "aborted", "challenge", "quit"}
        \/ handler'[s] = "response" /\ inbox'[MedEnd(s)] = <<Chal(s)>>
  BY <1>1, HandlerGoes DEF Wire, Returned
<1>7. pc[s] # "challenged"
  BY <1>1, HandlerGoes DEF Wire, Returned
<1>8. pc[s] = "registered" =>
        \/ handler'[s] \in Registered \cup {"quit"}
        \/ handler'[s] \in Assigning /\ inbox'[MedEnd(s)] = <<Assignment(s)'>>
  <2>1. CASE handler[s] \in {"response", "lookup", "putClient", "putPeer", "await",
                             "waitDisconnect"}
    BY <2>1, HandlerGoes DEF Registered
  <2>2. CASE handler[s] = "identify"
    BY <2>2, HandlerGoes, HandlerKeeps DEF Assignment, Assigning
  <2>3. CASE handler[s] = "disconnect"
    BY <2>3, HandlerGoes DEF Assignment, Assigning
  <2>4. CASE handler[s] = "addDisconnect"
    BY <1>1, <2>4, HandlerGoes DEF Wire, Assignment, Assigning, Registered
  <2> QED BY <1>1, <2>1, <2>2, <2>3, <2>4
          DEF Wire, Registered, Assigning, Returned
<1>9. /\ punched_peer[s] = None
      /\ peer_disconnect[s] # None =>
           handler'[s] = "disconnected" /\ peer_disconnect[s] = s
  BY <1>1, HandlerGoes DEF Wire, Returned
<1>10. Wire(s)'
  BY <1>1, <1>2, <1>4, <1>5, <1>6, <1>7, <1>8, <1>9 DEF Wire
<1> QED BY <1>3, <1>10, StoredStep DEF WireInv

(***************************************************************************)
(* A session registers, is told its role, or is turned away.               *)
(***************************************************************************)
LEMMA Registers ==
  ASSUME CoreInv, WireInv, Faults = {}, NEW s \in Session,
         Connect(s) \/ Thread(s), pc[s] \in Unassigned
  PROVE  \/ pc[s] = "idle" /\ pc'[s] = "mediator"
         \/ pc[s] = "mediator" /\ pc'[s] = "advertise"
         \/ pc[s] = "advertise" /\ pc'[s] = "advertised"
         \/ pc[s] = "advertised" /\ pc'[s] = "challenged"
         \/ pc[s] = "challenged" /\ pc'[s] = "registered"
         \/ pc[s] = "registered" /\ pc'[s] = "client" /\ handler[s] = "identified"
         \/ /\ pc[s] = "registered" /\ pc'[s] = "peer"
            /\ handler[s] \in {"addDisconnect", "disconnected"}
         \/ pc'[s] = "returning" /\ handler[s] \in {"quit", "aborted"}
<1>1. /\ SessionInv /\ FakeMediatorTypeOK /\ Conversation(s) /\ Live(s) /\ Wire(s)
      /\ mediatorUp
  BY DEF CoreInv, Inv, HandlerInv, WireInv
<1>2. \A location : Go(s, location) => pc'[s] = location
  BY <1>1 DEF Go, SessionInv, ConnectionTypeOK, MediatorConnectionTypeOK
<1>3. Converses(s) \/ GivesUp(s)
  BY <1>1, MediatorSide DEF GoneOn, Unassigned, MediatorStage, PeerStage, Final
<1>4. CASE pc[s] = "mediator"
  <2>1. DialMediator(s)
    BY <1>4 DEF Connect, Thread, MediatorConnect, PeerHandshake, DialMediator,
       SendAdvertise, ReceiveAdvertiseRetry, ReceiveAdvertiseChallenge,
       SendAdvertiseResponse, ReceivePeerIdentification, ReceivePeerDisconnect,
       ReceiveUnexpected, LoseMediator, CloseMediatorAsClient, DialPeer,
       SendPeerChallenge, ReceivePeerChallengeResponse, SendPeerResponse,
       ReceivePeerAcknowledgement, CloseMediatorAsPeer, Listen, Accept,
       ReceivePeerChallenge, SendPeerChallengeResponse, ReceivePeerResponse,
       SendPeerAcknowledgement, LosePeer, Callback, CallbackThrows
  <2> QED BY <1>1, <1>2, <1>4, <2>1 DEF DialMediator
<1>5. CASE Converses(s) /\ pc[s] # "mediator"
  <2>1. CASE Hears(s, "advertised", "advertise", "AdvertiseRetry")
    <3>1. inbox[MedEnd(s)] # <<>> /\ Head(inbox[MedEnd(s)]).type = "AdvertiseRetry"
          /\ pc[s] = "advertised"
      BY <2>1 DEF Hears
    <3> QED BY <1>1, <3>1
            DEF Conversation, Finds, FakeMediatorTypeOK, Running, Returned,
                Registered, Assigning, Unassigned, MediatorStage, Final
  <2>2. CASE Hears(s, "registered", "client", "PeerIdentification")
             \/ Hears(s, "registered", "peer", "PeerDisconnect")
    <3>1. pc[s] = "registered" /\ inbox[MedEnd(s)] # <<>>
      BY <2>2 DEF Hears
    <3>2. handler[s] \in Assigning /\ inbox[MedEnd(s)] = <<Assignment(s)>>
      BY <1>1, <3>1 DEF Wire, Conversation
    <3>3. Head(inbox[MedEnd(s)]) = Assignment(s)
      BY <3>2, Singletons
    <3>4. Assignment(s).type = IF handler[s] = "identified"
                                 THEN "PeerIdentification" ELSE "PeerDisconnect"
      BY SMT DEF Assignment, PeerIdentification, PeerDisconnect, Blank
    <3> QED BY <1>2, <2>2, <3>1, <3>2, <3>3, <3>4 DEF Hears, Assigning
  <2> QED BY <1>2, <1>5, <2>1, <2>2 DEF Converses, Tells, Hears
<1>6. CASE GivesUp(s) /\ pc[s] # "mediator"
  <2>1. pc'[s] = "returning"
    <3>1. pc'[s] # "died"
      BY <1>1, <1>6, NotKilled DEF GivesUp
    <3>2. pc'[s] # "done"
      BY <1>1, <1>6, Arrives DEF Callback, GivesUp, MediatorStage
    <3> QED BY <1>6, <3>1, <3>2 DEF GivesUp, Final
  <2>2. Stuck(s) /\ pc[s] \in MediatorStage
    BY <1>6, <2>1 DEF GivesUp
  <2>3. CASE pc[s] \in {"advertise", "challenged"}
    <3>1. ~open[HandlerEnd(s)]
      BY <2>2, <2>3 DEF Stuck
    <3> QED BY <1>1, <2>1, <2>3, <3>1 DEF Live, Conversation, Wire, Running
  <2>4. CASE pc[s] = "advertised"
    <3>1. CASE inbox[MedEnd(s)] = <<>>
      <4>1. ~open[HandlerEnd(s)]
        BY <1>6, <2>2, <2>4, <3>1 DEF Stuck
      <4> QED BY <1>1, <2>1, <2>4, <4>1 DEF Live, Wire, Running
    <3>2. CASE inbox[MedEnd(s)] # <<>> /\ handler[s] \notin {"quit", "aborted"}
      <4>1. handler[s] = "response" /\ Finds(MedEnd(s), {"AdvertiseChallenge"})
        BY <1>1, <2>4, <3>2 DEF Conversation, Wire
      <4>2. open[HandlerEnd(s)]
        BY <1>1, <4>1 DEF Live, Running
      <4>3. Head(inbox[MedEnd(s)]).encrypted_nonce.key = KeyOf[s]
        BY <1>1, <3>2, <4>1, HeadUnread, Ends
        DEF Live, Finds, SessionInv, ConnectionTypeOK
      <4>4. ~(Len(inbox[MedEnd(s)]) > 1)
        <5>1. inbox[MedEnd(s)] \in Seq(Message)
          BY <1>1, Ends DEF SessionInv, ConnectionTypeOK, NetTypeOK
        <5> QED BY SMT, <4>1, <5>1 DEF Finds
      <4> QED BY <2>2, <2>4, <3>2, <4>1, <4>2, <4>3, <4>4 DEF Stuck, Finds
    <3> QED BY <2>1, <3>1, <3>2
  <2>5. CASE pc[s] = "registered"
    <3>1. CASE inbox[MedEnd(s)] = <<>>
      <4>1. ~open[HandlerEnd(s)]
        BY <1>6, <2>2, <2>5, <3>1 DEF Stuck
      <4>2. handler[s] \notin Assigning
        BY <1>1, <2>5, <3>1, Singletons DEF Wire, Registered, Assigning
      <4> QED BY <1>1, <2>1, <2>5, <4>1, <4>2 DEF Live, Wire, Running, Registered
    <3>2. CASE inbox[MedEnd(s)] # <<>>
      <4>1. Finds(MedEnd(s), {"PeerIdentification", "PeerDisconnect"})
            /\ handler[s] \in Assigning
        BY <1>1, <2>5, <3>2 DEF Conversation, Wire
      <4>2. ~(Len(inbox[MedEnd(s)]) > 1)
        <5>1. inbox[MedEnd(s)] \in Seq(Message)
          BY <1>1, Ends DEF SessionInv, ConnectionTypeOK, NetTypeOK
        <5> QED BY SMT, <4>1, <5>1 DEF Finds
      <4> QED BY <2>2, <2>5, <3>2, <4>1, <4>2 DEF Stuck, Finds
    <3> QED BY <3>1, <3>2
  <2> QED BY <1>6, <2>2, <2>3, <2>4, <2>5 DEF MediatorStage
<1> QED BY <1>3, <1>4, <1>5, <1>6
=============================================================================
