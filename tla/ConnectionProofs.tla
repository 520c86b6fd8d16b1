--------------------------- MODULE ConnectionProofs ---------------------------
(***************************************************************************)
(* Proofs about the sessions of Connection: that their variables keep      *)
(* their types, that a socket is only handed out for the right key, and    *)
(* that the two sides of a handshake keep in step.  All is shown for every *)
(* step of a session, and for every step of somebody else that leaves the  *)
(* sessions' variables and their connections to each other alone, so it    *)
(* holds with any Mediator.                                                *)
(***************************************************************************)
EXTENDS Connection, TLAPS

(***************************************************************************)
(* Facts about the connections of Network, which the proofs about the      *)
(* sessions and the Mediator cite instead of the definitions.              *)
(***************************************************************************)

(***************************************************************************)
(* The four ends of a session's two connections are distinct endpoints,    *)
(* and Far pairs the ends of a connection.                                 *)
(***************************************************************************)
LEMMA Ends ==
  /\ \A s \in Session : /\ MedEnd(s) \in Endpoint /\ HandlerEnd(s) \in Endpoint
                        /\ ClientEnd(s) \in Endpoint /\ PeerEnd(s) \in Endpoint
                        /\ Far(MedEnd(s)) = HandlerEnd(s)
                        /\ Far(HandlerEnd(s)) = MedEnd(s)
                        /\ Far(ClientEnd(s)) = PeerEnd(s)
                        /\ Far(PeerEnd(s)) = ClientEnd(s)
  /\ \A s, t \in Session : /\ MedEnd(s) # HandlerEnd(t)
                           /\ MedEnd(s) # ClientEnd(t)
                           /\ MedEnd(s) # PeerEnd(t)
                           /\ HandlerEnd(s) # ClientEnd(t)
                           /\ HandlerEnd(s) # PeerEnd(t)
                           /\ ClientEnd(s) # PeerEnd(t)
                           /\ MedEnd(s) = MedEnd(t) => s = t
                           /\ HandlerEnd(s) = HandlerEnd(t) => s = t
                           /\ ClientEnd(s) = ClientEnd(t) => s = t
                           /\ PeerEnd(s) = PeerEnd(t) => s = t
  /\ \A e \in Endpoint : Far(e) \in Endpoint
  BY DEF MedEnd, HandlerEnd, ClientEnd, PeerEnd, Far, Endpoint

(* Socket::_connect opens the two ends of its connection and no other. *)
LEMMA EstablishOpens ==
  ASSUME NetTypeOK, NEW e \in Endpoint, Establish(e)
  PROVE  /\ open' \in [Endpoint -> BOOLEAN]
         /\ open'[e] /\ open'[Far(e)]
         /\ \A f \in Endpoint \ {e, Far(e)} : open'[f] = open[f]
<1> DEFINE o == [open EXCEPT ![e] = TRUE]
<1>1. o \in [Endpoint -> BOOLEAN]
  BY DEF NetTypeOK
<1>2. open' = [o EXCEPT ![Far(e)] = TRUE]
  BY DEF Establish
<1>3. /\ Far(e) \in Endpoint
      /\ o[e] /\ \A f \in Endpoint \ {e} : o[f] = open[f]
  BY Ends DEF NetTypeOK
<1> HIDE DEF o
<1> QED BY Zenon, <1>1, <1>2, <1>3

(***************************************************************************)
(* Socket::send adds one message to what the other end has not read, and   *)
(* nothing else.                                                           *)
(***************************************************************************)
LEMMA SendAdds ==
  ASSUME NetTypeOK, NEW e \in Endpoint, NEW m \in Message, Send(e, m)
  PROVE  /\ inbox' \in [Endpoint -> Seq(Message)]
         /\ \A f \in Endpoint : \A x \in Unread(f)' :
              x \in Unread(f) \/ (f = Far(e) /\ x = m)
<1>1. Far(e) \in Endpoint
  BY Ends
<1>2. inbox' \in [Endpoint -> Seq(Message)]
  BY <1>1 DEF Send, NetTypeOK
<1>3. ASSUME NEW f \in Endpoint, NEW x \in Unread(f)'
      PROVE  x \in Unread(f) \/ (f = Far(e) /\ x = m)
  <2>1. PICK i \in DOMAIN inbox'[f] : x = inbox'[f][i]
    BY <1>3 DEF Unread
  <2>2. CASE inbox'[f] = inbox[f]
    BY <2>1, <2>2 DEF Unread
  <2>3. CASE f = Far(e) /\ inbox'[f] = Append(inbox[f], m)
    <3>1. inbox[f] \in Seq(Message)
      BY <1>3 DEF NetTypeOK
    <3>2. i \in 1 .. Len(inbox[f]) + 1
      BY <2>1, <2>3, <3>1
    <3>3. CASE i = Len(inbox[f]) + 1
      BY <2>1, <2>3, <3>1, <3>3
    <3>4. CASE i \in 1 .. Len(inbox[f])
      BY <2>1, <2>3, <3>1, <3>4 DEF Unread
    <3> QED BY <3>1, <3>2, <3>3, <3>4
  <2> QED BY <1>1, <1>3, <2>2, <2>3 DEF Send, NetTypeOK
<1> QED BY <1>2, <1>3

(***************************************************************************)
(* Socket::receive takes the first unread message and adds nothing.        *)
(***************************************************************************)
LEMMA ReceiveRemoves ==
  ASSUME NetTypeOK, NEW e \in Endpoint, inbox[e] # <<>>, Receive(e)
  PROVE  /\ inbox' \in [Endpoint -> Seq(Message)]
         /\ \A f \in Endpoint : Unread(f)' \subseteq Unread(f)
<1>1. inbox[e] \in Seq(Message) /\ inbox[e] # <<>>
  BY DEF NetTypeOK
<1>2. Tail(inbox[e]) \in Seq(Message)
  BY <1>1
<1>3. inbox' = [inbox EXCEPT ![e] = Tail(inbox[e])]
  BY DEF Receive
<1>4. inbox' \in [Endpoint -> Seq(Message)]
  BY <1>2, <1>3 DEF NetTypeOK
<1>5. ASSUME NEW f \in Endpoint, NEW x \in Unread(f)'
      PROVE  x \in Unread(f)
  <2>1. PICK i \in DOMAIN inbox'[f] : x = inbox'[f][i]
    BY <1>5 DEF Unread
  <2>2. CASE f # e
    BY <1>3, <2>1, <2>2 DEF Unread, NetTypeOK
  <2>3. CASE f = e
    <3>1. inbox'[e] = Tail(inbox[e])
      BY <1>3 DEF NetTypeOK
    <3>2. i + 1 \in DOMAIN inbox[e] /\ x = inbox[e][i + 1]
      BY <1>1, <2>1, <2>3, <3>1
    <3> QED BY <2>3, <3>2 DEF Unread
  <2> QED BY <2>2, <2>3
<1> QED BY <1>4, <1>5

(***************************************************************************)
(* What Head returns on a non-empty inbox is an unread message.            *)
(***************************************************************************)
LEMMA HeadUnread ==
  ASSUME NetTypeOK, NEW e \in Endpoint, inbox[e] # <<>>
  PROVE  Head(inbox[e]) \in Message /\ Head(inbox[e]) \in Unread(e)
<1>1. inbox[e] \in Seq(Message)
  BY DEF NetTypeOK
<1>2. 1 \in DOMAIN inbox[e] /\ Head(inbox[e]) = inbox[e][1]
  BY <1>1
<1>3. inbox[e][1] \in Message
  BY <1>1, <1>2
<1> QED BY <1>2, <1>3 DEF Unread
-----------------------------------------------------------------------------
(***************************************************************************)
(* Socket::send appends at the other end if that end is still open, and    *)
(* leaves every other end alone.                                           *)
(***************************************************************************)
LEMMA SendAppends ==
  ASSUME NetTypeOK, NEW e \in Endpoint, NEW m, Send(e, m)
  PROVE  /\ \/ inbox'[Far(e)] = inbox[Far(e)]
            \/ inbox'[Far(e)] = Append(inbox[Far(e)], m)
         /\ open[Far(e)] => inbox'[Far(e)] = Append(inbox[Far(e)], m)
         /\ \A f \in Endpoint \ {Far(e)} : inbox'[f] = inbox[f]
  BY Ends DEF Send, NetTypeOK

(* Socket::receive shortens what one end has not read. *)
LEMMA ReceiveTakes ==
  ASSUME NetTypeOK, NEW e \in Endpoint, Receive(e)
  PROVE  /\ inbox'[e] = Tail(inbox[e])
         /\ \A f \in Endpoint \ {e} : inbox'[f] = inbox[f]
  BY DEF Receive, NetTypeOK

(***************************************************************************)
(* What Finds says where nothing is unread, after a read and after a send. *)
(***************************************************************************)
LEMMA FindsAfter ==
  ASSUME NEW e, inbox[e] \in Seq(Message), NEW types
  PROVE  /\ inbox[e] = <<>> => Finds(e, types)
         /\ Finds(e, types) /\ inbox[e] # <<>> => Tail(inbox[e]) = <<>>
         /\ \A m \in Message : Append(<<>>, m) = <<m>>
  BY DEF Finds

LEMMA FindsSent ==
  ASSUME NEW e, NEW types, NEW m \in Message, inbox[e] = <<>>, m.type \in types,
         inbox'[e] = inbox[e] \/ inbox'[e] = Append(inbox[e], m)
  PROVE  Finds(e, types)'
<1>1. CASE inbox'[e] = <<>>
  BY <1>1 DEF Finds
<1>2. CASE inbox'[e] = Append(<<>>, m)
  <2>1. Len(inbox'[e]) = 1 /\ Head(inbox'[e]) = m
    BY <1>2
  <2> QED BY <2>1 DEF Finds
<1> QED BY <1>1, <1>2
-----------------------------------------------------------------------------
(* Most leaves are first-order; the ones that are not cite SMT. *)
USE Zenon

(***************************************************************************)
(* The required fields, type by type.                                      *)
(***************************************************************************)
LEMMA RequiredFields ==
  /\ Required("Advertise") = {"version", "our_key", "their_key"}
  /\ Required("AdvertiseChallenge") = {"encrypted_nonce"}
  /\ Required("AdvertiseResponse") = {"nonce"}
  /\ Required("AdvertiseAbort") = {"reason"}
  /\ Required("AdvertiseRetry") = {"reason"}
  /\ Required("PeerDisconnect") = {"port"}
  /\ Required("PeerIdentification") = {"version", "ip", "port"}
  /\ Required("PeerChallenge") = {"encrypted_nonce"}
  /\ Required("PeerChallengeResponse") = {"encrypted_nonce", "decrypted_nonce"}
  /\ Required("PeerResponse") = {"decrypted_nonce"}
  /\ Required("PeerAcknowledgement") = {}
  BY DEF Required, AdvertiseCodec, AdvertiseChallengeCodec,
         AdvertiseResponseCodec, AdvertiseAbortCodec, AdvertiseRetryCodec,
         PeerDisconnectCodec, PeerIdentificationCodec, PeerChallengeCodec,
         PeerChallengeResponseCodec, PeerResponseCodec, PeerAcknowledgementCodec

(***************************************************************************)
(* What is sent is a message.                                              *)
(***************************************************************************)
LEMMA Constructors ==
  /\ ApplicationData \in Message
  /\ PeerAcknowledgement \in Message
  /\ AdvertiseAbort \in Message
  /\ AdvertiseRetry \in Message
  /\ \A v \in Version : \A k, l \in Key : Advertise(v, k, l) \in Message
  /\ \A n \in Nonce : /\ AdvertiseResponse(n) \in Message
                      /\ PeerResponse(n) \in Message
  /\ \A c \in Cipher : /\ AdvertiseChallenge(c) \in Message
                       /\ PeerChallenge(c) \in Message
  /\ \A c \in Cipher : \A n \in Nonce : PeerChallengeResponse(c, n) \in Message
  /\ \A a \in Address : PeerDisconnect(a) \in Message
  /\ \A a \in Address : \A v \in Version : PeerIdentification(v, a) \in Message
<1> USE RequiredFields DEF Message, Fields, Blank, MessageType, Complete
<1>1. ApplicationData \in Message
  BY DEF ApplicationData
<1>2. PeerAcknowledgement \in Message
  BY DEF PeerAcknowledgement
<1>3. AdvertiseAbort \in Message /\ AdvertiseRetry \in Message
  BY DEF AdvertiseAbort, AdvertiseRetry
<1>4. \A v \in Version : \A k, l \in Key : Advertise(v, k, l) \in Message
  BY DEF Advertise
<1>5. \A n \in Nonce : AdvertiseResponse(n) \in Message
  BY DEF AdvertiseResponse
<1>6. \A n \in Nonce : PeerResponse(n) \in Message
  BY DEF PeerResponse
<1>7. \A c \in Cipher : AdvertiseChallenge(c) \in Message
  BY DEF AdvertiseChallenge
<1>8. \A c \in Cipher : PeerChallenge(c) \in Message
  BY DEF PeerChallenge
<1>9. \A c \in Cipher : \A n \in Nonce : PeerChallengeResponse(c, n) \in Message
  BY DEF PeerChallengeResponse
<1>10. \A a \in Address : PeerDisconnect(a) \in Message
  BY DEF PeerDisconnect
<1>11. \A a \in Address : \A v \in Version : PeerIdentification(v, a) \in Message
  BY DEF PeerIdentification
<1> QED
  BY <1>1, <1>2, <1>3, <1>4, <1>5, <1>6, <1>7, <1>8, <1>9, <1>10, <1>11

(***************************************************************************)
(* What decode<T> accepts although it does not compare types, and that the *)
(* fields the reader then uses are there.                                  *)
(***************************************************************************)
LEMMA Decoded ==
  ASSUME NEW m \in Message
  PROVE  /\ Decodes("PeerChallenge", m) =>
              /\ m.type \in {"AdvertiseChallenge", "PeerChallenge",
                             "PeerChallengeResponse"}
              /\ m.encrypted_nonce \in Cipher
         /\ Decodes("PeerChallengeResponse", m) =>
              /\ m.type = "PeerChallengeResponse"
              /\ m.encrypted_nonce \in Cipher
              /\ m.nonce \in Nonce
         /\ Decodes("PeerResponse", m) =>
              /\ m.type \in {"PeerChallengeResponse", "PeerResponse"}
              /\ m.nonce \in Nonce
         /\ m.type = "AdvertiseChallenge" => m.encrypted_nonce \in Cipher
         /\ m.type = "PeerDisconnect" => m.address \in Address
         /\ m.type = "PeerIdentification" =>
              m.address \in Address /\ m.version \in Version
         /\ Decodes("Advertise", m) =>
              m.our_key \in Key /\ m.their_key \in Key /\ m.version \in Version
<1> USE RequiredFields DEF Message, Complete, Fields, MessageType
<1>1. /\ m.type = "AdvertiseChallenge" => m.encrypted_nonce \in Cipher
      /\ m.type = "PeerDisconnect" => m.address \in Address
      /\ m.type = "PeerIdentification" =>
           m.address \in Address /\ m.version \in Version
  OBVIOUS
<1>2. Decodes("PeerChallenge", m) =>
              /\ m.type \in {"AdvertiseChallenge", "PeerChallenge",
                             "PeerChallengeResponse"}
              /\ m.encrypted_nonce \in Cipher
  BY DEF Decodes, DecodesType
<1>3. Decodes("PeerChallengeResponse", m) =>
              /\ m.type = "PeerChallengeResponse"
              /\ m.encrypted_nonce \in Cipher
              /\ m.nonce \in Nonce
  BY DEF Decodes, DecodesType
<1>4. Decodes("PeerResponse", m) =>
              /\ m.type \in {"PeerChallengeResponse", "PeerResponse"}
              /\ m.nonce \in Nonce
  BY DEF Decodes, DecodesType
<1>5. Decodes("Advertise", m) =>
        m.our_key \in Key /\ m.their_key \in Key /\ m.version \in Version
  BY DEF Decodes, DecodesType
<1> QED BY <1>1, <1>2, <1>3, <1>4, <1>5
-----------------------------------------------------------------------------
(***************************************************************************)
(* What the local variables of a thread hold at each place of the code:    *)
(* the optionals of MediatorConnection, the socket of the Peer handshake   *)
(* and the decrypted nonce are set wherever the code reads them.           *)
(***************************************************************************)
Unassigned     == {"idle"} \cup MediatorStage
ClientDialled  == {"dialled", "challenging", "answering", "answered"}
ClientLocation == {"client", "dial", "redial"} \cup ClientDialled
PeerAccepted   == {"accepted", "replying", "replied", "acking"}
PeerLocation   == {"peer", "bind", "accept"} \cup PeerAccepted
Final          == {"returning", "done", "died"}

Defined(s) ==
  /\ pc[s] \in Unassigned \cup PeerLocation => punched_peer[s] = None
  /\ pc[s] \in ClientLocation => punched_peer[s] \in PunchedPeer
  /\ pc[s] \in PeerLocation => peer_disconnect[s] \in Address
  /\ pc[s] \in Unassigned \cup {"client", "dial", "redial"} => dial[s] = None
  /\ pc[s] \in ClientDialled => dial[s] \in Session
  /\ pc[s] \in PeerAccepted => accepted[s] \in Session /\ dial[accepted[s]] = s
  /\ pc[s] \in {"challenged", "answering", "replying"} => secret[s] \in Nonce
  /\ pc[s] = "returning" => verdict[s] # None
  /\ GotSocket(s) => pc[s] \in Final /\ Partner(s) \in Session

SessionInv == ConnectionTypeOK /\ \A s \in Session : Defined(s)
-----------------------------------------------------------------------------
(***************************************************************************)
(* A step that leaves the variables of session t alone, and every p2p      *)
(* connection that has been dialled.                                       *)
(***************************************************************************)
Same(t) ==
  /\ pc'[t] = pc[t] /\ verdict'[t] = verdict[t]
  /\ punched_peer'[t] = punched_peer[t]
  /\ peer_disconnect'[t] = peer_disconnect[t]
  /\ secret'[t] = secret[t] /\ dial'[t] = dial[t]
  /\ accepted'[t] = accepted[t] /\ callbacks'[t] = callbacks[t]
  /\ \A c \in Session : dial[c] # None => dial'[c] = dial[c]

(* Defined(t) speaks of nothing but what Same(t) keeps. *)
LEMMA SameDefined ==
  ASSUME NEW t \in Session, Defined(t), Same(t)
  PROVE  Defined(t)'
  BY NoneAssumption DEF Defined, Same, GotSocket, Partner, Role

(***************************************************************************)
(* It is enough to look at the session that takes the step.                *)
(***************************************************************************)
LEMMA OneSession ==
  ASSUME SessionInv, NEW s \in Session, ConnectionTypeOK',
         \A t \in Session \ {s} : Same(t), Defined(s)'
  PROVE  SessionInv'
  BY SameDefined DEF SessionInv

(***************************************************************************)
(* Before _connect returns, neither it nor the callback has seen a socket. *)
(***************************************************************************)
LEMMA NoSocketYet ==
  ASSUME SessionInv, NEW s \in Session, pc[s] \notin Final
  PROVE  ~GotSocket(s)
  BY DEF SessionInv, Defined

(***************************************************************************)
(* The exceptions of both handshakes.                                      *)
(***************************************************************************)
LEMMA ThrowDefined ==
  ASSUME SessionInv, NEW s \in Session, NEW kind \in ErrorKind,
         Throw(s, kind) \/ (MediatorThrow(s, kind) /\ UNCHANGED peerVars),
         UNCHANGED callbacks, pc[s] \notin Final
  PROVE  SessionInv' /\ \A t \in Session \ {s} : Same(t)
<1> USE DEF SessionInv, ConnectionTypeOK, MediatorConnectionTypeOK, NetTypeOK
<1>1. /\ pc' = [pc EXCEPT ![s] = "returning"]
      /\ verdict' = [verdict EXCEPT ![s] = kind]
      /\ UNCHANGED <<inbox, advertise_retries, connected, punched_peer,
                     peer_disconnect, secret, mediatorUp, nonce, dial,
                     accepted, callbacks>>
  BY DEF Throw, MediatorThrow, Go, peerVars
<1>2. open' \in [Endpoint -> BOOLEAN]
  <2>1. CASE Throw(s, kind)
    BY <2>1 DEF Throw, CloseAll
  <2>2. CASE MediatorThrow(s, kind)
    BY <2>2 DEF MediatorThrow
  <2> QED BY <2>1, <2>2
<1>3. listener' \in [Address -> Session \cup {None}]
  BY DEF Throw, MediatorThrow, StopListening, peerVars
<1>4. ConnectionTypeOK'
  BY <1>1, <1>2, <1>3 DEF Location
<1>5. \A t \in Session \ {s} : Same(t)
  BY <1>1 DEF Same
<1>6. Defined(s)'
  <2>1. /\ pc'[s] = "returning" /\ verdict'[s] = kind
        /\ callbacks'[s] = callbacks[s]
    BY <1>1
  <2>2. ~GotSocket(s)'
    BY <2>1, NoSocketYet DEF GotSocket, ErrorKind
  <2> QED BY <2>1, <2>2, AbsentAssumption
          DEF Defined, Unassigned, ClientLocation, ClientDialled,
              PeerLocation, PeerAccepted, MediatorStage
<1> QED BY <1>4, <1>5, <1>6, OneSession

(***************************************************************************)
(* The end of a process keeps the invariant.                               *)
(***************************************************************************)
LEMMA DieDefined ==
  ASSUME SessionInv, NEW s \in Session, Die(s), UNCHANGED callbacks
  PROVE  SessionInv' /\ \A t \in Session \ {s} : Same(t)
<1> USE DEF ConnectionTypeOK, MediatorConnectionTypeOK, NetTypeOK, Go
<1>1. ConnectionTypeOK /\ Defined(s)
  BY DEF SessionInv
<1>2. ConnectionTypeOK'
  BY <1>1 DEF Die, CloseAll, StopListening, Location
<1>3. \A t \in Session \ {s} : Same(t)
  BY <1>1 DEF Die, Same
<1>4. Defined(s)'
  BY <1>1 DEF Die, Defined, GotSocket, Partner, Role, Unassigned,
              ClientLocation, ClientDialled, PeerLocation, PeerAccepted,
              MediatorStage, Final
<1> QED BY <1>2, <1>3, <1>4, OneSession

(***************************************************************************)
(* MediatorConnection::connect keeps the invariant.                        *)
(***************************************************************************)
LEMMA MediatorConnectDefined ==
  ASSUME SessionInv, NEW s \in Session, MediatorConnect(s), UNCHANGED peerVars
  PROVE  SessionInv' /\ \A t \in Session \ {s} : Same(t)
<1>1. ConnectionTypeOK /\ Defined(s) /\ NetTypeOK
  BY DEF SessionInv, ConnectionTypeOK
<1>2. MedEnd(s) \in Endpoint
  BY Ends
<1>3. \A kind \in ErrorKind : MediatorThrow(s, kind) /\ pc[s] \in MediatorStage
        => SessionInv' /\ \A t \in Session \ {s} : Same(t)
  BY ThrowDefined DEF MediatorStage, Final, peerVars
<1>4. ReadableAnyType(MedEnd(s)) =>
        inbox[MedEnd(s)] # <<>> /\ Head(inbox[MedEnd(s)]) \in Message
  BY <1>1, <1>2, HeadUnread DEF ReadableAnyType
<1>5. ASSUME pc[s] \in MediatorStage, UNCHANGED <<verdict, callbacks>>
      PROVE  ~GotSocket(s)'
  BY <1>5, NoSocketYet DEF GotSocket, MediatorStage, Final
<1> USE SessionAssumption, NoneAssumption, AbsentAssumption
    DEF Go, peerVars, ConnectionTypeOK, MediatorConnectionTypeOK, NetTypeOK,
        Unassigned, ClientLocation, ClientDialled, PeerLocation, PeerAccepted,
        MediatorStage
<1>6. CASE DialMediator(s)
  <2>1. CASE Go(s, "advertise")
    <3>1. ConnectionTypeOK'
      <4>1. open' \in [Endpoint -> BOOLEAN]
        BY <1>1, <1>2, <1>6, <2>1, EstablishOpens
        DEF DialMediator, MediatorThrow
      <4> QED BY <1>1, <1>6, <2>1, <4>1
              DEF DialMediator, Location, MediatorThrow
    <3>2. \A t \in Session \ {s} : Same(t)
      BY <1>1, <1>6, <2>1
      DEF DialMediator, Same, MediatorThrow
    <3>3. Defined(s)'
      BY <1>1, <1>5, <1>6, <2>1
      DEF DialMediator, Defined, MediatorThrow
    <3> QED BY <3>1, <3>2, <3>3, OneSession
  <2>2. CASE MediatorThrow(s, "kErrorMediatorConnectFailure")
    BY <1>3, <1>6, <2>2
    DEF DialMediator, ErrorKind
  <2> QED BY <1>6, <2>1, <2>2 DEF DialMediator
<1>7. CASE SendAdvertise(s)
  <2>1. inbox' \in [Endpoint -> Seq(Message)]
    BY <1>1, <1>2, <1>7, SendAdds, Constructors
    DEF SendAdvertise
  <2>2. ConnectionTypeOK'
    BY <1>1, <1>2, <1>7, <2>1
    DEF SendAdvertise, Location
  <2>3. \A t \in Session \ {s} : Same(t)
    BY <1>1, <1>7
    DEF SendAdvertise, Same
  <2>4. Defined(s)'
    BY <1>1, <1>5, <1>7
    DEF SendAdvertise, Defined
  <2> QED BY <2>2, <2>3, <2>4, OneSession
<1>8. CASE ReceiveAdvertiseRetry(s)
  <2>1. CASE Go(s, "advertise")
    <3>1. inbox' \in [Endpoint -> Seq(Message)]
      BY <1>1, <1>2, <1>4, <1>8, <2>1, ReceiveRemoves
      DEF ReceiveAdvertiseRetry, MediatorThrow
    <3>2. advertise_retries' \in [Session -> 0 .. MAX_ADVERTISE_RETRIES]
      <4>1. /\ advertise_retries[s] # MAX_ADVERTISE_RETRIES
            /\ advertise_retries' =
                 [advertise_retries EXCEPT ![s] = advertise_retries[s] + 1]
        BY <1>1, <1>8, <2>1
        DEF ReceiveAdvertiseRetry, RetriesExhausted, MediatorThrow
      <4>2. advertise_retries[s] + 1 \in 0 .. MAX_ADVERTISE_RETRIES
        BY SMT, <1>1, <4>1
      <4> QED BY <1>1, <4>1, <4>2
    <3>3. ConnectionTypeOK'
      BY <1>1, <1>2, <1>8, <2>1, <3>1, <3>2
      DEF ReceiveAdvertiseRetry, Location, MediatorThrow
    <3>4. \A t \in Session \ {s} : Same(t)
      BY <1>1, <1>8, <2>1
      DEF ReceiveAdvertiseRetry, Same, MediatorThrow
    <3>5. Defined(s)'
      BY <1>1, <1>5, <1>8, <2>1, <3>2
      DEF ReceiveAdvertiseRetry, Defined, MediatorThrow
    <3> QED BY <3>3, <3>4, <3>5, OneSession
  <2>2. CASE MediatorThrow(s, "kErrorUnknown")
    BY <1>3, <1>8, <2>2
    DEF ReceiveAdvertiseRetry, ErrorKind
  <2> QED BY <1>8, <2>1, <2>2 DEF ReceiveAdvertiseRetry
<1>9. CASE ReceiveAdvertiseChallenge(s)
  <2>1. CASE Go(s, "challenged")
    <3>1. inbox' \in [Endpoint -> Seq(Message)]
      BY <1>1, <1>2, <1>4, <1>9, <2>1, ReceiveRemoves
      DEF ReceiveAdvertiseChallenge, MediatorThrow
    <3>2. secret' = [secret EXCEPT ![s] = secret'[s]] /\ secret'[s] \in Nonce
      BY <1>1, <1>2, <1>9, <2>1, <1>4, Decoded
      DEF ReceiveAdvertiseChallenge, CanDecrypt, Decrypt, Cipher,
          MediatorThrow
    <3>3. ConnectionTypeOK'
      BY <1>1, <1>2, <1>9, <2>1, <3>1, <3>2
      DEF ReceiveAdvertiseChallenge, Location, MediatorThrow
    <3>4. \A t \in Session \ {s} : Same(t)
      BY <1>1, <1>9, <2>1
      DEF ReceiveAdvertiseChallenge, Same, MediatorThrow
    <3>5. Defined(s)'
      BY <1>1, <1>5, <1>9, <2>1, <3>2
      DEF ReceiveAdvertiseChallenge, Defined, MediatorThrow
    <3> QED BY <3>3, <3>4, <3>5, OneSession
  <2>2. CASE MediatorThrow(s, "kErrorUnknown")
    BY <1>3, <1>9, <2>2
    DEF ReceiveAdvertiseChallenge, ErrorKind
  <2> QED BY <1>9, <2>1, <2>2 DEF ReceiveAdvertiseChallenge
<1>10. CASE SendAdvertiseResponse(s)
  <2>1. inbox' \in [Endpoint -> Seq(Message)]
    BY <1>1, <1>2, <1>10, SendAdds, Constructors
    DEF SendAdvertiseResponse, Defined
  <2>2. ConnectionTypeOK'
    BY <1>1, <1>2, <1>10, <2>1
    DEF SendAdvertiseResponse, Location
  <2>3. \A t \in Session \ {s} : Same(t)
    BY <1>1, <1>10
    DEF SendAdvertiseResponse, Same
  <2>4. Defined(s)'
    BY <1>1, <1>5, <1>10
    DEF SendAdvertiseResponse, Defined
  <2> QED BY <2>2, <2>3, <2>4, OneSession
<1>11. CASE ReceivePeerIdentification(s)
  <2>1. inbox' \in [Endpoint -> Seq(Message)]
    BY <1>1, <1>2, <1>4, <1>11, ReceiveRemoves
    DEF ReceivePeerIdentification
  <2>2. ConnectionTypeOK'
    BY <1>1, <1>2, <1>11, <2>1, <1>4, Decoded
    DEF ReceivePeerIdentification, PeerStage, PunchedPeer, Location
  <2>3. \A t \in Session \ {s} : Same(t)
    BY <1>1, <1>11
    DEF ReceivePeerIdentification, Same
  <2>4. Defined(s)'
    BY <1>1, <1>5, <1>11, <1>4, Decoded
    DEF ReceivePeerIdentification, Defined, PunchedPeer
  <2> QED BY <2>2, <2>3, <2>4, OneSession
<1>12. CASE ReceivePeerDisconnect(s)
  <2>1. inbox' \in [Endpoint -> Seq(Message)]
    BY <1>1, <1>2, <1>4, <1>12, ReceiveRemoves
    DEF ReceivePeerDisconnect
  <2>2. ConnectionTypeOK'
    BY <1>1, <1>2, <1>12, <2>1, <1>4, Decoded
    DEF ReceivePeerDisconnect, PeerStage, Location
  <2>3. \A t \in Session \ {s} : Same(t)
    BY <1>1, <1>12
    DEF ReceivePeerDisconnect, Same
  <2>4. Defined(s)'
    BY <1>1, <1>5, <1>12, <1>4, Decoded
    DEF ReceivePeerDisconnect, Defined
  <2> QED BY <2>2, <2>3, <2>4, OneSession
<1>13. CASE ReceiveUnexpected(s)
  BY <1>3, <1>13 DEF ReceiveUnexpected, ErrorKind
<1>14. CASE LoseMediator(s)
  BY <1>3, <1>14 DEF LoseMediator, ErrorKind
<1> QED BY <1>6, <1>7, <1>8, <1>9, <1>10, <1>11, <1>12, <1>13, <1>14
        DEF MediatorConnect

(***************************************************************************)
(* The end of the peer connection that a session uses is an endpoint.      *)
(***************************************************************************)
LEMMA P2pEnds ==
  ASSUME SessionInv, NEW s \in Session
  PROVE  /\ pc[s] \in ClientDialled => P2pEnd(s) = ClientEnd(s)
         /\ pc[s] \in PeerAccepted => P2pEnd(s) = PeerEnd(accepted[s])
         /\ GotSocket(s) => P2pEnd(s) \in Endpoint
         /\ pc[s] \in ClientDialled \cup PeerAccepted => P2pEnd(s) \in Endpoint
<1>1. Defined(s)
  BY DEF SessionInv
<1> QED BY <1>1, Ends, AbsentAssumption
        DEF Defined, P2pEnd, Role, Partner, ClientLocation, PeerLocation

(***************************************************************************)
(* The Peer handshake, up to the callback, keeps the invariant.            *)
(***************************************************************************)
LEMMA PeerHandshakeDefined ==
  ASSUME SessionInv, NEW s \in Session, PeerHandshake(s),
         pc[s] \in PeerStage
  PROVE  SessionInv' /\ \A t \in Session \ {s} : Same(t)
<1>1. ConnectionTypeOK /\ Defined(s) /\ NetTypeOK
  BY DEF SessionInv, ConnectionTypeOK
<1>2. /\ MedEnd(s) \in Endpoint /\ ClientEnd(s) \in Endpoint
      /\ pc[s] \in PeerAccepted => P2pEnd(s) \in Endpoint
  BY Ends, P2pEnds
<1>3. \A kind \in ErrorKind :
        Throw(s, kind) /\ UNCHANGED callbacks
        => SessionInv' /\ \A t \in Session \ {s} : Same(t)
  BY ThrowDefined DEF PeerStage, Final
<1>4. \A e \in Endpoint : \A T : Readable(e, T) =>
        inbox[e] # <<>> /\ Head(inbox[e]) \in Message
  BY <1>1, HeadUnread DEF Readable
<1>5. ASSUME UNCHANGED <<verdict, callbacks>>
      PROVE  ~GotSocket(s)'
  BY <1>5, NoSocketYet DEF GotSocket, PeerStage, Final
<1> USE SessionAssumption, NoneAssumption, AbsentAssumption
    DEF Go, peerVars, ConnectionTypeOK, MediatorConnectionTypeOK, NetTypeOK,
        Unassigned, ClientLocation, ClientDialled, PeerLocation, PeerAccepted,
        MediatorStage, netVars
<1>6. CASE CloseMediatorAsClient(s)
  <2>1. CASE Go(s, "dial")
    <3>1. ConnectionTypeOK'
      BY <1>1, <1>2, <1>6, <2>1
      DEF CloseMediatorAsClient, PeerStage, Location, Throw
    <3>2. \A t \in Session \ {s} : Same(t)
      BY <1>1, <1>6, <2>1
      DEF CloseMediatorAsClient, Same, Throw
    <3>3. Defined(s)'
      BY <1>1, <1>5, <1>6, <2>1
      DEF CloseMediatorAsClient, Defined, Throw
    <3> QED BY <3>1, <3>2, <3>3, OneSession
  <2>2. CASE Throw(s, "kErrorPeerUnsupportedProtocolVersion")
    BY <1>3, <1>6, <2>2
    DEF CloseMediatorAsClient, ErrorKind
  <2> QED BY <1>6, <2>1, <2>2 DEF CloseMediatorAsClient
<1>7. CASE DialPeer(s)
  <2>1. CASE Go(s, "dialled")
    <3>1. punched_peer[s].address \in Address /\ dial[s] = None
      BY <1>1, <1>7, <2>1 DEF DialPeer, Defined, PunchedPeer
    <3>2. dial' = [dial EXCEPT ![s] = listener[punched_peer[s].address]]
          /\ listener[punched_peer[s].address] \in Session
      BY <1>1, <1>7, <2>1, <3>1 DEF DialPeer, Throw
    <3>3. ConnectionTypeOK'
      <4>1. open' \in [Endpoint -> BOOLEAN]
        BY <1>1, <1>2, <1>7, <2>1, EstablishOpens DEF DialPeer, Throw
      <4>2. pc' = [pc EXCEPT ![s] = "dialled"]
            /\ UNCHANGED <<inbox, verdict, advertise_retries, connected,
                           punched_peer, peer_disconnect, secret, mediatorUp,
                           nonce, accepted, listener, callbacks>>
        BY <1>1, <1>7, <2>1 DEF DialPeer, Throw
      <4> QED BY <1>1, <3>2, <4>1, <4>2 DEF PeerStage, Location
    <3>4. \A t \in Session \ {s} : Same(t)
      BY SMT, <1>1, <1>7, <2>1, <3>1, <3>2 DEF DialPeer, Same, Throw
    <3>5. Defined(s)'
      BY <1>1, <1>5, <1>7, <2>1, <3>2 DEF DialPeer, Defined, Throw
    <3> QED BY <3>3, <3>4, <3>5, OneSession
  <2>2. CASE Go(s, "redial")
    <3>1. ConnectionTypeOK'
      BY <1>1, <1>7, <2>2 DEF DialPeer, PeerStage, Location, Throw
    <3>2. \A t \in Session \ {s} : Same(t)
      BY <1>1, <1>7, <2>2 DEF DialPeer, Same, Throw
    <3>3. Defined(s)'
      BY <1>1, <1>5, <1>7, <2>2 DEF DialPeer, Defined, Throw
    <3> QED BY <3>1, <3>2, <3>3, OneSession
  <2>3. CASE Throw(s, "kErrorUnknown") /\ UNCHANGED callbacks
    BY <1>3, <2>3 DEF ErrorKind
  <2> QED BY <1>7, <2>1, <2>2, <2>3 DEF DialPeer
<1>8. CASE SendPeerChallenge(s)
  <2>1. inbox' \in [Endpoint -> Seq(Message)]
    BY <1>1, <1>2, <1>8, SendAdds, Constructors
    DEF SendPeerChallenge, Encrypt, Cipher
  <2>2. PICK n \in Nonce : nonce' = [nonce EXCEPT ![s] = n]
    BY <1>8 DEF SendPeerChallenge
  <2>3. /\ pc' = [pc EXCEPT ![s] = "challenging"]
        /\ UNCHANGED <<open, verdict, advertise_retries, connected,
                       punched_peer, peer_disconnect, secret, mediatorUp,
                       dial, accepted, listener, callbacks>>
    BY <1>8 DEF SendPeerChallenge
  <2>4. ConnectionTypeOK'
    BY <1>1, <2>1, <2>2, <2>3 DEF PeerStage, Location
  <2>5. \A t \in Session \ {s} : Same(t)
    BY <1>1, <2>2, <2>3 DEF Same
  <2>6. Defined(s)'
    BY <1>1, <1>5, <1>8
    DEF SendPeerChallenge, Defined
  <2> QED BY <2>4, <2>5, <2>6, OneSession
<1>9. CASE ReceivePeerChallengeResponse(s)
  <2>1. CASE Go(s, "answering")
    <3>1. inbox' \in [Endpoint -> Seq(Message)]
      BY <1>1, <1>2, <1>4, <1>9, <2>1, ReceiveRemoves
      DEF ReceivePeerChallengeResponse, Throw
    <3>2. secret' = [secret EXCEPT ![s] = secret'[s]] /\ secret'[s] \in Nonce
      BY <1>1, <1>2, <1>9, <2>1, <1>4, Decoded
      DEF ReceivePeerChallengeResponse, Readable, CanDecrypt, Decrypt, Cipher,
          Throw
    <3>3. ConnectionTypeOK'
      BY <1>1, <1>2, <1>9, <2>1, <3>1, <3>2
      DEF ReceivePeerChallengeResponse, PeerStage, Location, Throw
    <3>4. \A t \in Session \ {s} : Same(t)
      BY <1>1, <1>9, <2>1
      DEF ReceivePeerChallengeResponse, Same, Throw
    <3>5. Defined(s)'
      BY <1>1, <1>5, <1>9, <2>1, <3>2
      DEF ReceivePeerChallengeResponse, Defined, Throw
    <3> QED BY <3>3, <3>4, <3>5, OneSession
  <2>2. CASE Throw(s, "kErrorUnknown")
    BY <1>3, <1>9, <2>2
    DEF ReceivePeerChallengeResponse, ErrorKind
  <2> QED BY <1>9, <2>1, <2>2 DEF ReceivePeerChallengeResponse
<1>10. CASE SendPeerResponse(s)
  <2>1. inbox' \in [Endpoint -> Seq(Message)]
    BY <1>1, <1>2, <1>10, SendAdds, Constructors
    DEF SendPeerResponse, Defined
  <2>2. ConnectionTypeOK'
    BY <1>1, <1>2, <1>10, <2>1
    DEF SendPeerResponse, PeerStage, Location
  <2>3. \A t \in Session \ {s} : Same(t)
    BY <1>1, <1>10
    DEF SendPeerResponse, Same
  <2>4. Defined(s)'
    BY <1>1, <1>5, <1>10
    DEF SendPeerResponse, Defined
  <2> QED BY <2>2, <2>3, <2>4, OneSession
<1>11. CASE ReceivePeerAcknowledgement(s)
  <2>1. inbox' \in [Endpoint -> Seq(Message)]
    BY <1>1, <1>2, <1>4, <1>11, ReceiveRemoves
    DEF ReceivePeerAcknowledgement
  <2>2. ConnectionTypeOK'
    BY <1>1, <1>2, <1>11, <2>1
    DEF ReceivePeerAcknowledgement, Location
  <2>3. \A t \in Session \ {s} : Same(t)
    BY <1>1, <1>11
    DEF ReceivePeerAcknowledgement, Same
  <2>4. Defined(s)'
    BY <1>1, <1>5, <1>11
    DEF ReceivePeerAcknowledgement, Defined, GotSocket, Partner, Role, Final
  <2> QED BY <2>2, <2>3, <2>4, OneSession
<1>12. CASE CloseMediatorAsPeer(s)
  <2>1. ConnectionTypeOK'
    BY <1>1, <1>2, <1>12
    DEF CloseMediatorAsPeer, PeerStage, Location
  <2>2. \A t \in Session \ {s} : Same(t)
    BY <1>1, <1>12
    DEF CloseMediatorAsPeer, Same
  <2>3. Defined(s)'
    BY <1>1, <1>5, <1>12
    DEF CloseMediatorAsPeer, Defined
  <2> QED BY <2>1, <2>2, <2>3, OneSession
<1>13. CASE Listen(s)
  <2>1. CASE Go(s, "accept")
    <3>1. peer_disconnect[s] \in Address
      BY <1>1, <1>13 DEF Listen, Defined
    <3>2. /\ listener' = [listener EXCEPT ![peer_disconnect[s]] = s]
          /\ UNCHANGED <<netVars, verdict, advertise_retries, connected,
                         punched_peer, peer_disconnect, secret, mediatorUp,
                         nonce, dial, accepted, callbacks>>
      BY <1>1, <1>13, <2>1 DEF Listen, Throw
    <3>3. ConnectionTypeOK'
      BY <1>1, <2>1, <3>1, <3>2 DEF PeerStage, Location
    <3>4. \A t \in Session \ {s} : Same(t)
      BY <1>1, <2>1, <3>2 DEF Same
    <3>5. Defined(s)'
      BY <1>1, <1>5, <1>13, <2>1, <3>2 DEF Listen, Defined
    <3> QED BY <3>3, <3>4, <3>5, OneSession
  <2>2. CASE Go(s, "silent")
    <3>1. ConnectionTypeOK'
      BY <1>1, <1>13, <2>2 DEF Listen, Location, Throw
    <3>2. \A t \in Session \ {s} : Same(t)
      BY <1>1, <1>13, <2>2 DEF Listen, Same, Throw
    <3>3. Defined(s)'
      BY <1>1, <1>5, <1>13, <2>2 DEF Listen, Defined, Throw
    <3> QED BY <3>1, <3>2, <3>3, OneSession
  <2>3. CASE Throw(s, "kErrorUnknown") /\ UNCHANGED callbacks
    BY <1>3, <2>3 DEF ErrorKind
  <2> QED BY <1>13, <2>1, <2>2, <2>3 DEF Listen
<1>14. CASE Accept(s)
  <2>1. CASE Go(s, "accepted")
    <3>1. PICK c \in Session :
            dial[c] = s /\ accepted' = [accepted EXCEPT ![s] = c]
      BY <1>14, <2>1, <1>1 DEF Accept, Die
    <3>2. UNCHANGED <<netVars, verdict, advertise_retries, connected,
                      punched_peer, peer_disconnect, secret, mediatorUp,
                      nonce, dial, listener, callbacks>>
      BY <1>14, <2>1, <1>1 DEF Accept, Die
    <3>3. ConnectionTypeOK'
      BY <1>1, <2>1, <3>1, <3>2 DEF PeerStage, Location
    <3>4. \A t \in Session \ {s} : Same(t)
      BY <1>1, <2>1, <3>1, <3>2 DEF Same
    <3>5. Defined(s)'
      BY <1>1, <1>5, <1>14, <2>1, <3>1, <3>2 DEF Accept, Defined
    <3> QED BY <3>3, <3>4, <3>5, OneSession
  <2>2. CASE Die(s) /\ UNCHANGED callbacks
    BY <2>2, DieDefined, <1>5 DEF Die
  <2> QED BY <1>14, <2>1, <2>2 DEF Accept
<1>15. CASE ReceivePeerChallenge(s)
  <2>1. CASE Go(s, "replying")
    <3>1. inbox' \in [Endpoint -> Seq(Message)]
      BY <1>1, <1>2, <1>4, <1>15, <2>1, ReceiveRemoves
      DEF ReceivePeerChallenge, Throw
    <3>2. secret' = [secret EXCEPT ![s] = secret'[s]] /\ secret'[s] \in Nonce
      <4>1. Head(inbox[P2pEnd(s)]).encrypted_nonce \in Cipher
        BY <1>2, <1>4, <1>15, Decoded DEF ReceivePeerChallenge, Readable
      <4>2. secret' = [secret EXCEPT ![s] =
                         Head(inbox[P2pEnd(s)]).encrypted_nonce.nonce]
        BY <1>1, <1>15, <2>1 DEF ReceivePeerChallenge, Decrypt, Throw
      <4> QED BY <1>1, <4>1, <4>2 DEF Cipher
    <3>3. ConnectionTypeOK'
      BY <1>1, <1>2, <1>15, <2>1, <3>1, <3>2
      DEF ReceivePeerChallenge, PeerStage, Location, Throw
    <3>4. \A t \in Session \ {s} : Same(t)
      BY <1>1, <1>15, <2>1
      DEF ReceivePeerChallenge, Same, Throw
    <3>5. Defined(s)'
      BY <1>1, <1>5, <1>15, <2>1, <3>2
      DEF ReceivePeerChallenge, Defined, Throw
    <3> QED BY <3>3, <3>4, <3>5, OneSession
  <2>2. CASE Throw(s, "kErrorUnknown")
    BY <1>3, <1>15, <2>2
    DEF ReceivePeerChallenge, ErrorKind
  <2> QED BY <1>15, <2>1, <2>2 DEF ReceivePeerChallenge
<1>16. CASE SendPeerChallengeResponse(s)
  <2>1. inbox' \in [Endpoint -> Seq(Message)]
    BY <1>1, <1>2, <1>16, SendAdds, Constructors
    DEF SendPeerChallengeResponse, Encrypt, Cipher, Defined
  <2>2. PICK n \in Nonce : nonce' = [nonce EXCEPT ![s] = n]
    BY <1>16 DEF SendPeerChallengeResponse
  <2>3. /\ pc' = [pc EXCEPT ![s] = "replied"]
        /\ UNCHANGED <<open, verdict, advertise_retries, connected,
                       punched_peer, peer_disconnect, secret, mediatorUp,
                       dial, accepted, listener, callbacks>>
    BY <1>16 DEF SendPeerChallengeResponse
  <2>4. ConnectionTypeOK'
    BY <1>1, <2>1, <2>2, <2>3 DEF PeerStage, Location
  <2>5. \A t \in Session \ {s} : Same(t)
    BY <1>1, <2>2, <2>3 DEF Same
  <2>6. Defined(s)'
    BY <1>1, <1>5, <1>16
    DEF SendPeerChallengeResponse, Defined
  <2> QED BY <2>4, <2>5, <2>6, OneSession
<1>17. CASE ReceivePeerResponse(s)
  <2>1. CASE Go(s, "acking")
    <3>1. inbox' \in [Endpoint -> Seq(Message)]
      BY <1>1, <1>2, <1>4, <1>17, <2>1, ReceiveRemoves
      DEF ReceivePeerResponse, Throw
    <3>2. ConnectionTypeOK'
      BY <1>1, <1>2, <1>17, <2>1, <3>1
      DEF ReceivePeerResponse, PeerStage, Location, Throw
    <3>3. \A t \in Session \ {s} : Same(t)
      BY <1>1, <1>17, <2>1
      DEF ReceivePeerResponse, Same, Throw
    <3>4. Defined(s)'
      BY <1>1, <1>5, <1>17, <2>1
      DEF ReceivePeerResponse, Defined, Throw
    <3> QED BY <3>2, <3>3, <3>4, OneSession
  <2>2. CASE Throw(s, "kErrorUnknown")
    BY <1>3, <1>17, <2>2
    DEF ReceivePeerResponse, ErrorKind
  <2> QED BY <1>17, <2>1, <2>2 DEF ReceivePeerResponse
<1>18. CASE SendPeerAcknowledgement(s)
  <2>1. inbox' \in [Endpoint -> Seq(Message)]
    BY <1>1, <1>2, <1>18, SendAdds, Constructors
    DEF SendPeerAcknowledgement
  <2>2. ConnectionTypeOK'
    BY <1>1, <1>2, <1>18, <2>1
    DEF SendPeerAcknowledgement, StopListening, Location
  <2>3. \A t \in Session \ {s} : Same(t)
    BY <1>1, <1>18
    DEF SendPeerAcknowledgement, Same
  <2>4. Defined(s)'
    BY <1>1, <1>5, <1>18
    DEF SendPeerAcknowledgement, Defined, GotSocket, Partner, Role, Final
  <2> QED BY <2>2, <2>3, <2>4, OneSession
<1>19. CASE LosePeer(s)
  BY <1>3, <1>19 DEF LosePeer, ErrorKind
<1>20. ~Callback(s) /\ ~CallbackThrows(s)
  BY DEF Callback, CallbackThrows, PeerStage
<1> QED BY <1>6, <1>7, <1>8, <1>9, <1>10, <1>11, <1>12, <1>13, <1>14, <1>15,
           <1>16, <1>17, <1>18, <1>19, <1>20 DEF PeerHandshake

(***************************************************************************)
(* The callback keeps the invariant, and shows nobody a socket that        *)
(* _connect has not returned.                                              *)
(***************************************************************************)
LEMMA CallbackDefined ==
  ASSUME SessionInv, NEW s \in Session, Callback(s) \/ CallbackThrows(s)
  PROVE  /\ SessionInv' /\ \A t \in Session \ {s} : Same(t)
         /\ pc'[s] \in Final
         /\ GotSocket(s)' => GotSocket(s)
         /\ UNCHANGED <<punched_peer, dial, accepted>>
<1> USE DEF ConnectionTypeOK, MediatorConnectionTypeOK, NetTypeOK, Go
<1>1. ConnectionTypeOK /\ Defined(s) /\ NetTypeOK
  BY DEF SessionInv
<1>2. /\ pc[s] = "returning"
      /\ verdict[s] \in ErrorKind \cup {"socket"}
      /\ callbacks[s] \in Seq(ErrorKind \cup {"socket"})
      /\ callbacks' = [callbacks EXCEPT ![s] = Append(callbacks[s], verdict[s])]
  BY <1>1 DEF Callback, CallbackThrows, Called, Defined
<1>3. /\ UNCHANGED <<advertise_retries, connected, punched_peer,
                     peer_disconnect, secret, mediatorUp, nonce, dial, accepted>>
      /\ \E location \in {"returning", "done", "died"} :
           pc' = [pc EXCEPT ![s] = location]
      /\ \/ UNCHANGED verdict /\ pc'[s] # "returning"
         \/ verdict' = [verdict EXCEPT ![s] = "kErrorUnknown"]
  BY <1>1 DEF Callback, CallbackThrows, Throw, Die
<1>4. inbox' \in [Endpoint -> Seq(Message)]
  <2>1. ASSUME verdict[s] = "socket", Send(P2pEnd(s), ApplicationData)
        PROVE  inbox' \in [Endpoint -> Seq(Message)]
    BY <1>1, <2>1, P2pEnds, SendAdds, Constructors DEF GotSocket
  <2> QED BY <1>1, <2>1 DEF Callback, CallbackThrows, Throw, Die
<1>5. /\ open' \in [Endpoint -> BOOLEAN]
      /\ listener' \in [Address -> Session \cup {None}]
  BY <1>1 DEF Callback, CallbackThrows, Throw, Die, CloseAll, StopListening
<1>6. callbacks' \in [Session -> Seq(ErrorKind \cup {"socket"})]
  BY SMT, <1>1, <1>2
<1>7. ConnectionTypeOK'
  BY <1>1, <1>3, <1>4, <1>5, <1>6 DEF Location, ErrorKind
<1>8. \A t \in Session \ {s} : Same(t)
  BY SMT, <1>1, <1>2, <1>3 DEF Same
<1>9. pc'[s] \in Final
  BY <1>1, <1>3 DEF Final
<1>10. GotSocket(s)' => GotSocket(s)
  <2>1. verdict'[s] = "socket" => verdict[s] = "socket"
    BY <1>1, <1>3
  <2>2. ASSUME NEW i \in DOMAIN callbacks'[s], callbacks'[s][i] = "socket"
        PROVE  GotSocket(s)
    <3>1. callbacks'[s] = Append(callbacks[s], verdict[s])
      BY <1>1, <1>2
    <3>2. CASE i = Len(callbacks[s]) + 1
      BY SMT, <1>2, <2>2, <3>1, <3>2 DEF GotSocket
    <3>3. CASE i \in 1 .. Len(callbacks[s])
      BY SMT, <1>2, <2>2, <3>1, <3>3 DEF GotSocket
    <3> QED BY SMT, <1>2, <2>2, <3>1, <3>2, <3>3
  <2> QED BY <2>1, <2>2 DEF GotSocket
<1>11. Defined(s)'
  <2>1. GotSocket(s)' => Partner(s)' \in Session
    BY <1>1, <1>3, <1>10 DEF Defined, Partner, Role
  <2>2. pc'[s] = "returning" => verdict'[s] # None
    BY <1>1, <1>3, AbsentAssumption DEF ErrorKind
  <2> QED BY <1>9, <2>1, <2>2
          DEF Defined, Unassigned, ClientLocation, ClientDialled, PeerLocation,
              PeerAccepted, MediatorStage, Final
<1> QED BY <1>3, <1>7, <1>8, <1>9, <1>10, <1>11, OneSession

(* The Peer handshake starts from a PeerStage, the callback does not. *)
LEMMA PeerHandshakeFrom ==
  ASSUME NEW s \in Session, PeerHandshake(s)
  PROVE  pc[s] \in PeerStage \/ Callback(s) \/ CallbackThrows(s)
  BY DEF PeerHandshake, PeerStage, CloseMediatorAsClient, DialPeer,
         SendPeerChallenge, ReceivePeerChallengeResponse, SendPeerResponse,
         ReceivePeerAcknowledgement, CloseMediatorAsPeer, Listen, Accept,
         ReceivePeerChallenge, SendPeerChallengeResponse, ReceivePeerResponse,
         SendPeerAcknowledgement, LosePeer

(***************************************************************************)
(* Every step of a session keeps the invariant.                            *)
(***************************************************************************)
LEMMA SessionDefined ==
  ASSUME SessionInv, NEW s \in Session, Connect(s) \/ Thread(s) \/ Crash(s)
  PROVE  SessionInv' /\ \A t \in Session \ {s} : Same(t)
<1>1. CASE Connect(s)
  <2> USE DEF Connect, Go, netVars, peerVars, ConnectionTypeOK,
              MediatorConnectionTypeOK, NetTypeOK
  <2>1. ConnectionTypeOK'
    BY <1>1 DEF SessionInv, Location, MediatorStage
  <2>2. \A t \in Session \ {s} : Same(t)
    BY <1>1 DEF SessionInv, Same
  <2>3. ~GotSocket(s)'
    BY <1>1, NoSocketYet DEF Final, GotSocket
  <2>4. Defined(s)'
    BY <1>1, <2>3
    DEF SessionInv, Defined, Unassigned, ClientLocation, ClientDialled,
        PeerLocation, PeerAccepted, MediatorStage
  <2> QED BY <2>1, <2>2, <2>4, OneSession
<1>2. CASE Thread(s)
  BY <1>2, MediatorConnectDefined, PeerHandshakeDefined, PeerHandshakeFrom,
     CallbackDefined DEF Thread
<1>3. CASE Crash(s)
  BY <1>3, DieDefined DEF Crash
<1> QED BY <1>1, <1>2, <1>3
-----------------------------------------------------------------------------
(***************************************************************************)
(* The argument that a session only hands out a socket to the holder of    *)
(* the key it asked for, whatever the Mediator does.                       *)
(***************************************************************************)

(***************************************************************************)
(* What the messages between two sessions, and a session's progress, say   *)
(* about the keys.  A PeerChallenge is encrypted for the key the Client    *)
(* wants; a PeerChallengeResponse shows that the Peer holds that key, a    *)
(* PeerResponse that the Client holds the key the Peer wants.              *)
(***************************************************************************)
PeerMayRead(c, m) ==
  /\ m.type \in {"PeerChallenge", "PeerResponse", "ApplicationData"}
  /\ m.type = "PeerChallenge" => m.encrypted_nonce.key = Wants[c]
  /\ m.type = "PeerResponse" => dial[c] \in Session /\ KeyOf[c] = Wants[dial[c]]

ClientMayRead(c, m) ==
  /\ m.type \in {"PeerChallengeResponse", "PeerAcknowledgement",
                 "ApplicationData"}
  /\ m.type = "PeerChallengeResponse" =>
       /\ dial[c] \in Session
       /\ KeyOf[dial[c]] = Wants[c]
       /\ m.encrypted_nonce.key = Wants[dial[c]]

InFlight(c) == /\ \A m \in Unread(PeerEnd(c)) : PeerMayRead(c, m)
               /\ \A m \in Unread(ClientEnd(c)) : ClientMayRead(c, m)

Verified(s) ==
  /\ pc[s] \in {"answering", "answered"} =>
       KeyOf[dial[s]] = Wants[s] /\ KeyOf[s] = Wants[dial[s]]
  /\ pc[s] \in {"replying", "replied", "acking"} => KeyOf[s] = Wants[accepted[s]]
  /\ pc[s] = "acking" => KeyOf[accepted[s]] = Wants[s]
  /\ GotSocket(s) => KeyOf[Partner(s)] = Wants[s]

KeysInv == \A s \in Session : InFlight(s) /\ Verified(s)

(***************************************************************************)
(* KeysInv is stronger than Authenticated.                                 *)
(***************************************************************************)
LEMMA KeysAuthenticate ==
  ASSUME SessionInv, KeysInv
  PROVE  Authenticated
  BY SMT, NoneAssumption DEF SessionInv, Defined, KeysInv, Verified, Authenticated
-----------------------------------------------------------------------------
(* A dialled connection keeps its ends. *)
DialKept == \A c \in Session : dial[c] # None => dial'[c] = dial[c]

(* Nothing is sent on a connection between two sessions. *)
Quiet == \A c \in Session : /\ Unread(PeerEnd(c))' \subseteq Unread(PeerEnd(c))
                            /\ Unread(ClientEnd(c))' \subseteq Unread(ClientEnd(c))

(***************************************************************************)
(* What has been sent stays true, and so does what another session has     *)
(* verified: a step of s has to be checked for what s sends and verifies.  *)
(***************************************************************************)
LEMMA KeysStep ==
  ASSUME SessionInv, KeysInv, NEW s \in Session,
         \A t \in Session \ {s} : Same(t), DialKept,
         \A c \in Session :
           /\ \A m \in Unread(PeerEnd(c))' :
                m \in Unread(PeerEnd(c)) \/ PeerMayRead(c, m)'
           /\ \A m \in Unread(ClientEnd(c))' :
                m \in Unread(ClientEnd(c)) \/ ClientMayRead(c, m)',
         Verified(s)'
  PROVE  KeysInv'
<1>1. ASSUME NEW c \in Session PROVE InFlight(c)'
  <2>1. InFlight(c)
    BY DEF KeysInv
  <2>2. ASSUME NEW m, PeerMayRead(c, m) PROVE PeerMayRead(c, m)'
    BY <2>2, NoneAssumption DEF PeerMayRead, DialKept
  <2>3. ASSUME NEW m, ClientMayRead(c, m) PROVE ClientMayRead(c, m)'
    BY <2>3, NoneAssumption DEF ClientMayRead, DialKept
  <2> QED BY <2>1, <2>2, <2>3 DEF InFlight
<1>2. ASSUME NEW t \in Session \ {s} PROVE Verified(t)'
  <2>1. Verified(t) /\ Same(t)
    BY DEF KeysInv
  <2> QED BY <2>1 DEF Verified, Same, GotSocket, Partner, Role
<1> QED BY <1>1, <1>2 DEF KeysInv

(***************************************************************************)
(* A step of s that sends nothing to another session and verifies nothing. *)
(***************************************************************************)
LEMMA QuietStep ==
  ASSUME SessionInv, KeysInv, NEW s \in Session,
         \A t \in Session \ {s} : Same(t), DialKept, Quiet,
         pc'[s] \notin {"answering", "answered", "replying", "replied", "acking"},
         GotSocket(s)' => GotSocket(s) /\ Partner(s)' = Partner(s)
  PROVE  KeysInv'
<1>1. Verified(s)'
  BY DEF Verified, KeysInv
<1> QED BY <1>1, KeysStep DEF Quiet

(***************************************************************************)
(* Messages to and from the Mediator do not reach another session.         *)
(***************************************************************************)
LEMMA MediatorTraffic ==
  ASSUME NetTypeOK, NEW s \in Session, NEW e \in {MedEnd(s), HandlerEnd(s)}
  PROVE  /\ \A m \in Message : Send(e, m) => Quiet
         /\ inbox[e] # <<>> /\ Receive(e) => Quiet
<1>1. e \in Endpoint
  BY Ends
<1>2. \A m \in Message : Send(e, m) => Quiet
  BY SMT, <1>1, Ends, SendAdds DEF Quiet
<1>3. inbox[e] # <<>> /\ Receive(e) => Quiet
  BY <1>1, Ends, ReceiveRemoves DEF Quiet
<1> QED BY <1>2, <1>3

(* A step that sends and reads nothing is quiet. *)
LEMMA NoTraffic ==
  ASSUME UNCHANGED inbox
  PROVE  Quiet
  BY DEF Quiet, Unread
-----------------------------------------------------------------------------
(***************************************************************************)
(* An exception of either handshake verifies nobody: the session returns   *)
(* without a socket.                                                       *)
(***************************************************************************)
LEMMA ThrowKeys ==
  ASSUME SessionInv, KeysInv, NEW s \in Session, NEW kind \in ErrorKind,
         Throw(s, kind) \/ (MediatorThrow(s, kind) /\ UNCHANGED peerVars),
         UNCHANGED callbacks, pc[s] \notin Final
  PROVE  KeysInv'
<1>1. \A t \in Session \ {s} : Same(t)
  BY ThrowDefined
<1>2. Quiet /\ DialKept
  BY NoTraffic DEF Throw, MediatorThrow, peerVars, DialKept
<1>3. /\ pc'[s] = "returning" /\ verdict'[s] = kind
      /\ callbacks'[s] = callbacks[s]
  BY DEF Throw, MediatorThrow, Go, SessionInv, ConnectionTypeOK,
         MediatorConnectionTypeOK
<1>4. ~GotSocket(s)'
  BY <1>3, NoSocketYet DEF GotSocket, ErrorKind
<1> QED BY <1>1, <1>2, <1>3, <1>4, QuietStep

(* MediatorConnection::connect talks to the Mediator only. *)
LEMMA MediatorConnectKeys ==
  ASSUME SessionInv, KeysInv, NEW s \in Session, MediatorConnect(s),
         UNCHANGED peerVars
  PROVE  KeysInv'
<1>1. SessionInv' /\ \A t \in Session \ {s} : Same(t)
  BY MediatorConnectDefined
<1>2. ConnectionTypeOK /\ Defined(s) /\ NetTypeOK
  BY DEF SessionInv, ConnectionTypeOK
<1>3. \A kind \in ErrorKind :
        MediatorThrow(s, kind) /\ pc[s] \in MediatorStage => KeysInv'
  BY ThrowKeys DEF MediatorStage, Final, peerVars
<1>4. ASSUME Quiet, pc'[s] \in MediatorStage \cup {"client", "peer"}
      PROVE  KeysInv'
  <2>1. ~GotSocket(s)'
    BY <1>1, <1>4 DEF SessionInv, Defined, MediatorStage, Final
  <2>2. DialKept
    BY DEF DialKept, peerVars
  <2> QED BY <1>1, <1>4, <2>1, <2>2, QuietStep DEF MediatorStage
<1>5. ASSUME NEW location \in Location, Go(s, location) PROVE pc'[s] = location
  BY <1>2, <1>5 DEF Go, ConnectionTypeOK, MediatorConnectionTypeOK
<1> USE DEF Location, MediatorStage, PeerStage
<1>6. CASE DialMediator(s)
  BY <1>3, <1>4, <1>5, <1>6, NoTraffic DEF DialMediator, ErrorKind
<1>7. CASE SendAdvertise(s)
  <2>1. Advertise(kVersion[s], KeyOf[s], Wants[s]) \in Message
    BY SessionAssumption, Constructors
  <2> QED BY <1>2, <1>4, <1>5, <1>7, <2>1, MediatorTraffic DEF SendAdvertise
<1>8. CASE ReceiveAdvertiseRetry(s)
  BY <1>2, <1>3, <1>4, <1>5, <1>8, MediatorTraffic
  DEF ReceiveAdvertiseRetry, ReadableAnyType, ErrorKind
<1>9. CASE ReceiveAdvertiseChallenge(s)
  BY <1>2, <1>3, <1>4, <1>5, <1>9, MediatorTraffic
  DEF ReceiveAdvertiseChallenge, ReadableAnyType, ErrorKind
<1>10. CASE SendAdvertiseResponse(s)
  <2>1. AdvertiseResponse(secret[s]) \in Message
    BY <1>2, <1>10, Constructors DEF SendAdvertiseResponse, Defined
  <2> QED BY <1>2, <1>4, <1>5, <1>10, <2>1, MediatorTraffic
          DEF SendAdvertiseResponse
<1>11. CASE ReceivePeerIdentification(s)
  BY <1>2, <1>4, <1>5, <1>11, MediatorTraffic
  DEF ReceivePeerIdentification, ReadableAnyType
<1>12. CASE ReceivePeerDisconnect(s)
  BY <1>2, <1>4, <1>5, <1>12, MediatorTraffic
  DEF ReceivePeerDisconnect, ReadableAnyType
<1>13. CASE ReceiveUnexpected(s)
  BY <1>3, <1>13 DEF ReceiveUnexpected, ErrorKind
<1>14. CASE LoseMediator(s)
  BY <1>3, <1>14 DEF LoseMediator, ErrorKind
<1> QED BY <1>6, <1>7, <1>8, <1>9, <1>10, <1>11, <1>12, <1>13, <1>14
        DEF MediatorConnect

(***************************************************************************)
(* The end of a process.                                                   *)
(***************************************************************************)
LEMMA DieKeys ==
  ASSUME SessionInv, KeysInv, NEW s \in Session, Die(s), UNCHANGED callbacks
  PROVE  KeysInv'
<1>1. \A t \in Session \ {s} : Same(t)
  BY DieDefined
<1>2. Quiet /\ DialKept
  BY NoTraffic DEF Die, DialKept
<1>3. pc'[s] = "died" /\ UNCHANGED <<verdict, callbacks, punched_peer, dial, accepted>>
  BY DEF Die, Go, SessionInv, ConnectionTypeOK, MediatorConnectionTypeOK
<1>4. GotSocket(s)' => GotSocket(s) /\ Partner(s)' = Partner(s)
  BY <1>3 DEF GotSocket, Partner, Role
<1> QED BY <1>1, <1>2, <1>3, <1>4, QuietStep

(***************************************************************************)
(* The Peer handshake, up to the callback.  The cases that matter are the  *)
(* ones that decrypt a challenge and the ones that send a message to the   *)
(* other session.                                                          *)
(***************************************************************************)
LEMMA PeerHandshakeKeys ==
  ASSUME SessionInv, KeysInv, NEW s \in Session, PeerHandshake(s),
         pc[s] \in PeerStage
  PROVE  KeysInv'
<1>1. SessionInv' /\ \A t \in Session \ {s} : Same(t)
  BY PeerHandshakeDefined
<1>2. ConnectionTypeOK /\ Defined(s) /\ NetTypeOK /\ Verified(s)
  BY DEF SessionInv, ConnectionTypeOK, KeysInv
<1>3. \A kind \in ErrorKind : Throw(s, kind) /\ UNCHANGED callbacks => KeysInv'
  BY ThrowKeys DEF PeerStage, Final
<1>4. \A e \in Endpoint : \A T : Readable(e, T) =>
        /\ inbox[e] # <<>>
        /\ Head(inbox[e]) \in Message /\ Head(inbox[e]) \in Unread(e)
        /\ Decodes(T, Head(inbox[e]))
  BY <1>2, HeadUnread DEF Readable
<1>5. ASSUME NEW location \in Location, Go(s, location) PROVE pc'[s] = location
  BY <1>2, <1>5 DEF Go, ConnectionTypeOK, MediatorConnectionTypeOK
<1>6. \A e \in Endpoint : inbox[e] # <<>> /\ Receive(e) => Quiet
  BY <1>2, Ends, ReceiveRemoves DEF Quiet
<1>7. ASSUME Quiet, DialKept, Verified(s)' PROVE KeysInv'
  BY <1>1, <1>7, KeysStep DEF Quiet
<1>8. ASSUME pc'[s] \in PeerStage \cup {"silent"} PROVE ~GotSocket(s)'
  BY <1>1, <1>8 DEF SessionInv, Defined, PeerStage, Final
<1>9. /\ pc[s] \in ClientDialled => dial[s] \in Session
      /\ pc[s] \in PeerAccepted => /\ accepted[s] \in Session
                                   /\ dial[accepted[s]] = s
                                   /\ P2pEnd(s) = PeerEnd(accepted[s])
  BY <1>2, P2pEnds DEF Defined
<1> USE DEF Location, PeerStage, ClientDialled, PeerAccepted
<1>10. CASE CloseMediatorAsClient(s)
  <2>1. CASE Go(s, "dial") /\ UNCHANGED <<inbox, peerVars>>
    BY <1>5, <1>7, <1>8, <2>1, NoTraffic DEF Verified, DialKept, peerVars
  <2> QED BY <1>3, <1>10, <2>1 DEF CloseMediatorAsClient, ErrorKind
<1>11. CASE DialPeer(s)
  <2>1. dial[s] = None
    BY <1>2, <1>11 DEF DialPeer, Defined
  <2>2. CASE UNCHANGED inbox /\ Go(s, "dialled")
             /\ dial' = [dial EXCEPT ![s] = listener[punched_peer[s].address]]
    <3>1. DialKept
      BY <1>2, <2>1, <2>2 DEF DialKept, ConnectionTypeOK
    <3> QED BY <1>5, <1>7, <1>8, <2>2, <3>1, NoTraffic DEF Verified
  <2>3. CASE UNCHANGED <<netVars, peerVars>> /\ Go(s, "redial")
    BY <1>5, <1>7, <1>8, <2>3, NoTraffic DEF Verified, DialKept, peerVars, netVars
  <2> QED BY <1>3, <1>11, <2>2, <2>3 DEF DialPeer, ErrorKind
<1>12. CASE SendPeerChallenge(s)
  <2>1. PICK n \in Nonce :
          Send(ClientEnd(s), PeerChallenge(Encrypt(Wants[s], n)))
    BY <1>12 DEF SendPeerChallenge
  <2> DEFINE m == PeerChallenge(Encrypt(Wants[s], n))
  <2>2. m \in Message
    BY SessionAssumption, Constructors DEF Encrypt, Cipher
  <2>3. PeerMayRead(s, m)'
    BY DEF PeerMayRead, PeerChallenge, Blank, Encrypt
  <2>4. \A f \in Endpoint : \A x \in Unread(f)' :
          x \in Unread(f) \/ (f = PeerEnd(s) /\ x = m)
    BY SMT, <1>2, <2>1, <2>2, Ends, SendAdds
  <2>5. DialKept /\ Verified(s)'
    BY <1>5, <1>8, <1>12 DEF SendPeerChallenge, DialKept, Verified
  <2>6. \A c \in Session :
          /\ \A x \in Unread(PeerEnd(c))' :
               x \in Unread(PeerEnd(c)) \/ PeerMayRead(c, x)'
          /\ \A x \in Unread(ClientEnd(c))' : x \in Unread(ClientEnd(c))
    <3> HIDE DEF m
    <3> QED BY <2>3, <2>4, Ends
  <2> QED BY <1>1, <2>5, <2>6, KeysStep
<1>13. CASE ReceivePeerChallengeResponse(s)
  <2>1. CASE Go(s, "answering")
    <3> DEFINE m == Head(inbox[ClientEnd(s)])
    <3>1. /\ m.type = "PeerChallengeResponse"
          /\ m \in Unread(ClientEnd(s)) /\ inbox[ClientEnd(s)] # <<>>
      BY <1>4, <1>13, Ends, Decoded DEF ReceivePeerChallengeResponse
    <3>2. ClientMayRead(s, m)
      BY <3>1 DEF KeysInv, InFlight
    <3>3. /\ CanDecrypt(KeyOf[s], m.encrypted_nonce)
          /\ Receive(ClientEnd(s)) /\ UNCHANGED <<peerVars>>
      BY <1>5, <1>13, <2>1 DEF ReceivePeerChallengeResponse, Throw
    <3>4. Verified(s)'
      BY <1>5, <1>8, <2>1, <3>1, <3>2, <3>3
      DEF Verified, ClientMayRead, CanDecrypt, peerVars
    <3> QED BY <1>6, <1>7, <3>1, <3>3, <3>4, Ends DEF DialKept, peerVars
  <2> QED BY <1>3, <1>13, <2>1 DEF ReceivePeerChallengeResponse, ErrorKind
<1>14. CASE SendPeerResponse(s)
  <2>1. PICK m \in Message : m = PeerResponse(secret[s])
    BY <1>2, <1>14, Constructors DEF SendPeerResponse, Defined
  <2>2. UNCHANGED peerVars /\ DialKept
    BY <1>14 DEF SendPeerResponse, DialKept, peerVars
  <2>3. PeerMayRead(s, m)'
    BY <1>2, <1>9, <1>14, <2>1, <2>2
    DEF SendPeerResponse, PeerMayRead, PeerResponse, Blank, Verified, peerVars
  <2>4. \A f \in Endpoint : \A x \in Unread(f)' :
          x \in Unread(f) \/ (f = PeerEnd(s) /\ x = m)
    BY <1>2, <1>14, <2>1, Ends, SendAdds DEF SendPeerResponse
  <2>5. Verified(s)'
    BY <1>2, <1>5, <1>8, <1>14, <2>2 DEF SendPeerResponse, Verified, peerVars
  <2>6. \A c \in Session :
          /\ \A x \in Unread(PeerEnd(c))' :
               x \in Unread(PeerEnd(c)) \/ PeerMayRead(c, x)'
          /\ \A x \in Unread(ClientEnd(c))' : x \in Unread(ClientEnd(c))
    BY <2>3, <2>4, Ends
  <2> QED BY <1>1, <2>2, <2>5, <2>6, KeysStep
<1>15. CASE ReceivePeerAcknowledgement(s)
  <2>1. /\ pc'[s] = "returning" /\ dial[s] \in Session
        /\ Partner(s) = dial[s] /\ UNCHANGED <<punched_peer, peerVars>>
    BY <1>2, <1>5, <1>9, <1>15, AbsentAssumption
    DEF ReceivePeerAcknowledgement, Defined, ClientLocation, Partner, Role
  <2>2. Partner(s)' = dial[s]
    BY <2>1 DEF Partner, Role, peerVars
  <2>3. Verified(s)'
    BY <1>2, <1>15, <2>1, <2>2 DEF ReceivePeerAcknowledgement, Verified
  <2> QED BY <1>4, <1>6, <1>7, <1>15, <2>1, <2>3, Ends
          DEF ReceivePeerAcknowledgement, DialKept, peerVars
<1>16. CASE CloseMediatorAsPeer(s)
  BY <1>5, <1>7, <1>8, <1>16, NoTraffic
  DEF CloseMediatorAsPeer, Verified, DialKept, peerVars
<1>17. CASE Listen(s)
  <2>1. CASE UNCHANGED <<netVars, dial>> /\ (Go(s, "accept") \/ Go(s, "silent"))
    BY <1>5, <1>7, <1>8, <2>1, NoTraffic DEF Verified, DialKept, netVars
  <2> QED BY <1>3, <1>17, <2>1 DEF Listen, ErrorKind, peerVars
<1>18. CASE Accept(s)
  <2>1. CASE UNCHANGED <<netVars, dial>> /\ Go(s, "accepted")
    BY <1>5, <1>7, <1>8, <2>1, NoTraffic DEF Verified, DialKept, netVars
  <2> QED BY <1>18, <2>1, DieKeys DEF Accept
<1>19. CASE ReceivePeerChallenge(s)
  <2>1. CASE Go(s, "replying")
    <3> DEFINE m == Head(inbox[PeerEnd(accepted[s])])
    <3>1. /\ pc[s] = "accepted" /\ Readable(PeerEnd(accepted[s]), "PeerChallenge")
          /\ CanDecrypt(KeyOf[s], m.encrypted_nonce)
          /\ Receive(PeerEnd(accepted[s])) /\ UNCHANGED peerVars
      BY <1>5, <1>9, <1>19, <2>1 DEF ReceivePeerChallenge, Throw
    <3>2. /\ m.type \in {"AdvertiseChallenge", "PeerChallenge",
                         "PeerChallengeResponse"}
          /\ m \in Unread(PeerEnd(accepted[s]))
          /\ inbox[PeerEnd(accepted[s])] # <<>>
      BY <1>4, <1>9, <3>1, Ends, Decoded
    <3>3. PeerMayRead(accepted[s], m)
      BY <1>9, <3>1, <3>2 DEF KeysInv, InFlight
    <3>4. Verified(s)'
      BY <1>5, <1>8, <2>1, <3>1, <3>2, <3>3
      DEF Verified, PeerMayRead, CanDecrypt, peerVars
    <3> QED BY <1>6, <1>7, <1>9, <3>1, <3>2, <3>4, Ends DEF DialKept, peerVars
  <2> QED BY <1>3, <1>19, <2>1 DEF ReceivePeerChallenge, ErrorKind
<1>20. CASE SendPeerChallengeResponse(s)
  <2>1. PICK c \in Session : c = accepted[s]
    BY <1>9, <1>20 DEF SendPeerChallengeResponse
  <2>2. /\ dial[c] = s /\ P2pEnd(s) = PeerEnd(c)
        /\ KeyOf[s] = Wants[c] /\ secret[s] \in Nonce
        /\ UNCHANGED <<dial, accepted>> /\ pc'[s] = "replied"
    BY <1>2, <1>5, <1>9, <1>20, <2>1
    DEF SendPeerChallengeResponse, Verified, Defined
  <2>3. PICK n \in Nonce :
          Send(P2pEnd(s), PeerChallengeResponse(Encrypt(Wants[s], n), secret[s]))
    BY <1>20 DEF SendPeerChallengeResponse
  <2>4. PICK m \in Message :
          m = PeerChallengeResponse(Encrypt(Wants[s], n), secret[s])
    BY <2>2, SessionAssumption, Constructors DEF Encrypt, Cipher
  <2>5. ClientMayRead(c, m)'
    BY <2>2, <2>4 DEF ClientMayRead, PeerChallengeResponse, Blank, Encrypt
  <2>6. \A f \in Endpoint : \A x \in Unread(f)' :
          x \in Unread(f) \/ (f = ClientEnd(c) /\ x = m)
    <3>1. PeerEnd(c) \in Endpoint /\ Far(PeerEnd(c)) = ClientEnd(c)
      BY Ends
    <3>2. Send(PeerEnd(c), m)
      BY <2>2, <2>3, <2>4
    <3> QED BY <1>2, <3>1, <3>2, SendAdds
  <2>7. DialKept /\ Verified(s)'
    BY <1>8, <2>1, <2>2 DEF DialKept, Verified
  <2>8. \A d \in Session :
          /\ \A x \in Unread(PeerEnd(d))' : x \in Unread(PeerEnd(d))
          /\ \A x \in Unread(ClientEnd(d))' :
               x \in Unread(ClientEnd(d)) \/ ClientMayRead(d, x)'
    BY <2>5, <2>6, Ends
  <2> QED BY <1>1, <2>7, <2>8, KeysStep
<1>21. CASE ReceivePeerResponse(s)
  <2>1. CASE Go(s, "acking")
    <3> DEFINE m == Head(inbox[PeerEnd(accepted[s])])
    <3>1. /\ pc[s] = "replied" /\ Readable(PeerEnd(accepted[s]), "PeerResponse")
          /\ Receive(PeerEnd(accepted[s])) /\ UNCHANGED peerVars
      BY <1>5, <1>9, <1>21, <2>1 DEF ReceivePeerResponse, Throw
    <3>2. /\ m.type \in {"PeerChallengeResponse", "PeerResponse"}
          /\ m \in Unread(PeerEnd(accepted[s]))
          /\ inbox[PeerEnd(accepted[s])] # <<>>
      BY <1>4, <1>9, <3>1, Ends, Decoded
    <3>3. PeerMayRead(accepted[s], m)
      BY <1>9, <3>1, <3>2 DEF KeysInv, InFlight
    <3>4. Verified(s)'
      BY <1>2, <1>5, <1>8, <1>9, <2>1, <3>1, <3>2, <3>3
      DEF Verified, PeerMayRead, peerVars
    <3> QED BY <1>6, <1>7, <1>9, <3>1, <3>2, <3>4, Ends DEF DialKept, peerVars
  <2> QED BY <1>3, <1>21, <2>1 DEF ReceivePeerResponse, ErrorKind
<1>22. CASE SendPeerAcknowledgement(s)
  <2>1. PICK c \in Session : c = accepted[s]
    BY <1>9, <1>22 DEF SendPeerAcknowledgement
  <2>2. /\ P2pEnd(s) = PeerEnd(c) /\ KeyOf[c] = Wants[s]
        /\ UNCHANGED <<dial, accepted, punched_peer>> /\ pc'[s] = "returning"
        /\ punched_peer[s] = None
    BY <1>2, <1>5, <1>9, <1>22, <2>1
    DEF SendPeerAcknowledgement, Verified, Defined, PeerLocation
  <2>3. ClientMayRead(c, PeerAcknowledgement)'
    BY DEF ClientMayRead, PeerAcknowledgement, Blank
  <2>4. \A f \in Endpoint : \A x \in Unread(f)' :
          x \in Unread(f) \/ (f = ClientEnd(c) /\ x = PeerAcknowledgement)
    <3>1. PeerEnd(c) \in Endpoint /\ Far(PeerEnd(c)) = ClientEnd(c)
      BY Ends
    <3>2. Send(PeerEnd(c), PeerAcknowledgement) /\ PeerAcknowledgement \in Message
      BY <1>22, <2>2, Constructors DEF SendPeerAcknowledgement
    <3> QED BY <1>2, <3>1, <3>2, SendAdds
  <2>5. Partner(s)' = c
    BY <2>1, <2>2 DEF Partner, Role
  <2>6. DialKept /\ Verified(s)'
    BY <2>2, <2>5 DEF DialKept, Verified
  <2>7. \A d \in Session :
          /\ \A x \in Unread(PeerEnd(d))' : x \in Unread(PeerEnd(d))
          /\ \A x \in Unread(ClientEnd(d))' :
               x \in Unread(ClientEnd(d)) \/ ClientMayRead(d, x)'
    BY <2>3, <2>4, Ends
  <2> QED BY <1>1, <2>6, <2>7, KeysStep
<1>23. CASE LosePeer(s)
  BY <1>3, <1>23 DEF LosePeer, ErrorKind
<1>24. ~Callback(s) /\ ~CallbackThrows(s)
  BY DEF Callback, CallbackThrows
<1> QED BY <1>10, <1>11, <1>12, <1>13, <1>14, <1>15, <1>16, <1>17, <1>18, <1>19,
           <1>20, <1>21, <1>22, <1>23, <1>24 DEF PeerHandshake

(***************************************************************************)
(* Every step of a session keeps KeysInv.                                  *)
(***************************************************************************)
LEMMA SessionKeys ==
  ASSUME SessionInv, KeysInv, NEW s \in Session,
         Connect(s) \/ Thread(s) \/ Crash(s)
  PROVE  KeysInv'
<1>1. SessionInv' /\ \A t \in Session \ {s} : Same(t)
  BY SessionDefined
<1>2. CASE Connect(s)
  <2>1. Quiet /\ DialKept
    BY <1>2, NoTraffic DEF Connect, netVars, peerVars, DialKept
  <2>2. pc'[s] = "mediator"
    BY <1>2 DEF Connect, Go, SessionInv, ConnectionTypeOK, MediatorConnectionTypeOK
  <2>3. ~GotSocket(s)'
    BY <1>1, <2>2 DEF SessionInv, Defined, Final
  <2> QED BY <1>1, <2>1, <2>2, <2>3, QuietStep
<1>3. CASE Callback(s) \/ CallbackThrows(s)
  <2>1. /\ pc'[s] \in Final /\ (GotSocket(s)' => GotSocket(s))
        /\ UNCHANGED <<punched_peer, dial, accepted>>
    BY <1>3, CallbackDefined
  <2>2. DialKept /\ Partner(s)' = Partner(s)
    BY <2>1 DEF DialKept, Partner, Role
  <2>3. CASE UNCHANGED inbox
    BY <1>1, <2>1, <2>2, <2>3, NoTraffic, QuietStep DEF Final
  <2>4. CASE verdict[s] = "socket" /\ Send(P2pEnd(s), ApplicationData)
    <3>1. PICK e \in Endpoint : e = P2pEnd(s)
      BY <2>4, P2pEnds DEF GotSocket
    <3>2. \A f \in Endpoint : \A x \in Unread(f)' :
            x \in Unread(f) \/ x = ApplicationData
      BY <2>4, <3>1, SendAdds, Constructors DEF SessionInv, ConnectionTypeOK
    <3>3. \A c \in Session : /\ PeerMayRead(c, ApplicationData)'
                             /\ ClientMayRead(c, ApplicationData)'
      BY DEF PeerMayRead, ClientMayRead, ApplicationData, Blank
    <3>4. Verified(s)'
      BY <2>1, <2>2 DEF KeysInv, Verified, Final
    <3> QED BY <1>1, <2>2, <3>2, <3>3, <3>4, Ends, KeysStep
  <2> QED BY <1>3, <2>3, <2>4 DEF Callback, CallbackThrows, Throw, Die
<1>4. CASE Thread(s) /\ ~Callback(s) /\ ~CallbackThrows(s)
  BY <1>4, MediatorConnectKeys, PeerHandshakeKeys, PeerHandshakeFrom DEF Thread
<1>5. CASE Crash(s)
  BY <1>5, DieKeys DEF Crash
<1> QED BY <1>2, <1>3, <1>4, <1>5

(***************************************************************************)
(* A step of the Mediator: it leaves the sessions' variables alone and     *)
(* sends nothing on their connections to each other.                       *)
(***************************************************************************)
LEMMA OthersKeep ==
  ASSUME SessionInv, KeysInv, NetTypeOK', Quiet, mediatorUp' \in BOOLEAN,
         UNCHANGED <<pc, verdict, advertise_retries, connected, punched_peer,
                     peer_disconnect, secret, peerVars>>
  PROVE  SessionInv' /\ KeysInv'
<1>1. ConnectionTypeOK'
  BY DEF SessionInv, ConnectionTypeOK, MediatorConnectionTypeOK, peerVars
<1>2. DialKept /\ \A s \in Session : Same(s)
  BY DEF DialKept, Same, peerVars
<1>3. SessionInv'
  BY <1>1, <1>2, SameDefined DEF SessionInv
<1>4. ASSUME NEW s \in Session PROVE Verified(s)'
  BY DEF KeysInv, Verified, GotSocket, Partner, Role, peerVars
<1> QED BY <1>2, <1>3, <1>4, KeysStep DEF Quiet, KeysInv

(***************************************************************************)
(* The initial states satisfy both invariants.                             *)
(***************************************************************************)
LEMMA InitKeys ==
  ASSUME ConnectionInit
  PROVE  SessionInv /\ KeysInv
<1> USE DEF ConnectionInit, NetInit, MediatorConnectionInit
<1>1. ConnectionTypeOK
  BY SMT, SessionAssumption
  DEF ConnectionTypeOK, NetTypeOK, MediatorConnectionTypeOK, Location, Address
<1>2. ASSUME NEW s \in Session PROVE Defined(s) /\ Verified(s) /\ ~GotSocket(s)
  <2>1. pc[s] = "idle" /\ ~GotSocket(s)
    BY SMT, AbsentAssumption DEF GotSocket
  <2> QED BY <2>1
          DEF Defined, Verified, Unassigned, ClientLocation, ClientDialled,
              PeerLocation, PeerAccepted, MediatorStage
<1>3. ASSUME NEW c \in Session PROVE InFlight(c)
  BY SMT, Ends DEF InFlight, Unread
<1> QED BY <1>1, <1>2, <1>3 DEF SessionInv, KeysInv
-----------------------------------------------------------------------------
(***************************************************************************)
(* The argument that the two sides of a Peer handshake keep in step: when  *)
(* one of them returns a socket, where is the other, and what is under way *)
(* between them?                                                           *)
(***************************************************************************)

(* Most leaves are first-order; the ones that are not cite SMT. *)
USE Zenon

(***************************************************************************)
(* How far a session has come, and what it has reported.                   *)
(***************************************************************************)
AtMediator == {"advertise", "advertised", "challenged", "registered",
               "client", "peer"}

(* The calls of the callback that _handle_connection can make. *)
Reported(s) ==
  \/ callbacks[s] = <<>>
  \/ \E outcome \in ErrorKind \cup {"socket"} : callbacks[s] = <<outcome>>
  \/ callbacks[s] = <<"socket", "kErrorUnknown">> /\ "callback" \in Faults

(* ErrorKindIsTruthful, for one session *)
Told(s) ==
  /\ verdict[s] = "kErrorMediatorConnectFailure" =>
       punched_peer[s] = None /\ peer_disconnect[s] = None
  /\ verdict[s] = "kErrorPeerUnsupportedProtocolVersion" =>
       /\ punched_peer[s] # None
       /\ punched_peer[s].version # kVersion[s]
       /\ dial[s] = None

Progress(s) ==
  /\ pc[s] \notin Final => verdict[s] = None /\ callbacks[s] = <<>>
  /\ pc[s] = "returning" =>
       \/ callbacks[s] = <<>>
       \/ /\ callbacks[s] = <<"socket">> /\ verdict[s] = "kErrorUnknown"
          /\ "callback" \in Faults
  /\ pc[s] \in {"returning", "done"} => verdict[s] # None
  /\ Reported(s)
  /\ Told(s)
  /\ pc[s] \in Unassigned \cup ClientLocation => peer_disconnect[s] = None
  /\ dial[s] # None => punched_peer[s] # None /\ pc[s] \in ClientDialled \cup Final
  /\ accepted[s] # None => /\ punched_peer[s] = None
                           /\ dial[accepted[s]] = s
                           /\ pc[s] \in PeerAccepted \cup Final
  /\ pc[s] \in {"client", "peer"} => connected[s]
  /\ pc[s] \in AtMediator => open[MedEnd(s)]

(***************************************************************************)
(* Where the Client c is, and what is under way on its connection, while   *)
(* the Peer is at a given place.  Nobody has answered c yet:               *)
(***************************************************************************)
Unchallenged(c) ==
  /\ pc[c] \in {"dialled", "challenging"} \cup Final /\ ~GotSocket(c)
  /\ Finds(PeerEnd(c), {"PeerChallenge"})
  /\ pc[c] = "dialled" => inbox[PeerEnd(c)] = <<>>
  /\ inbox[ClientEnd(c)] = <<>>

(* The Peer has read c's challenge. *)
Challenged(c) ==
  /\ pc[c] \in {"challenging"} \cup Final /\ ~GotSocket(c)
  /\ inbox[PeerEnd(c)] = <<>> /\ inbox[ClientEnd(c)] = <<>>

(* The Peer has sent its own challenge. *)
Replied(c) ==
  /\ pc[c] \in {"challenging", "answering", "answered"} \cup Final
  /\ ~GotSocket(c)
  /\ Finds(ClientEnd(c), {"PeerChallengeResponse"})
  /\ pc[c] \in {"answering", "answered"} => inbox[ClientEnd(c)] = <<>>
  /\ Finds(PeerEnd(c), {"PeerResponse"})
  /\ pc[c] \in {"challenging", "answering"} => inbox[PeerEnd(c)] = <<>>
  /\ inbox[PeerEnd(c)] # <<>> => inbox[ClientEnd(c)] = <<>> /\ verdict[c] = None

(* The Peer has verified c, which waits or has died. *)
Responded(c) ==
  /\ pc[c] \in {"answered", "died"} /\ ~GotSocket(c) /\ verdict[c] = None
  /\ inbox[PeerEnd(c)] = <<>> /\ inbox[ClientEnd(c)] = <<>>

(* The Peer has returned its socket. *)
Acknowledged(c) ==
  /\ pc[c] \in {"answered"} \cup Final
  /\ \A m \in Unread(ClientEnd(c)) : m.type # "PeerChallengeResponse"
  /\ "peer" \notin TalkRoles =>
       /\ pc[c] = "answered" =>
            /\ inbox[ClientEnd(c)] # <<>>
            /\ Finds(ClientEnd(c), {"PeerAcknowledgement"})
       /\ verdict[c] \in ErrorKind => GotSocket(c)

(* The Peer has returned without one. *)
Deserted(c) ==
  /\ pc[c] \in ClientDialled \cup Final /\ ~GotSocket(c)
  /\ Finds(ClientEnd(c), {"PeerChallengeResponse"})
  /\ pc[c] \in ClientDialled \ {"challenging"} => inbox[ClientEnd(c)] = <<>>

Exchange(c) ==
  LET p == dial[c] IN
  /\ p = None => inbox[PeerEnd(c)] = <<>> /\ inbox[ClientEnd(c)] = <<>>
  /\ p # None =>
       /\ accepted[p] # c \/ pc[p] = "accepted" => Unchallenged(c)
       /\ accepted[p] = c =>
            /\ pc[p] = "replying" => Challenged(c)
            /\ pc[p] = "replied" => Replied(c)
            /\ pc[p] = "acking" => Responded(c)
            /\ pc[p] \in Final /\ GotSocket(p) => Acknowledged(c)
            /\ pc[p] \in Final /\ ~GotSocket(p) => Deserted(c)

(***************************************************************************)
(* Descriptors: a Client's is open as long as it uses it, and so is the    *)
(* Peer's, accepted or in the backlog of the listening socket.             *)
(***************************************************************************)
Listening == {"accept"} \cup PeerAccepted

Opened(c) ==
  /\ pc[c] \in ClientDialled => open[ClientEnd(c)]
  /\ dial[c] # None => /\ pc[dial[c]] \in Listening \cup Final
                       /\ pc[dial[c]] \in Listening => open[PeerEnd(c)]

Listeners ==
  \A a \in Address : listener[a] # None => pc[listener[a]] \in Listening

RendezvousInv ==
  /\ \A s \in Session : Progress(s) /\ Exchange(s) /\ Opened(s)
  /\ Listeners
-----------------------------------------------------------------------------
(***************************************************************************)
(* The steps of a session, sorted by what they do to the connections       *)
(* between sessions.  Before it has one, a session talks to the Mediator,  *)
(* closes that socket, waits before it dials again, or starts to listen.   *)
(***************************************************************************)
P2pSame == \A c \in Session : /\ inbox'[PeerEnd(c)] = inbox[PeerEnd(c)]
                              /\ inbox'[ClientEnd(c)] = inbox[ClientEnd(c)]

Preparing(s) ==
  /\ pc[s] \in {"idle", "client", "dial", "peer", "bind"} \cup MediatorStage
  /\ pc'[s] \in {"client", "dial", "redial", "peer", "bind", "accept", "silent"}
                 \cup MediatorStage
  /\ P2pSame
  /\ UNCHANGED <<verdict, callbacks, dial, accepted>>
  /\ pc'[s] \in {"client", "peer"} => connected'[s]
  /\ \A t \in Session \ {s} : connected'[t] = connected[t]
  /\ pc'[s] \in Unassigned \cup ClientLocation =>
       /\ pc[s] \in Unassigned \cup ClientLocation
       /\ peer_disconnect'[s] = peer_disconnect[s]
  /\ \/ UNCHANGED open /\ (pc'[s] \in AtMediator => pc[s] \in AtMediator)
     \/ Establish(MedEnd(s))
     \/ open' = [open EXCEPT ![MedEnd(s)] = FALSE] /\ pc'[s] \notin AtMediator
  /\ \/ UNCHANGED listener /\ pc'[s] # "accept"
     \/ /\ \E a \in Address : listener' = [listener EXCEPT ![a] = s]
        /\ pc[s] = "bind" /\ pc'[s] = "accept"

(* What an exception leaves alone, and which one the caller is told of. *)
Thrown(s, kind) ==
  /\ pc[s] \in MediatorStage \cup PeerStage
  /\ Go(s, "returning")
  /\ verdict' = [verdict EXCEPT ![s] = kind]
  /\ UNCHANGED <<inbox, connected, punched_peer, peer_disconnect, dial,
                 accepted, callbacks>>
  /\ kind = "kErrorMediatorConnectFailure" => pc[s] \in MediatorStage
  /\ kind = "kErrorPeerUnsupportedProtocolVersion" =>
       pc[s] = "client" /\ punched_peer[s].version # kVersion[s]
  /\ pc[s] = "answered" =>
       \/ AtEof(ClientEnd(s))
       \/ Undecodable(ClientEnd(s), "PeerAcknowledgement")
  /\ \/ CloseAll(s) /\ StopListening(s)
     \/ /\ pc[s] \in MediatorStage /\ UNCHANGED listener
        /\ open' = [open EXCEPT ![MedEnd(s)] = FALSE]

Killed(s) ==
  /\ Die(s) /\ UNCHANGED callbacks
  /\ pc[s] \in MediatorStage \cup PeerStage \cup {"returning"}

(* socket_creator and accept return a connection. *)
Dials(s) ==
  /\ pc[s] \in {"dial", "redial"}
  /\ Go(s, "dialled")
  /\ \E a \in Address : listener[a] # None /\ dial' = [dial EXCEPT ![s] = listener[a]]
  /\ Establish(ClientEnd(s))
  /\ UNCHANGED <<inbox, verdict, connected, punched_peer, peer_disconnect,
                 accepted, listener, callbacks>>

Accepts(s) ==
  /\ pc[s] = "accept"
  /\ Go(s, "accepted")
  /\ \E c \in Session : dial[c] = s /\ accepted' = [accepted EXCEPT ![s] = c]
  /\ UNCHANGED <<inbox, open, verdict, connected, punched_peer,
                 peer_disconnect, dial, listener, callbacks>>

(* A message of the Peer handshake is sent, or one is read and accepted. *)
Writes(s, from, to, type) ==
  /\ pc[s] = from /\ Go(s, to)
  /\ \E m \in Message : m.type = type /\ Send(P2pEnd(s), m)
  /\ UNCHANGED <<connected, punched_peer, peer_disconnect, dial, accepted,
                 callbacks>>

Reads(s, from, to) ==
  /\ pc[s] = from /\ Go(s, to)
  /\ inbox[P2pEnd(s)] # <<>> /\ Receive(P2pEnd(s))
  /\ UNCHANGED <<open, listener, connected, punched_peer, peer_disconnect,
                 dial, accepted, callbacks>>

ClientSpeaks(s) == \/ Writes(s, "dialled", "challenging", "PeerChallenge")
                   \/ Reads(s, "challenging", "answering")
                   \/ Writes(s, "answering", "answered", "PeerResponse")

PeerSpeaks(s) == \/ Reads(s, "accepted", "replying")
                 \/ Writes(s, "replying", "replied", "PeerChallengeResponse")
                 \/ Reads(s, "replied", "acking")

Confirms(s) == /\ Reads(s, "answered", "returning")
               /\ verdict' = [verdict EXCEPT ![s] = "socket"]

Acknowledges(s) ==
  /\ Writes(s, "acking", "returning", "PeerAcknowledgement")
  /\ verdict' = [verdict EXCEPT ![s] = "socket"]
  /\ StopListening(s)
  /\ open' = [e \in Endpoint |->
       open[e] /\ ~\E c \in Session \ {accepted[s]} : dial[c] = s /\ e = PeerEnd(c)]

Handshakes(s) ==
  \/ Dials(s) \/ Accepts(s)
  \/ /\ ClientSpeaks(s) \/ PeerSpeaks(s)
     /\ UNCHANGED <<open, listener, verdict>>
  \/ Confirms(s) \/ Acknowledges(s)

(* What passes between a session and the Mediator stays there. *)
LEMMA MediatorSame ==
  ASSUME NetTypeOK, NEW s \in Session, NEW e \in {MedEnd(s), HandlerEnd(s)}
  PROVE  /\ \A m : Send(e, m) => P2pSame
         /\ Receive(e) => P2pSame
         /\ UNCHANGED inbox => P2pSame
<1>1. e \in Endpoint
  BY Ends
<1>2. ASSUME NEW m, Send(e, m) PROVE P2pSame
  <2>1. \A f \in Endpoint \ {Far(e)} : inbox'[f] = inbox[f]
    BY <1>1, <1>2, SendAppends
  <2> QED BY <2>1, Ends DEF P2pSame
<1>3. ASSUME Receive(e) PROVE P2pSame
  <2>1. \A f \in Endpoint \ {e} : inbox'[f] = inbox[f]
    BY <1>1, <1>3, ReceiveTakes
  <2> QED BY <2>1, Ends DEF P2pSame
<1> QED BY <1>2, <1>3 DEF P2pSame

(***************************************************************************)
(* MediatorConnection::connect prepares the session or throws.             *)
(***************************************************************************)
LEMMA MediatorKinds ==
  ASSUME SessionInv, NEW s \in Session, MediatorConnect(s), UNCHANGED peerVars
  PROVE  Preparing(s) \/ \E kind \in ErrorKind : Thrown(s, kind)
<1>1. ConnectionTypeOK /\ NetTypeOK
  BY DEF SessionInv, ConnectionTypeOK
<1>2. ASSUME NEW kind \in ErrorKind \ {"kErrorPeerUnsupportedProtocolVersion"},
             MediatorThrow(s, kind), pc[s] \in MediatorStage
      PROVE  Thrown(s, kind)
  BY <1>2 DEF MediatorThrow, Thrown, peerVars, MediatorStage
<1>3. /\ \A m : Send(MedEnd(s), m) => P2pSame
      /\ Receive(MedEnd(s)) => P2pSame
      /\ UNCHANGED inbox => P2pSame
  BY <1>1, MediatorSame
<1>4. "kErrorMediatorConnectFailure" \in ErrorKind \ {"kErrorPeerUnsupportedProtocolVersion"}
      /\ "kErrorUnknown" \in ErrorKind \ {"kErrorPeerUnsupportedProtocolVersion"}
  BY DEF ErrorKind
<1>5. ASSUME NEW location \in Location, Go(s, location) PROVE pc'[s] = location
  BY <1>1, <1>5 DEF Go, ConnectionTypeOK, MediatorConnectionTypeOK
<1>6. ASSUME connected' = [connected EXCEPT ![s] = TRUE]
      PROVE  connected'[s] /\ \A t \in Session \ {s} : connected'[t] = connected[t]
  BY <1>1, <1>6 DEF ConnectionTypeOK, MediatorConnectionTypeOK
<1> USE DEF Location, MediatorStage, PeerStage, peerVars, AtMediator, Unassigned
<1>7. CASE DialMediator(s)
  <2>1. CASE Establish(MedEnd(s)) /\ Go(s, "advertise")
             /\ UNCHANGED <<inbox, verdict, connected, peer_disconnect>>
    BY <1>3, <1>5, <1>7, <2>1 DEF DialMediator, Preparing
  <2> QED BY <1>2, <1>4, <1>7, <2>1 DEF DialMediator
<1>8. CASE SendAdvertise(s)
  BY <1>3, <1>5, <1>8 DEF SendAdvertise, Preparing
<1>9. CASE ReceiveAdvertiseRetry(s)
  <2>1. CASE MediatorThrow(s, "kErrorUnknown")
    BY <1>2, <1>4, <1>9, <2>1 DEF ReceiveAdvertiseRetry
  <2> QED BY <1>3, <1>5, <1>9, <2>1 DEF ReceiveAdvertiseRetry, Preparing
<1>10. CASE ReceiveAdvertiseChallenge(s)
  <2>1. CASE MediatorThrow(s, "kErrorUnknown")
    BY <1>2, <1>4, <1>10, <2>1 DEF ReceiveAdvertiseChallenge
  <2> QED BY <1>3, <1>5, <1>10, <2>1 DEF ReceiveAdvertiseChallenge, Preparing
<1>11. CASE SendAdvertiseResponse(s)
  BY <1>3, <1>5, <1>11 DEF SendAdvertiseResponse, Preparing
<1>12. CASE ReceivePeerIdentification(s)
  BY <1>3, <1>5, <1>6, <1>12 DEF ReceivePeerIdentification, Preparing
<1>13. CASE ReceivePeerDisconnect(s)
  BY <1>3, <1>5, <1>6, <1>13
  DEF ReceivePeerDisconnect, Preparing, ClientLocation, ClientDialled
<1>14. CASE ReceiveUnexpected(s)
  BY <1>2, <1>4, <1>14 DEF ReceiveUnexpected
<1>15. CASE LoseMediator(s)
  BY <1>2, <1>4, <1>15 DEF LoseMediator
<1> QED BY <1>7, <1>8, <1>9, <1>10, <1>11, <1>12, <1>13, <1>14, <1>15
        DEF MediatorConnect

(***************************************************************************)
(* The Peer handshake, up to the callback, step by step.                   *)
(***************************************************************************)
LEMMA PeerKinds ==
  ASSUME SessionInv, NEW s \in Session, PeerHandshake(s), pc[s] \in PeerStage
  PROVE  \/ Preparing(s) \/ Handshakes(s) \/ Killed(s)
         \/ \E kind \in ErrorKind : Thrown(s, kind)
<1>1. ConnectionTypeOK /\ Defined(s) /\ NetTypeOK
  BY DEF SessionInv, ConnectionTypeOK
<1>2. ASSUME NEW location \in Location, Go(s, location) PROVE pc'[s] = location
  BY <1>1, <1>2 DEF Go, ConnectionTypeOK, MediatorConnectionTypeOK
<1>3. ASSUME Throw(s, "kErrorUnknown"), UNCHANGED callbacks, pc[s] # "answered"
      PROVE  \E kind \in ErrorKind : Thrown(s, kind)
  BY <1>3 DEF Throw, Thrown, ErrorKind
<1>4. UNCHANGED inbox => P2pSame
  BY DEF P2pSame
<1>5. pc[s] \in ClientDialled => P2pEnd(s) = ClientEnd(s)
  BY P2pEnds
<1> USE DEF PeerStage, ClientDialled, peerVars
<1>6. CASE CloseMediatorAsClient(s)
  <2>1. CASE punched_peer[s].version # kVersion[s]
    BY <1>6, <2>1 DEF CloseMediatorAsClient, Throw, Thrown, ErrorKind
  <2>2. CASE punched_peer[s].version = kVersion[s]
    BY <1>2, <1>4, <1>6, <2>2
    DEF CloseMediatorAsClient, Preparing, Location, AtMediator, ClientLocation,
        Unassigned, MediatorStage
  <2> QED BY <2>1, <2>2
<1>7. CASE DialPeer(s)
  <2>1. CASE Go(s, "dialled") /\ ~Throw(s, "kErrorUnknown")
             /\ listener[punched_peer[s].address] # None
             /\ Establish(ClientEnd(s))
             /\ dial' = [dial EXCEPT ![s] = listener[punched_peer[s].address]]
             /\ UNCHANGED <<inbox, verdict, connected, punched_peer,
                            peer_disconnect, accepted, listener, callbacks>>
    <3>1. punched_peer[s].address \in Address
      BY <1>1, <1>7 DEF DialPeer, Defined, PunchedPeer, ClientLocation
    <3> QED BY <1>7, <2>1, <3>1 DEF DialPeer, Handshakes, Dials
  <2>2. CASE Go(s, "redial") /\ pc[s] = "dial"
             /\ UNCHANGED <<netVars, verdict, connected, peer_disconnect, peerVars>>
    BY <1>2, <1>4, <2>2
    DEF Preparing, Location, AtMediator, ClientLocation, Unassigned,
        MediatorStage, netVars
  <2>3. CASE Throw(s, "kErrorUnknown") /\ UNCHANGED callbacks
    BY <1>3, <1>7, <2>3 DEF DialPeer
  <2> QED BY <1>7, <2>1, <2>2, <2>3 DEF DialPeer, MayDialAgain
<1>8. CASE SendPeerChallenge(s)
  <2>1. \E n \in Nonce : Send(ClientEnd(s), PeerChallenge(Encrypt(Wants[s], n)))
    BY <1>8 DEF SendPeerChallenge
  <2>2. \E m \in Message : m.type = "PeerChallenge" /\ Send(ClientEnd(s), m)
    BY <2>1, SessionAssumption, Constructors
    DEF PeerChallenge, Blank, Encrypt, Cipher
  <2> QED BY <1>5, <1>8, <2>2
          DEF SendPeerChallenge, Handshakes, ClientSpeaks, Writes
<1>9. CASE ReceivePeerChallengeResponse(s)
  <2>1. CASE Throw(s, "kErrorUnknown")
    BY <1>3, <1>9, <2>1 DEF ReceivePeerChallengeResponse
  <2>2. CASE ~Throw(s, "kErrorUnknown")
    BY <1>5, <1>9, <2>2
    DEF ReceivePeerChallengeResponse, Handshakes, ClientSpeaks, Reads, Readable
  <2> QED BY <2>1, <2>2
<1>10. CASE SendPeerResponse(s)
  <2>1. PeerResponse(secret[s]) \in Message /\ PeerResponse(secret[s]).type = "PeerResponse"
    BY <1>1, <1>10, Constructors DEF SendPeerResponse, Defined, PeerResponse, Blank
  <2> QED BY <1>5, <1>10, <2>1
          DEF SendPeerResponse, Handshakes, ClientSpeaks, Writes
<1>11. CASE ReceivePeerAcknowledgement(s)
  BY <1>5, <1>11
  DEF ReceivePeerAcknowledgement, Handshakes, Confirms, Reads, Readable
<1>12. CASE CloseMediatorAsPeer(s)
  BY <1>2, <1>4, <1>12
  DEF CloseMediatorAsPeer, Preparing, Location, AtMediator, ClientLocation,
      Unassigned, MediatorStage
<1>13. CASE Listen(s)
  <2>1. CASE Go(s, "accept")
             /\ listener' = [listener EXCEPT ![peer_disconnect[s]] = s]
             /\ UNCHANGED <<netVars, verdict, connected, peer_disconnect, dial,
                            accepted, callbacks>>
    <3>1. peer_disconnect[s] \in Address
      BY <1>1, <1>13 DEF Listen, Defined, PeerLocation
    <3>2. pc'[s] = "accept" /\ pc[s] = "bind"
      BY <1>2, <1>13, <2>1 DEF Location, Listen
    <3> QED BY <1>4, <2>1, <3>1, <3>2
            DEF Preparing, AtMediator, ClientLocation, Unassigned,
                MediatorStage, netVars
  <2>2. CASE Go(s, "silent")
             /\ UNCHANGED <<netVars, verdict, connected, peer_disconnect, peerVars>>
    BY <1>2, <1>4, <1>13, <2>2
    DEF Listen, Preparing, Location, AtMediator, ClientLocation, Unassigned,
        MediatorStage, netVars
  <2>3. CASE Throw(s, "kErrorUnknown") /\ UNCHANGED callbacks
    BY <1>3, <1>13, <2>3 DEF Listen
  <2> QED BY <1>13, <2>1, <2>2, <2>3 DEF Listen
<1>14. CASE Accept(s)
  BY <1>14 DEF Accept, Handshakes, Accepts, Killed, netVars
<1>15. CASE ReceivePeerChallenge(s)
  <2>1. CASE Throw(s, "kErrorUnknown")
    BY <1>3, <1>15, <2>1 DEF ReceivePeerChallenge
  <2>2. CASE ~Throw(s, "kErrorUnknown")
    BY <1>15, <2>2
    DEF ReceivePeerChallenge, Handshakes, PeerSpeaks, Reads, Readable
  <2> QED BY <2>1, <2>2
<1>16. CASE SendPeerChallengeResponse(s)
  <2>1. /\ secret[s] \in Nonce
        /\ \E n \in Nonce : Send(P2pEnd(s),
             PeerChallengeResponse(Encrypt(Wants[s], n), secret[s]))
    BY <1>1, <1>16 DEF SendPeerChallengeResponse, Defined
  <2>2. \E m \in Message : m.type = "PeerChallengeResponse" /\ Send(P2pEnd(s), m)
    BY <2>1, SessionAssumption, Constructors
    DEF PeerChallengeResponse, Blank, Encrypt, Cipher
  <2> QED BY <1>16, <2>2
          DEF SendPeerChallengeResponse, Handshakes, PeerSpeaks, Writes
<1>17. CASE ReceivePeerResponse(s)
  <2>1. CASE Throw(s, "kErrorUnknown")
    BY <1>3, <1>17, <2>1 DEF ReceivePeerResponse
  <2>2. CASE ~Throw(s, "kErrorUnknown")
    BY <1>17, <2>2
    DEF ReceivePeerResponse, Handshakes, PeerSpeaks, Reads, Readable
  <2> QED BY <2>1, <2>2
<1>18. CASE SendPeerAcknowledgement(s)
  <2>1. PeerAcknowledgement \in Message
        /\ PeerAcknowledgement.type = "PeerAcknowledgement"
    BY Constructors DEF PeerAcknowledgement, Blank
  <2> QED BY <1>18, <2>1
          DEF SendPeerAcknowledgement, Handshakes, Acknowledges, Writes
<1>19. CASE LosePeer(s)
  <2>1. pc[s] = "answered" => \/ AtEof(ClientEnd(s))
                              \/ Undecodable(ClientEnd(s), "PeerAcknowledgement")
    BY <1>5, <1>19 DEF LosePeer, Awaited
  <2> QED BY <1>19, <2>1 DEF LosePeer, Throw, Thrown, ErrorKind
<1>20. ~Callback(s) /\ ~CallbackThrows(s)
  BY DEF Callback, CallbackThrows
<1> QED BY <1>6, <1>7, <1>8, <1>9, <1>10, <1>11, <1>12, <1>13, <1>14, <1>15,
           <1>16, <1>17, <1>18, <1>19, <1>20 DEF PeerHandshake

(***************************************************************************)
(* Every step of a session is of one of these kinds.                       *)
(***************************************************************************)
LEMMA StepKinds ==
  ASSUME SessionInv, NEW s \in Session, Connect(s) \/ Thread(s) \/ Crash(s)
  PROVE  \/ Preparing(s) \/ Handshakes(s) \/ Killed(s)
         \/ \E kind \in ErrorKind : Thrown(s, kind)
         \/ Callback(s) \/ CallbackThrows(s)
<1>1. CASE Connect(s)
  <2>1. pc[s] = "idle" /\ pc'[s] = "mediator" /\ UNCHANGED inbox
    BY <1>1 DEF Connect, Go, SessionInv, ConnectionTypeOK,
                MediatorConnectionTypeOK, netVars
  <2>2. P2pSame
    BY <2>1 DEF P2pSame
  <2> QED BY <1>1, <2>1, <2>2
          DEF Connect, Preparing, MediatorStage, AtMediator, Unassigned,
              netVars, peerVars
<1>2. CASE Thread(s)
  BY <1>2, MediatorKinds, PeerKinds, PeerHandshakeFrom DEF Thread
<1>3. CASE Crash(s)
  BY <1>3 DEF Crash, Killed
<1> QED BY <1>1, <1>2, <1>3
-----------------------------------------------------------------------------
(***************************************************************************)
(* A step of s neither closes nor opens the sockets of another session.    *)
(***************************************************************************)
Apart(s) ==
  /\ \A t \in Session \ {s} : /\ connected'[t] = connected[t]
                             /\ open'[MedEnd(t)] = open[MedEnd(t)]
                             /\ open'[ClientEnd(t)] = open[ClientEnd(t)]
  /\ \A c \in Session : dial[c] # s /\ dial'[c] = dial[c] =>
       open'[PeerEnd(c)] = open[PeerEnd(c)]

(* Closing all descriptors of a session. *)
LEMMA CloseAllApart ==
  ASSUME SessionInv, NEW s \in Session, CloseAll(s), UNCHANGED connected
  PROVE  Apart(s)
<1>1. ASSUME NEW t \in Session \ {s}
      PROVE  ~Holds(s, MedEnd(t)) /\ ~Holds(s, ClientEnd(t))
  BY Ends DEF Holds
<1>2. ASSUME NEW c \in Session, dial[c] # s PROVE ~Holds(s, PeerEnd(c))
  BY <1>2, Ends DEF Holds
<1>3. open \in [Endpoint -> BOOLEAN]
  BY DEF SessionInv, ConnectionTypeOK, NetTypeOK
<1> QED BY <1>1, <1>2, <1>3, Ends DEF CloseAll, Apart

(* Every step of a session leaves the sockets of the others alone. *)
LEMMA StepsApart ==
  ASSUME SessionInv, NEW s \in Session, Connect(s) \/ Thread(s) \/ Crash(s)
  PROVE  Apart(s)
<1>1. NetTypeOK /\ open \in [Endpoint -> BOOLEAN] /\ dial \in [Session -> Session \cup {None}]
  BY DEF SessionInv, ConnectionTypeOK, NetTypeOK
<1>2. ASSUME UNCHANGED open,
             \A t \in Session \ {s} : connected'[t] = connected[t]
      PROVE  Apart(s)
  BY <1>2 DEF Apart
<1>3. ASSUME open' = [open EXCEPT ![MedEnd(s)] = FALSE],
             \A t \in Session \ {s} : connected'[t] = connected[t]
      PROVE  Apart(s)
  BY <1>1, <1>3, Ends DEF Apart
<1>4. ASSUME NEW e \in {MedEnd(s), ClientEnd(s)}, Establish(e)
      PROVE  /\ Far(e) \in {HandlerEnd(s), PeerEnd(s)}
             /\ Far(MedEnd(s)) = HandlerEnd(s)
             /\ \A f \in Endpoint \ {e, Far(e)} : open'[f] = open[f]
  BY <1>1, <1>4, EstablishOpens, Ends
<1>5. CASE Preparing(s)
  <2>1. CASE Establish(MedEnd(s))
    BY SMT, <1>4, <1>5, <2>1, Ends DEF Preparing, Apart
  <2> QED BY <1>2, <1>3, <1>5, <2>1 DEF Preparing
<1>6. CASE Handshakes(s)
  <2>1. CASE Acknowledges(s)
    BY <1>1, <2>1, Ends DEF Acknowledges, Writes, Apart
  <2>2. CASE Dials(s)
    <3>1. dial[s] = None /\ dial'[s] \in Session
      <4>1. Defined(s)
        BY DEF SessionInv
      <4>2. PICK a \in Address :
              listener[a] # None /\ dial' = [dial EXCEPT ![s] = listener[a]]
        BY <2>2 DEF Dials
      <4>3. listener[a] \in Session
        BY <4>2 DEF SessionInv, ConnectionTypeOK
      <4> QED BY <1>1, <2>2, <4>1, <4>2, <4>3 DEF Dials, Defined
    <3>2. \A t \in Session \ {s} :
            {MedEnd(t), ClientEnd(t), PeerEnd(t)}
              \subseteq Endpoint \ {ClientEnd(s), PeerEnd(s)}
      BY Ends
    <3>3. Far(ClientEnd(s)) = PeerEnd(s)
      BY Ends
    <3> QED BY <1>4, <2>2, <3>1, <3>2, <3>3, NoneAssumption DEF Dials, Apart
  <2> QED BY <1>2, <1>6, <2>1, <2>2
          DEF Handshakes, Accepts, ClientSpeaks, PeerSpeaks, Confirms,
              Reads, Writes
<1>7. CASE Killed(s)
  BY <1>7, CloseAllApart DEF Killed, Die
<1>8. ASSUME NEW kind \in ErrorKind, Thrown(s, kind) PROVE Apart(s)
  BY <1>3, <1>8, CloseAllApart DEF Thrown
<1>9. CASE Callback(s) \/ CallbackThrows(s)
  BY <1>2, <1>9, CloseAllApart DEF Callback, CallbackThrows, Throw, Die
<1> QED BY <1>5, <1>6, <1>7, <1>8, <1>9, StepKinds
-----------------------------------------------------------------------------
(* Progress(t) speaks of nothing that a step of another session changes. *)
LEMMA SameProgress ==
  ASSUME SessionInv, NEW t \in Session, Progress(t), Same(t),
         connected'[t] = connected[t], open[MedEnd(t)] => open'[MedEnd(t)]
  PROVE  Progress(t)'
<1>1. accepted[t] # None => dial'[accepted'[t]] = t
  <2>1. accepted[t] \in Session \cup {None}
    BY DEF SessionInv, ConnectionTypeOK
  <2> QED BY <2>1, NoneAssumption DEF Same, Progress
<1>2. Reported(t)' /\ Told(t)'
  BY DEF Progress, Same, Reported, Told
<1> QED BY <1>1, <1>2 DEF Progress, Same

(* The second call of a callback that has thrown is appended to the first. *)
LEMMA SecondCall ==
  ASSUME NEW outcome \in ErrorKind \cup {"socket"}
  PROVE  Append(<<"socket">>, outcome) = <<"socket", outcome>>
<1> DEFINE x == Append(<<"socket">>, outcome)
           y == <<"socket", outcome>>
<1>1. /\ x \in Seq(ErrorKind \cup {"socket"}) /\ Len(x) = 2
      /\ x[1] = "socket" /\ x[2] = outcome
  BY SMT
<1>2. /\ y \in Seq(ErrorKind \cup {"socket"}) /\ Len(y) = 2
      /\ y[1] = "socket" /\ y[2] = outcome
  BY SMT
<1> HIDE DEF x, y
<1>3. \A i \in 1 .. 2 : x[i] = y[i]
  BY SMT, <1>1, <1>2
<1>4. x = y
  BY SMT, <1>1, <1>2, <1>3
<1> QED BY <1>4 DEF x, y

(***************************************************************************)
(* The session that takes the step.                                        *)
(***************************************************************************)
LEMMA ProgressStep ==
  ASSUME SessionInv, SessionInv', NEW s \in Session, Progress(s),
         Connect(s) \/ Thread(s) \/ Crash(s)
  PROVE  Progress(s)'
<1>1. ConnectionTypeOK /\ Defined(s) /\ Defined(s)'
  BY DEF SessionInv
<1>2. ASSUME NEW location, Go(s, location) PROVE pc'[s] = location
  BY <1>1, <1>2 DEF Go, ConnectionTypeOK, MediatorConnectionTypeOK
<1>3. ASSUME NEW outcome, verdict' = [verdict EXCEPT ![s] = outcome]
      PROVE  verdict'[s] = outcome
  BY <1>1, <1>3 DEF ConnectionTypeOK, MediatorConnectionTypeOK
<1> USE DEF MediatorStage, PeerStage, Unassigned, ClientLocation, ClientDialled,
            PeerLocation, PeerAccepted, Final, AtMediator
<1>4. CASE Preparing(s)
  <2>1. dial'[s] = None /\ accepted'[s] = None
    BY <1>4 DEF Preparing, Progress
  <2>2. verdict'[s] = None /\ callbacks'[s] = <<>>
    BY <1>4 DEF Preparing, Progress
  <2>3. pc'[s] \in AtMediator => open'[MedEnd(s)]
    <3>1. Establish(MedEnd(s)) => open'[MedEnd(s)]
      BY <1>1, EstablishOpens, Ends DEF ConnectionTypeOK
    <3> QED BY <1>4, <3>1 DEF Preparing, Progress
  <2>4. pc'[s] \in Unassigned \cup ClientLocation => peer_disconnect'[s] = None
    BY <1>4 DEF Preparing, Progress
  <2>5. Reported(s)' /\ Told(s)'
    BY <2>2, AbsentAssumption DEF Reported, Told, ErrorKind
  <2>6. pc'[s] \notin Final /\ (pc'[s] \in {"client", "peer"} => connected'[s])
    BY <1>4 DEF Preparing
  <2> QED BY <2>1, <2>2, <2>3, <2>4, <2>5, <2>6 DEF Progress
<1>5. CASE Handshakes(s)
  <2>1. /\ pc[s] \in {"dial", "redial", "accept"} \cup ClientDialled \cup PeerAccepted
        /\ pc'[s] \in ClientDialled \cup PeerAccepted \cup {"returning"}
        /\ pc'[s] = "returning" => verdict'[s] = "socket"
        /\ pc'[s] # "returning" => verdict'[s] = verdict[s]
        /\ UNCHANGED <<connected, punched_peer, peer_disconnect, callbacks>>
    BY <1>2, <1>3, <1>5
    DEF Handshakes, Dials, Accepts, ClientSpeaks, PeerSpeaks, Confirms,
        Acknowledges, Reads, Writes
  <2>2. callbacks'[s] = <<>> /\ Reported(s)' /\ Told(s)'
    BY <2>1, AbsentAssumption DEF Progress, Reported, Told, ErrorKind
  <2>3. dial'[s] # None =>
          punched_peer'[s] # None /\ pc'[s] \in ClientDialled \cup Final
    <3>1. CASE Dials(s)
      BY <1>1, <1>2, <3>1, AbsentAssumption DEF Dials, Defined
    <3>2. CASE ~Dials(s)
      BY <1>2, <1>5, <3>2
      DEF Handshakes, Accepts, ClientSpeaks, PeerSpeaks, Confirms,
          Acknowledges, Reads, Writes, Progress
    <3> QED BY <3>1, <3>2
  <2>4. accepted'[s] # None => /\ punched_peer'[s] = None
                               /\ dial'[accepted'[s]] = s
                               /\ pc'[s] \in PeerAccepted \cup Final
    <3>1. CASE Accepts(s)
      BY <1>1, <1>2, <3>1 DEF Accepts, Defined, ConnectionTypeOK
    <3>2. CASE Dials(s)
      BY <3>2 DEF Dials, Progress
    <3>3. CASE ~Dials(s) /\ ~Accepts(s)
      BY <1>2, <1>5, <3>3
      DEF Handshakes, ClientSpeaks, PeerSpeaks, Confirms, Acknowledges, Reads,
          Writes, Progress
    <3> QED BY <3>1, <3>2, <3>3
  <2>5. pc'[s] \in Unassigned \cup ClientLocation => pc[s] \in ClientLocation
    BY <1>2, <1>5
    DEF Handshakes, Dials, Accepts, ClientSpeaks, PeerSpeaks, Confirms,
        Acknowledges, Reads, Writes
  <2>6. pc'[s] \notin Final => verdict'[s] = None
    BY <2>1 DEF Progress
  <2>7. pc'[s] \in {"returning", "done"} => verdict'[s] # None
    BY <2>1, AbsentAssumption
  <2> QED BY <2>1, <2>2, <2>3, <2>4, <2>5, <2>6, <2>7 DEF Progress
<1>6. CASE Killed(s)
  <2>1. /\ pc'[s] = "died"
        /\ UNCHANGED <<verdict, callbacks, punched_peer, peer_disconnect, dial,
                       accepted>>
    BY <1>2, <1>6 DEF Killed, Die
  <2> QED BY <2>1 DEF Progress, Reported, Told
<1>7. ASSUME NEW kind \in ErrorKind, Thrown(s, kind) PROVE Progress(s)'
  <2>1. /\ pc'[s] = "returning" /\ verdict'[s] = kind
        /\ pc[s] \in MediatorStage \cup PeerStage
        /\ UNCHANGED <<callbacks, punched_peer, peer_disconnect, dial, accepted>>
    BY <1>2, <1>3, <1>7 DEF Thrown
  <2>2. callbacks'[s] = <<>> /\ Reported(s)'
    BY <2>1 DEF Progress, Reported
  <2>3. Told(s)'
    BY <1>1, <1>7, <2>1, AbsentAssumption
    DEF Thrown, Told, Progress, Defined
  <2> QED BY <2>1, <2>2, <2>3, AbsentAssumption DEF Progress
<1>8. CASE Callback(s) \/ CallbackThrows(s)
  <2>1. /\ pc[s] = "returning"
        /\ verdict[s] \in ErrorKind \cup {"socket"}
        /\ callbacks'[s] = Append(callbacks[s], verdict[s])
        /\ UNCHANGED <<punched_peer, peer_disconnect, dial, accepted>>
    BY <1>1, <1>8
    DEF Callback, CallbackThrows, Called, Throw, Die, Defined, ConnectionTypeOK,
        MediatorConnectionTypeOK
  <2>2. \/ pc'[s] \in {"done", "died"} /\ verdict'[s] = verdict[s]
        \/ /\ pc'[s] = "returning" /\ verdict[s] = "socket"
           /\ verdict'[s] = "kErrorUnknown" /\ "callback" \in Faults
    BY <1>2, <1>3, <1>8 DEF Callback, CallbackThrows, Throw, Die
  <2>3. \/ callbacks[s] = <<>> /\ callbacks'[s] = <<verdict[s]>>
        \/ /\ callbacks'[s] = <<"socket", "kErrorUnknown">>
           /\ verdict[s] = "kErrorUnknown" /\ "callback" \in Faults
    <3>1. callbacks[s] = <<>> => callbacks'[s] = <<verdict[s]>>
      BY SMT, <2>1
    <3>2. ASSUME callbacks[s] = <<"socket">>
          PROVE  callbacks'[s] = <<"socket", verdict[s]>>
      BY <2>1, <3>2, SecondCall
    <3> QED BY <2>1, <3>1, <3>2 DEF Progress
  <2>4. Reported(s)'
    BY <2>1, <2>3 DEF Reported
  <2>5. Told(s)'
    BY <2>1, <2>2 DEF Progress, Told
  <2>6. pc'[s] = "returning" =>
          callbacks'[s] = <<"socket">> /\ verdict'[s] = "kErrorUnknown"
          /\ "callback" \in Faults
    BY <2>2, <2>3
  <2>7. verdict'[s] # None
    BY <2>1, <2>2, AbsentAssumption DEF ErrorKind
  <2> QED BY <2>1, <2>2, <2>4, <2>5, <2>6, <2>7 DEF Progress
<1> QED BY <1>4, <1>5, <1>6, <1>7, <1>8, StepKinds

(***************************************************************************)
(* Every step of a session keeps the progress of all of them.              *)
(***************************************************************************)
LEMMA ProgressKept ==
  ASSUME SessionInv, \A t \in Session : Progress(t), NEW s \in Session,
         Connect(s) \/ Thread(s) \/ Crash(s)
  PROVE  \A t \in Session : Progress(t)'
<1>1. SessionInv' /\ \A t \in Session \ {s} : Same(t)
  BY SessionDefined
<1>2. Progress(s)'
  BY <1>1, ProgressStep
<1>3. Apart(s)
  BY StepsApart
<1>4. ASSUME NEW t \in Session \ {s} PROVE Progress(t)'
  BY <1>1, <1>3, SameProgress DEF Apart
<1> QED BY <1>2, <1>4
-----------------------------------------------------------------------------
(***************************************************************************)
(* How a session starts and stops listening.                               *)
(***************************************************************************)
LEMMA ListeningStep ==
  ASSUME SessionInv, NEW s \in Session, Connect(s) \/ Thread(s) \/ Crash(s)
  PROVE  /\ pc'[s] \in Listening =>
              \/ pc[s] \in Listening /\ UNCHANGED <<open, listener>>
              \/ pc[s] = "bind"
         /\ pc[s] \in Listening /\ pc'[s] \notin Listening =>
              StopListening(s) /\ pc'[s] \in Final
         /\ pc[s] \in Final => pc'[s] \in Final
         /\ \/ UNCHANGED listener \/ StopListening(s)
            \/ pc'[s] = "accept"
               /\ \E a \in Address : listener' = [listener EXCEPT ![a] = s]
         /\ pc'[s] \in ClientDialled =>
              Dials(s) \/ (pc[s] \in ClientDialled /\ UNCHANGED open)
         /\ ~Dials(s) => UNCHANGED dial
<1>1. ConnectionTypeOK
  BY DEF SessionInv
<1>2. ASSUME NEW location, Go(s, location) PROVE pc'[s] = location
  BY <1>1, <1>2 DEF Go, ConnectionTypeOK, MediatorConnectionTypeOK
<1> USE DEF MediatorStage, PeerStage, Listening, ClientDialled, PeerAccepted, Final
<1>3. CASE Preparing(s)
  BY <1>3 DEF Preparing
<1>4. CASE Handshakes(s)
  <2>1. CASE Acknowledges(s)
    BY <1>2, <2>1 DEF Acknowledges, Writes
  <2>2. CASE Dials(s)
    BY <1>2, <2>2 DEF Dials
  <2>3. CASE Accepts(s) \/ Confirms(s)
    BY <1>2, <2>3 DEF Accepts, Confirms, Reads
  <2>4. CASE (ClientSpeaks(s) \/ PeerSpeaks(s)) /\ UNCHANGED <<open, listener>>
    BY <1>2, <2>4 DEF ClientSpeaks, PeerSpeaks, Reads, Writes
  <2> QED BY <1>4, <2>1, <2>2, <2>3, <2>4 DEF Handshakes
<1>5. CASE Killed(s)
  BY <1>2, <1>5 DEF Killed, Die
<1>6. ASSUME NEW kind \in ErrorKind, Thrown(s, kind)
      PROVE  /\ pc'[s] = "returning" /\ UNCHANGED dial
             /\ StopListening(s) \/ (pc[s] \in MediatorStage /\ UNCHANGED listener)
             /\ pc[s] \notin Final
  BY <1>2, <1>6 DEF Thrown
<1>7. CASE Callback(s) \/ CallbackThrows(s)
  BY <1>2, <1>7 DEF Callback, CallbackThrows, Throw, Die
<1> QED BY <1>3, <1>4, <1>5, <1>6, <1>7, StepKinds

(***************************************************************************)
(* Every step of a session keeps the descriptors that are used open.       *)
(***************************************************************************)
LEMMA OpenedKept ==
  ASSUME SessionInv, RendezvousInv, NEW s \in Session,
         Connect(s) \/ Thread(s) \/ Crash(s)
  PROVE  (\A c \in Session : Opened(c)') /\ Listeners'
<1>1. /\ SessionInv' /\ \A t \in Session \ {s} : Same(t)
      /\ Apart(s)
  BY SessionDefined, StepsApart
<1>2. /\ \A c \in Session : Opened(c) /\ Progress(c) /\ Defined(c)
      /\ Listeners
      /\ dial \in [Session -> Session \cup {None}]
      /\ listener \in [Address -> Session \cup {None}] /\ NetTypeOK
  BY DEF RendezvousInv, SessionInv, ConnectionTypeOK
<1>3. /\ pc'[s] \in Listening =>
              \/ pc[s] \in Listening /\ UNCHANGED <<open, listener>>
              \/ pc[s] = "bind"
      /\ pc[s] \in Listening /\ pc'[s] \notin Listening =>
              StopListening(s) /\ pc'[s] \in Final
      /\ pc[s] \in Final => pc'[s] \in Final
      /\ \/ UNCHANGED listener \/ StopListening(s)
         \/ pc'[s] = "accept"
            /\ \E a \in Address : listener' = [listener EXCEPT ![a] = s]
      /\ pc'[s] \in ClientDialled =>
           Dials(s) \/ (pc[s] \in ClientDialled /\ UNCHANGED open)
      /\ ~Dials(s) => UNCHANGED dial
  BY ListeningStep
<1>4. Listeners'
  <2>1. ASSUME NEW a \in Address, listener'[a] # None
        PROVE  pc'[listener'[a]] \in Listening
    <3>1. CASE listener'[a] = s
      <4>1. CASE UNCHANGED listener
        <5>1. pc[s] \in Listening
          BY <1>2, <3>1, <4>1, NoneAssumption DEF Listeners
        <5>2. ~StopListening(s)
          BY <2>1, <3>1, <4>1, NoneAssumption DEF StopListening
        <5> QED BY <1>3, <3>1, <5>1, <5>2
      <4>2. CASE StopListening(s)
        BY <2>1, <3>1, <4>2, NoneAssumption DEF StopListening
      <4>3. CASE pc'[s] = "accept"
        BY <3>1, <4>3 DEF Listening
      <4> QED BY <1>3, <4>1, <4>2, <4>3
    <3>2. CASE listener'[a] # s
      <4>1. listener'[a] = listener[a]
        BY <1>2, <1>3, <2>1, <3>2 DEF StopListening
      <4>2. listener[a] \in Session \ {s} /\ pc[listener[a]] \in Listening
        BY <1>2, <2>1, <3>2, <4>1 DEF Listeners
      <4> QED BY <1>1, <4>1, <4>2 DEF Same
    <3> QED BY <3>1, <3>2
  <2> QED BY <2>1 DEF Listeners
<1>5. ASSUME NEW c \in Session PROVE Opened(c)'
  <2>1. pc'[c] \in ClientDialled => open'[ClientEnd(c)]
    <3>1. CASE c = s
      <4>1. Dials(s) => open'[ClientEnd(s)]
        BY <1>2, EstablishOpens, Ends DEF Dials
      <4> QED BY <1>2, <1>3, <3>1, <4>1 DEF Opened
    <3>2. CASE c # s
      BY <1>1, <1>2, <3>2 DEF Same, Apart, Opened
    <3> QED BY <3>1, <3>2
  <2>2. ASSUME dial'[c] # None
        PROVE  /\ pc'[dial'[c]] \in Listening \cup Final
               /\ pc'[dial'[c]] \in Listening => open'[PeerEnd(c)]
    <3>1. CASE c = s /\ Dials(s)
      <4>1. PICK a \in Address : listener[a] # None /\ dial'[s] = listener[a]
        BY <1>2, <3>1 DEF Dials
      <4>2. listener[a] \in Session /\ pc[listener[a]] \in Listening
        BY <1>2, <4>1 DEF Listeners
      <4>3. pc[s] \notin Listening
        BY <3>1 DEF Dials, Listening, PeerAccepted
      <4>4. pc'[listener[a]] = pc[listener[a]]
        BY <1>1, <4>2, <4>3 DEF Same
      <4>5. open'[PeerEnd(s)]
        BY <1>2, <3>1, EstablishOpens, Ends DEF Dials
      <4> QED BY <3>1, <4>1, <4>2, <4>4, <4>5
    <3>2. CASE ~(c = s /\ Dials(s))
      <4>1. dial'[c] = dial[c] /\ dial[c] \in Session
        <5>1. dial'[c] = dial[c]
          BY <1>1, <1>3, <3>2 DEF Same
        <5> QED BY <1>2, <2>2, <5>1
      <4>2. pc[dial[c]] \in Listening \cup Final
            /\ (pc[dial[c]] \in Listening => open[PeerEnd(c)])
        BY <1>2, <4>1, NoneAssumption DEF Opened
      <4>3. CASE dial[c] = s
        <5>1. pc[s] # "bind"
          BY <4>2, <4>3 DEF Listening, PeerAccepted, Final
        <5> QED BY <1>3, <4>1, <4>2, <4>3, <5>1
      <4>4. CASE dial[c] # s
        <5>1. pc'[dial[c]] = pc[dial[c]]
          BY <1>1, <4>1, <4>4 DEF Same
        <5>2. open'[PeerEnd(c)] = open[PeerEnd(c)]
          BY <1>1, <4>1, <4>4 DEF Apart
        <5> QED BY <4>1, <4>2, <5>1, <5>2
      <4> QED BY <4>3, <4>4
    <3> QED BY <3>1, <3>2
  <2> QED BY <2>1, <2>2 DEF Opened
<1> QED BY <1>4, <1>5
-----------------------------------------------------------------------------
(***************************************************************************)
(* _connect returns a socket in two places, and a session that has one     *)
(* does not forget it: a callback that throws is called again, but the     *)
(* first call has been made.                                               *)
(***************************************************************************)
LEMMA SocketStep ==
  ASSUME SessionInv, SessionInv', NEW s \in Session, Progress(s), Progress(s)',
         Connect(s) \/ Thread(s) \/ Crash(s)
  PROVE  /\ Confirms(s) \/ Acknowledges(s) => ~GotSocket(s) /\ GotSocket(s)'
         /\ ~Confirms(s) /\ ~Acknowledges(s) => (GotSocket(s)' <=> GotSocket(s))
<1>1. Defined(s) /\ Defined(s)' /\ ConnectionTypeOK
  BY DEF SessionInv
<1>2. ASSUME NEW location, Go(s, location) PROVE pc'[s] = location
  BY <1>1, <1>2 DEF Go, ConnectionTypeOK, MediatorConnectionTypeOK
<1>3. ASSUME NEW outcome, verdict' = [verdict EXCEPT ![s] = outcome]
      PROVE  verdict'[s] = outcome
  BY <1>1, <1>3 DEF ConnectionTypeOK, MediatorConnectionTypeOK
<1>4. ASSUME pc[s] \notin Final PROVE ~GotSocket(s)
  BY <1>4, NoSocketYet
<1>5. ASSUME pc'[s] \notin Final PROVE ~GotSocket(s)'
  BY <1>1, <1>5 DEF Defined
<1> USE DEF MediatorStage, PeerStage, Final
<1>6. CASE Preparing(s)
  BY <1>4, <1>5, <1>6 DEF Preparing, Confirms, Acknowledges, Reads, Writes
<1>7. CASE Handshakes(s)
  <2>1. pc[s] \notin Final
    BY <1>7 DEF Handshakes, Dials, Accepts, ClientSpeaks, PeerSpeaks, Confirms,
                Acknowledges, Reads, Writes
  <2>2. CASE Confirms(s) \/ Acknowledges(s)
    BY <1>3, <1>4, <2>1, <2>2 DEF Confirms, Acknowledges, GotSocket
  <2>3. CASE ~Confirms(s) /\ ~Acknowledges(s)
    <3>1. pc'[s] \notin Final
      BY <1>2, <1>7, <2>3
      DEF Handshakes, Dials, Accepts, ClientSpeaks, PeerSpeaks, Reads, Writes
    <3> QED BY <1>4, <1>5, <2>1, <2>3, <3>1
  <2> QED BY <2>2, <2>3
<1>8. CASE Killed(s)
  <2>1. UNCHANGED <<verdict, callbacks>> /\ pc'[s] = "died"
    BY <1>2, <1>8 DEF Killed, Die
  <2>2. GotSocket(s)' <=> GotSocket(s)
    BY <2>1 DEF GotSocket
  <2>3. ~Confirms(s) /\ ~Acknowledges(s)
    BY <1>2, <2>1 DEF Confirms, Acknowledges, Reads, Writes
  <2> QED BY <2>2, <2>3
<1>9. ASSUME NEW kind \in ErrorKind, Thrown(s, kind)
      PROVE  ~GotSocket(s) /\ ~GotSocket(s)' /\ ~Confirms(s) /\ ~Acknowledges(s)
  <2>1. /\ pc[s] \notin Final /\ verdict'[s] = kind /\ kind # "socket"
        /\ callbacks'[s] = callbacks[s]
    BY <1>3, <1>9 DEF Thrown, ErrorKind
  <2>2. ~GotSocket(s) /\ ~GotSocket(s)'
    BY <1>4, <2>1 DEF GotSocket
  <2>3. ~Confirms(s) /\ ~Acknowledges(s)
    BY <1>3, <2>1 DEF Confirms, Acknowledges
  <2> QED BY <2>2, <2>3
<1>10. CASE Callback(s) \/ CallbackThrows(s)
  <2>1. /\ pc[s] = "returning"
        /\ callbacks'[s] = Append(callbacks[s], verdict[s])
        /\ callbacks[s] \in Seq(ErrorKind \cup {"socket"})
        /\ verdict[s] \in ErrorKind \cup {"socket"}
    BY <1>1, <1>10
    DEF Callback, CallbackThrows, Called, Defined, ConnectionTypeOK,
        MediatorConnectionTypeOK
  <2>2. GotSocket(s)' => GotSocket(s)
    BY <1>10, CallbackDefined
  <2>3. ASSUME GotSocket(s) PROVE GotSocket(s)'
    <3>1. CASE verdict[s] = "socket"
      <4>1. /\ Len(callbacks[s]) + 1 \in DOMAIN callbacks'[s]
            /\ callbacks'[s][Len(callbacks[s]) + 1] = "socket"
        BY SMT, <2>1, <3>1
      <4> QED BY <4>1 DEF GotSocket
    <3>2. ASSUME NEW i \in DOMAIN callbacks[s], callbacks[s][i] = "socket"
          PROVE  GotSocket(s)'
      <4>1. i \in DOMAIN callbacks'[s] /\ callbacks'[s][i] = "socket"
        BY SMT, <2>1, <3>2
      <4> QED BY <4>1 DEF GotSocket
    <3> QED BY <2>3, <3>1, <3>2 DEF GotSocket
  <2>4. ~Confirms(s) /\ ~Acknowledges(s)
    BY <2>1 DEF Confirms, Acknowledges, Reads, Writes
  <2> QED BY <2>2, <2>3, <2>4
<1> QED BY <1>6, <1>7, <1>8, <1>9, <1>10, StepKinds
-----------------------------------------------------------------------------
(* What the two ends of c's connection can read stays the same. *)
SameInbox(c) == /\ inbox'[PeerEnd(c)] = inbox[PeerEnd(c)]
                /\ inbox'[ClientEnd(c)] = inbox[ClientEnd(c)]

(* A phase of the exchange ends with a step of the Client or of the Peer. *)
LEMMA PhasesKept ==
  ASSUME NEW c \in Session, Same(c), SameInbox(c)
  PROVE  /\ Unchallenged(c) => Unchallenged(c)'
         /\ Challenged(c) => Challenged(c)'
         /\ Replied(c) => Replied(c)'
         /\ Responded(c) => Responded(c)'
         /\ Acknowledged(c) => Acknowledged(c)'
         /\ Deserted(c) => Deserted(c)'
<1>1. /\ pc'[c] = pc[c] /\ verdict'[c] = verdict[c]
      /\ GotSocket(c)' <=> GotSocket(c)
  BY DEF Same, GotSocket
<1>2. \A types : /\ Finds(PeerEnd(c), types)' <=> Finds(PeerEnd(c), types)
                 /\ Finds(ClientEnd(c), types)' <=> Finds(ClientEnd(c), types)
  BY DEF SameInbox, Finds
<1>3. Unread(ClientEnd(c))' = Unread(ClientEnd(c))
  BY DEF SameInbox, Unread
<1> QED BY <1>1, <1>2, <1>3
        DEF SameInbox, Unchallenged, Challenged, Replied, Responded,
            Acknowledged, Deserted

(***************************************************************************)
(* A step of s leaves an exchange alone of which s is neither the Client   *)
(* nor, before and after the step, the Peer that has accepted it.          *)
(***************************************************************************)
LEMMA Elsewhere ==
  ASSUME SessionInv, NEW s \in Session, \A t \in Session \ {s} : Same(t),
         NEW c \in Session \ {s}, Exchange(c), SameInbox(c),
         dial[c] = s => accepted[s] # c /\ accepted'[s] # c
  PROVE  Exchange(c)'
<1>1. Same(c) /\ dial'[c] = dial[c] /\ dial[c] \in Session \cup {None}
  BY DEF Same, SessionInv, ConnectionTypeOK
<1>2. CASE dial[c] = None
  BY <1>1, <1>2 DEF Exchange, SameInbox
<1>3. CASE dial[c] = s
  <2>1. Unchallenged(c)
    BY <1>3, NoneAssumption DEF Exchange
  <2>2. Unchallenged(c)'
    BY <1>1, <2>1, PhasesKept
  <2> QED BY <1>1, <1>3, <2>2, NoneAssumption DEF Exchange
<1>4. CASE dial[c] \in Session \ {s}
  <2>1. Same(dial[c])
    BY <1>4
  <2>2. /\ pc'[dial'[c]] = pc[dial[c]] /\ accepted'[dial'[c]] = accepted[dial[c]]
        /\ dial'[c] # None /\ dial[c] # None
    BY <1>1, <1>4, <2>1, NoneAssumption DEF Same
  <2>3. GotSocket(dial[c])' <=> GotSocket(dial[c])
    BY SMT, <1>1, <2>1 DEF Same, GotSocket
  <2> QED BY <1>1, <2>2, <2>3, PhasesKept DEF Exchange
<1> QED BY <1>1, <1>2, <1>3, <1>4

(***************************************************************************)
(* A step of s as Client moves on its own exchange only.                   *)
(***************************************************************************)
LEMMA ClientSide ==
  ASSUME SessionInv, NEW s \in Session, \A t \in Session \ {s} : Same(t),
         \A c \in Session : Exchange(c),
         \A c \in Session \ {s} : SameInbox(c),
         dial[s] \in Session, dial'[s] = dial[s],
         accepted[s] = None, accepted'[s] = None,
         Unchallenged(s) => Unchallenged(s)',
         Challenged(s) => Challenged(s)',
         Replied(s) /\ pc[dial[s]] = "replied" => Replied(s)',
         Responded(s) /\ pc[dial[s]] = "acking" => Responded(s)',
         Acknowledged(s) => Acknowledged(s)',
         Deserted(s) => Deserted(s)'
  PROVE  \A c \in Session : Exchange(c)'
<1>1. \A c \in Session \ {s} : Exchange(c)'
  BY Elsewhere, NoneAssumption
<1>2. Exchange(s)'
  <2>1. CASE accepted[dial[s]] # s
    <3>1. accepted'[dial'[s]] # s
      BY <2>1, NoneAssumption DEF Same
    <3>2. Unchallenged(s)
      BY <2>1, NoneAssumption DEF Exchange
    <3> QED BY <3>1, <3>2, NoneAssumption DEF Exchange
  <2>2. CASE accepted[dial[s]] = s
    <3>1. dial[s] # s
      BY <2>2, NoneAssumption
    <3>2. /\ pc'[dial'[s]] = pc[dial[s]] /\ accepted'[dial'[s]] = accepted[dial[s]]
          /\ dial'[s] # None /\ dial[s] # None
      BY SMT, <3>1, NoneAssumption DEF Same
    <3>3. GotSocket(dial[s])' <=> GotSocket(dial[s])
      BY SMT, <3>1 DEF Same, GotSocket
    <3> QED BY <2>2, <3>2, <3>3 DEF Exchange
  <2> QED BY <2>1, <2>2
<1> QED BY <1>1, <1>2

(***************************************************************************)
(* A step of s as Peer moves on the exchange with the Client it accepts.   *)
(***************************************************************************)
LEMMA PeerSide ==
  ASSUME SessionInv, NEW s \in Session, \A t \in Session \ {s} : Same(t),
         \A c \in Session : Exchange(c),
         NEW c \in Session, dial[c] = s, dial[s] = None, dial'[s] = None,
         accepted[s] \in {c, None}, accepted'[s] = c,
         \A d \in Session \ {c} : SameInbox(d),
         Exchange(c)'
  PROVE  \A d \in Session : Exchange(d)'
<1>1. c # s
  BY NoneAssumption
<1>2. Exchange(s)'
  BY <1>1 DEF Exchange, SameInbox
<1>3. \A d \in Session \ {s, c} : Exchange(d)'
  BY Elsewhere, NoneAssumption
<1> QED BY <1>2, <1>3

(***************************************************************************)
(* A session that is on no connection yet changes no exchange.             *)
(***************************************************************************)
LEMMA Unconnected ==
  ASSUME SessionInv, NEW s \in Session, \A t \in Session \ {s} : Same(t),
         \A c \in Session : Exchange(c) /\ SameInbox(c),
         dial[s] = None, dial'[s] = None,
         accepted[s] = None, accepted'[s] = None
  PROVE  \A c \in Session : Exchange(c)'
<1>1. \A c \in Session \ {s} : Exchange(c)'
  BY Elsewhere, NoneAssumption
<1>2. Exchange(s)'
  BY DEF Exchange, SameInbox
<1> QED BY <1>1, <1>2

(***************************************************************************)
(* The side that a session is on.                                          *)
(***************************************************************************)
LEMMA Sides ==
  ASSUME SessionInv, NEW s \in Session, Progress(s)
  PROVE  /\ pc[s] \in ClientDialled => dial[s] \in Session
         /\ pc[s] \in PeerAccepted => /\ accepted[s] \in Session
                                      /\ dial[accepted[s]] = s
         /\ pc[s] \notin ClientDialled \cup Final => dial[s] = None
         /\ pc[s] \notin PeerAccepted \cup Final => accepted[s] = None
         /\ dial[s] = None \/ accepted[s] = None
<1>1. Defined(s)
  BY DEF SessionInv
<1> QED BY <1>1 DEF Defined, Progress

(* What a session reads or writes on its connection to another session. *)
LEMMA P2pTraffic ==
  ASSUME SessionInv, NEW c \in Session
  PROVE  /\ \A m : Send(ClientEnd(c), m) =>
              /\ \/ inbox'[PeerEnd(c)] = inbox[PeerEnd(c)]
                 \/ inbox'[PeerEnd(c)] = Append(inbox[PeerEnd(c)], m)
              /\ inbox'[ClientEnd(c)] = inbox[ClientEnd(c)]
              /\ \A d \in Session \ {c} : SameInbox(d)
         /\ \A m : Send(PeerEnd(c), m) =>
              /\ \/ inbox'[ClientEnd(c)] = inbox[ClientEnd(c)]
                 \/ inbox'[ClientEnd(c)] = Append(inbox[ClientEnd(c)], m)
              /\ open[ClientEnd(c)] =>
                   inbox'[ClientEnd(c)] = Append(inbox[ClientEnd(c)], m)
              /\ inbox'[PeerEnd(c)] = inbox[PeerEnd(c)]
              /\ \A d \in Session \ {c} : SameInbox(d)
         /\ Receive(ClientEnd(c)) =>
              /\ inbox'[ClientEnd(c)] = Tail(inbox[ClientEnd(c)])
              /\ inbox'[PeerEnd(c)] = inbox[PeerEnd(c)]
              /\ \A d \in Session \ {c} : SameInbox(d)
         /\ Receive(PeerEnd(c)) =>
              /\ inbox'[PeerEnd(c)] = Tail(inbox[PeerEnd(c)])
              /\ inbox'[ClientEnd(c)] = inbox[ClientEnd(c)]
              /\ \A d \in Session \ {c} : SameInbox(d)
<1>1. NetTypeOK /\ ClientEnd(c) \in Endpoint /\ PeerEnd(c) \in Endpoint
      /\ Far(ClientEnd(c)) = PeerEnd(c) /\ Far(PeerEnd(c)) = ClientEnd(c)
      /\ ClientEnd(c) # PeerEnd(c)
  BY Ends DEF SessionInv, ConnectionTypeOK
<1>2. \A d \in Session \ {c} :
        /\ ClientEnd(d) \in Endpoint \ {ClientEnd(c), PeerEnd(c)}
        /\ PeerEnd(d) \in Endpoint \ {ClientEnd(c), PeerEnd(c)}
  BY Ends
<1>3. ASSUME NEW m, Send(ClientEnd(c), m)
      PROVE  /\ \/ inbox'[PeerEnd(c)] = inbox[PeerEnd(c)]
                \/ inbox'[PeerEnd(c)] = Append(inbox[PeerEnd(c)], m)
             /\ \A f \in Endpoint \ {PeerEnd(c)} : inbox'[f] = inbox[f]
  BY <1>1, <1>3, SendAppends
<1>4. ASSUME NEW m, Send(PeerEnd(c), m)
      PROVE  /\ \/ inbox'[ClientEnd(c)] = inbox[ClientEnd(c)]
                \/ inbox'[ClientEnd(c)] = Append(inbox[ClientEnd(c)], m)
             /\ open[ClientEnd(c)] =>
                  inbox'[ClientEnd(c)] = Append(inbox[ClientEnd(c)], m)
             /\ \A f \in Endpoint \ {ClientEnd(c)} : inbox'[f] = inbox[f]
  BY <1>1, <1>4, SendAppends
<1>5. ASSUME NEW e \in {ClientEnd(c), PeerEnd(c)}, Receive(e)
      PROVE  /\ inbox'[e] = Tail(inbox[e])
             /\ \A f \in Endpoint \ {e} : inbox'[f] = inbox[f]
  BY <1>1, <1>5, ReceiveTakes
<1> QED BY <1>1, <1>2, <1>3, <1>4, <1>5 DEF SameInbox

(***************************************************************************)
(* _connect_as_client, once it has a connection: whatever the Client does, *)
(* the place where its Peer is tells what it can do next.                  *)
(***************************************************************************)
LEMMA ClientExchange ==
  ASSUME SessionInv, RendezvousInv, NEW s \in Session, pc[s] \in ClientDialled,
         Connect(s) \/ Thread(s) \/ Crash(s)
  PROVE  \A c \in Session : Exchange(c)'
<1>1. SessionInv' /\ \A t \in Session \ {s} : Same(t)
  BY SessionDefined
<1>2. /\ \A c \in Session : Exchange(c) /\ Progress(c) /\ Opened(c)
      /\ Progress(s)'
  BY ProgressKept DEF RendezvousInv
<1>3. /\ dial[s] \in Session /\ accepted[s] = None
      /\ P2pEnd(s) = ClientEnd(s) /\ pc[s] \notin Final
      /\ verdict[s] = None /\ ~GotSocket(s)
  BY SMT, <1>2, Sides, P2pEnds, NoSocketYet, NoneAssumption
  DEF ClientDialled, Final, Progress
<1>4. ConnectionTypeOK /\ inbox[ClientEnd(s)] \in Seq(Message)
      /\ inbox[PeerEnd(s)] \in Seq(Message)
  BY Ends DEF SessionInv, ConnectionTypeOK, NetTypeOK
<1>5. ASSUME NEW location, Go(s, location) PROVE pc'[s] = location
  BY <1>4, <1>5 DEF Go, ConnectionTypeOK, MediatorConnectionTypeOK
<1>6. ASSUME NEW outcome, verdict' = [verdict EXCEPT ![s] = outcome]
      PROVE  verdict'[s] = outcome
  BY <1>4, <1>6 DEF ConnectionTypeOK, MediatorConnectionTypeOK
<1>7. ~Confirms(s) /\ ~Acknowledges(s) => ~GotSocket(s)'
  BY <1>1, <1>2, <1>3, SocketStep
<1>8. ~Acknowledges(s)
  BY DEF Acknowledges, Writes, ClientDialled
<1>9. CASE Writes(s, "dialled", "challenging", "PeerChallenge")
           /\ UNCHANGED verdict
  <2>1. PICK m \in Message : m.type = "PeerChallenge" /\ Send(ClientEnd(s), m)
    BY <1>3, <1>9 DEF Writes
  <2>2. /\ \/ inbox'[PeerEnd(s)] = inbox[PeerEnd(s)]
           \/ inbox'[PeerEnd(s)] = Append(inbox[PeerEnd(s)], m)
        /\ inbox'[ClientEnd(s)] = inbox[ClientEnd(s)]
        /\ \A d \in Session \ {s} : SameInbox(d)
    BY <2>1, P2pTraffic
  <2>3. /\ pc[s] = "dialled" /\ pc'[s] = "challenging" /\ ~GotSocket(s)'
        /\ dial'[s] = dial[s] /\ accepted'[s] = accepted[s]
    BY <1>5, <1>7, <1>8, <1>9 DEF Writes, Confirms, Reads
  <2>4. Unchallenged(s) => Unchallenged(s)'
    <3>1. inbox[PeerEnd(s)] = <<>> => Finds(PeerEnd(s), {"PeerChallenge"})'
      BY <1>4, <2>1, <2>2, FindsSent
    <3> QED BY <2>2, <2>3, <3>1 DEF Unchallenged, Final
  <2>5. Deserted(s) => Deserted(s)'
    BY <2>2, <2>3 DEF Deserted, Finds, ClientDialled
  <2>6. ~Challenged(s) /\ ~Replied(s) /\ ~Responded(s) /\ ~Acknowledged(s)
    BY <2>3 DEF Challenged, Replied, Responded, Acknowledged, Final
  <2> QED BY <1>1, <1>2, <1>3, <2>2, <2>3, <2>4, <2>5, <2>6, ClientSide
<1>10. CASE Reads(s, "challenging", "answering") /\ UNCHANGED verdict
  <2>1. /\ inbox[ClientEnd(s)] # <<>>
        /\ inbox'[ClientEnd(s)] = Tail(inbox[ClientEnd(s)])
        /\ inbox'[PeerEnd(s)] = inbox[PeerEnd(s)]
        /\ \A d \in Session \ {s} : SameInbox(d)
    BY <1>3, <1>10, P2pTraffic DEF Reads
  <2>2. /\ pc[s] = "challenging" /\ pc'[s] = "answering" /\ ~GotSocket(s)'
        /\ dial'[s] = dial[s] /\ accepted'[s] = accepted[s]
    BY <1>5, <1>7, <1>8, <1>10 DEF Reads, Confirms
  <2>3. Finds(ClientEnd(s), {"PeerChallengeResponse"}) =>
          inbox'[ClientEnd(s)] = <<>>
    BY <1>4, <2>1, FindsAfter
  <2>4. Replied(s) => Replied(s)'
    BY <2>1, <2>2, <2>3 DEF Replied, Finds
  <2>5. Deserted(s) => Deserted(s)'
    BY SMT, <2>2, <2>3 DEF Deserted, Finds, ClientDialled
  <2>6. ~Unchallenged(s) /\ ~Challenged(s) /\ ~Responded(s) /\ ~Acknowledged(s)
    BY <2>1, <2>2 DEF Unchallenged, Challenged, Responded, Acknowledged, Final
  <2> QED BY <1>1, <1>2, <1>3, <2>1, <2>2, <2>4, <2>5, <2>6, ClientSide
<1>11. CASE Writes(s, "answering", "answered", "PeerResponse")
            /\ UNCHANGED verdict
  <2>1. PICK m \in Message : m.type = "PeerResponse" /\ Send(ClientEnd(s), m)
    BY <1>3, <1>11 DEF Writes
  <2>2. /\ \/ inbox'[PeerEnd(s)] = inbox[PeerEnd(s)]
           \/ inbox'[PeerEnd(s)] = Append(inbox[PeerEnd(s)], m)
        /\ inbox'[ClientEnd(s)] = inbox[ClientEnd(s)]
        /\ \A d \in Session \ {s} : SameInbox(d)
    BY <2>1, P2pTraffic
  <2>3. /\ pc[s] = "answering" /\ pc'[s] = "answered" /\ ~GotSocket(s)'
        /\ dial'[s] = dial[s] /\ accepted'[s] = accepted[s]
        /\ verdict'[s] = None
    BY <1>3, <1>5, <1>7, <1>8, <1>11 DEF Writes, Confirms, Reads
  <2>4. Replied(s) => Replied(s)'
    <3>1. inbox[PeerEnd(s)] = <<>> => Finds(PeerEnd(s), {"PeerResponse"})'
      BY <1>4, <2>1, <2>2, FindsSent
    <3> QED BY <2>2, <2>3, <3>1 DEF Replied, Finds
  <2>5. Deserted(s) => Deserted(s)'
    BY <2>2, <2>3 DEF Deserted, Finds, ClientDialled
  <2>6. ~Unchallenged(s) /\ ~Challenged(s) /\ ~Responded(s) /\ ~Acknowledged(s)
    BY <2>3 DEF Unchallenged, Challenged, Responded, Acknowledged, Final
  <2> QED BY <1>1, <1>2, <1>3, <2>2, <2>3, <2>4, <2>5, <2>6, ClientSide
<1>12. CASE Confirms(s)
  <2>1. /\ inbox[ClientEnd(s)] # <<>>
        /\ inbox'[ClientEnd(s)] = Tail(inbox[ClientEnd(s)])
        /\ Unread(ClientEnd(s))' \subseteq Unread(ClientEnd(s))
        /\ \A d \in Session \ {s} : SameInbox(d)
    BY <1>3, <1>12, P2pTraffic, ReceiveRemoves, Ends
    DEF Confirms, Reads, SessionInv, ConnectionTypeOK
  <2>2. /\ pc[s] = "answered" /\ pc'[s] = "returning" /\ verdict'[s] = "socket"
        /\ dial'[s] = dial[s] /\ accepted'[s] = accepted[s]
    BY <1>5, <1>6, <1>12 DEF Confirms, Reads
  <2>3. Acknowledged(s) => Acknowledged(s)'
    BY <2>1, <2>2 DEF Acknowledged, Final, ErrorKind
  <2>4. /\ ~Unchallenged(s) /\ ~Challenged(s) /\ ~Replied(s)
        /\ ~Responded(s) /\ ~Deserted(s)
    BY <2>1, <2>2
    DEF Unchallenged, Challenged, Replied, Responded, Deserted, Final,
        ClientDialled
  <2> QED BY <1>1, <1>2, <1>3, <2>1, <2>2, <2>3, <2>4, ClientSide
<1>13. CASE Killed(s)
  <2>1. /\ pc'[s] = "died" /\ ~GotSocket(s)' /\ UNCHANGED inbox
        /\ dial'[s] = dial[s] /\ accepted'[s] = accepted[s]
        /\ verdict'[s] = None /\ ~Confirms(s)
    BY <1>3, <1>5, <1>7, <1>8, <1>13 DEF Killed, Die, Confirms, Reads
  <2>2. \A d \in Session : SameInbox(d)
    BY <2>1 DEF SameInbox
  <2>3. /\ \A types : Finds(PeerEnd(s), types) => Finds(PeerEnd(s), types)'
        /\ \A types : Finds(ClientEnd(s), types) => Finds(ClientEnd(s), types)'
        /\ Unread(ClientEnd(s))' = Unread(ClientEnd(s))
    BY <2>1 DEF Finds, Unread
  <2>4. /\ Unchallenged(s) => Unchallenged(s)'
        /\ Challenged(s) => Challenged(s)'
        /\ Replied(s) => Replied(s)'
        /\ Responded(s) => Responded(s)'
        /\ Acknowledged(s) => Acknowledged(s)'
        /\ Deserted(s) => Deserted(s)'
    BY <2>1, <2>3, AbsentAssumption
    DEF Unchallenged, Challenged, Replied, Responded, Acknowledged, Deserted,
        Final, ErrorKind, ClientDialled
  <2> QED BY <1>1, <1>2, <1>3, <2>1, <2>2, <2>4, ClientSide
<1>14. ASSUME NEW kind \in ErrorKind, Thrown(s, kind)
       PROVE  \A c \in Session : Exchange(c)'
  <2>1. /\ pc'[s] = "returning" /\ verdict'[s] = kind /\ UNCHANGED inbox
        /\ dial'[s] = dial[s] /\ accepted'[s] = accepted[s]
        /\ kind # "socket"
    BY <1>5, <1>6, <1>14 DEF Thrown, ErrorKind
  <2>2. ~GotSocket(s)'
    BY <1>6, <1>7, <1>8, <2>1 DEF Confirms
  <2>3. \A d \in Session : SameInbox(d)
    BY <2>1 DEF SameInbox
  <2>4. /\ \A types : Finds(PeerEnd(s), types) => Finds(PeerEnd(s), types)'
        /\ \A types : Finds(ClientEnd(s), types) => Finds(ClientEnd(s), types)'
        /\ Unread(ClientEnd(s))' = Unread(ClientEnd(s))
    BY <2>1 DEF Finds, Unread
  \* the Client gives up on an answer only if the Peer has closed its end
  <2>5. ASSUME pc[s] = "answered", pc[dial[s]] \in {"replied", "acking"}
        PROVE  inbox[ClientEnd(s)] # <<>>
    <3>1. open[PeerEnd(s)]
      BY <1>2, <1>3, <2>5, NoneAssumption DEF Opened, Listening, PeerAccepted
    <3>2. ~AtEof(ClientEnd(s))
      BY <3>1, Ends DEF AtEof
    <3>3. Undecodable(ClientEnd(s), "PeerAcknowledgement")
      BY <1>14, <2>5, <3>2 DEF Thrown
    <3>4. \A q \in Seq(Message) : Len(q) > 1 => q # <<>>
      BY SMT
    <3> QED BY <1>4, <3>3, <3>4 DEF Undecodable
  <2>6. ASSUME Acknowledged(s), pc[s] = "answered" PROVE "peer" \in TalkRoles
    <3>1. ASSUME "peer" \notin TalkRoles
          PROVE  /\ inbox[ClientEnd(s)] # <<>> /\ Len(inbox[ClientEnd(s)]) <= 1
                 /\ Head(inbox[ClientEnd(s)]).type = "PeerAcknowledgement"
      BY <2>6, <3>1 DEF Acknowledged, Finds
    <3>2. ASSUME "peer" \notin TalkRoles
          PROVE  Decodes("PeerAcknowledgement", Head(inbox[ClientEnd(s)]))
      BY <3>1, <3>2, RequiredFields DEF Decodes, DecodesType, MessageType
    <3> QED BY SMT, <1>4, <1>14, <2>6, <3>1, <3>2 DEF Thrown, AtEof, Undecodable
  <2>7. /\ Unchallenged(s) => Unchallenged(s)'
        /\ Challenged(s) => Challenged(s)'
        /\ Deserted(s) => Deserted(s)'
    BY <2>1, <2>2, <2>4
    DEF Unchallenged, Challenged, Deserted, Final, ClientDialled
  <2>8. Replied(s) /\ pc[dial[s]] = "replied" => Replied(s)'
    <3>1. Replied(s) /\ pc[dial[s]] = "replied" => inbox[PeerEnd(s)] = <<>>
      BY <1>3, <2>5 DEF Replied
    <3> QED BY <2>1, <2>2, <2>4, <3>1 DEF Replied, Final
  <2>9. ~(Responded(s) /\ pc[dial[s]] = "acking")
    BY <1>3, <2>5 DEF Responded, Final
  <2>10. Acknowledged(s) => Acknowledged(s)'
    BY <1>3, <2>1, <2>4, <2>6 DEF Acknowledged, Final
  <2> QED BY <1>1, <1>2, <1>3, <2>1, <2>3, <2>7, <2>8, <2>9, <2>10, ClientSide
<1>15. /\ ~Preparing(s) /\ ~Dials(s) /\ ~Accepts(s) /\ ~PeerSpeaks(s)
       /\ ~Callback(s) /\ ~CallbackThrows(s)
  BY DEF Preparing, Dials, Accepts, PeerSpeaks, Reads, Writes, Callback,
         CallbackThrows, ClientDialled, MediatorStage
<1> QED BY <1>8, <1>9, <1>10, <1>11, <1>12, <1>13, <1>14, <1>15, StepKinds
        DEF Handshakes, ClientSpeaks

(***************************************************************************)
(* _connect_as_peer, once accept() has returned.                           *)
(***************************************************************************)
LEMMA PeerExchange ==
  ASSUME SessionInv, RendezvousInv, NEW s \in Session, pc[s] \in PeerAccepted,
         Connect(s) \/ Thread(s) \/ Crash(s)
  PROVE  \A c \in Session : Exchange(c)'
<1>1. SessionInv' /\ \A t \in Session \ {s} : Same(t)
  BY SessionDefined
<1>2. /\ \A c \in Session : Exchange(c) /\ Progress(c) /\ Opened(c)
      /\ Progress(s)'
  BY ProgressKept DEF RendezvousInv
<1>3. /\ accepted[s] \in Session /\ dial[accepted[s]] = s /\ dial[s] = None
      /\ P2pEnd(s) = PeerEnd(accepted[s]) /\ pc[s] \notin Final
  BY <1>2, Sides, P2pEnds, NoneAssumption
  DEF PeerAccepted, ClientDialled, Final, Progress
<1>4. PICK c \in Session : c = accepted[s]
  BY <1>3
<1>5. /\ dial[c] = s /\ P2pEnd(s) = PeerEnd(c) /\ c # s /\ Same(c)
      /\ pc'[c] = pc[c] /\ verdict'[c] = verdict[c] /\ dial'[c] = s
      /\ (GotSocket(c)' <=> GotSocket(c))
  <2>1. c # s
    BY <1>3, <1>4, NoneAssumption
  <2> QED BY <1>1, <1>3, <1>4, <2>1 DEF Same, GotSocket
<1>6. ConnectionTypeOK /\ inbox[ClientEnd(c)] \in Seq(Message)
      /\ inbox[PeerEnd(c)] \in Seq(Message)
  BY Ends DEF SessionInv, ConnectionTypeOK, NetTypeOK
<1>7. ASSUME NEW location, Go(s, location) PROVE pc'[s] = location
  BY <1>6, <1>7 DEF Go, ConnectionTypeOK, MediatorConnectionTypeOK
<1>8. /\ Confirms(s) \/ Acknowledges(s) => GotSocket(s)'
      /\ ~Confirms(s) /\ ~Acknowledges(s) => ~GotSocket(s)'
  BY <1>1, <1>2, <1>3, SocketStep, NoSocketYet
<1>9. ~Confirms(s)
  BY DEF Confirms, Reads, PeerAccepted
<1>10. /\ pc[s] = "accepted" => Unchallenged(c)
       /\ pc[s] = "replying" => Challenged(c)
       /\ pc[s] = "replied" => Replied(c)
       /\ pc[s] = "acking" => Responded(c)
  BY <1>2, <1>4, <1>5, NoneAssumption DEF Exchange
\* it is enough to look at the phase that the step leads to
<1>11. ASSUME \A d \in Session \ {c} : SameInbox(d),
              UNCHANGED <<dial, accepted>>,
              \/ pc'[s] = "replying" /\ Challenged(c)'
              \/ pc'[s] = "replied" /\ Replied(c)'
              \/ pc'[s] = "acking" /\ Responded(c)'
              \/ pc'[s] \in Final /\ GotSocket(s)' /\ Acknowledged(c)'
              \/ pc'[s] \in Final /\ ~GotSocket(s)' /\ Deserted(c)'
       PROVE  \A d \in Session : Exchange(d)'
  <2>1. dial'[c] = s /\ accepted'[s] = c /\ s # None
    BY <1>4, <1>5, <1>11, NoneAssumption
  <2>2. Exchange(c)'
    BY <1>11, <2>1 DEF Exchange, Final
  <2> QED BY <1>1, <1>2, <1>3, <1>4, <1>5, <1>11, <2>1, <2>2, PeerSide
<1>12. CASE Reads(s, "accepted", "replying")
  <2>1. /\ inbox[PeerEnd(c)] # <<>>
        /\ inbox'[PeerEnd(c)] = Tail(inbox[PeerEnd(c)])
        /\ inbox'[ClientEnd(c)] = inbox[ClientEnd(c)]
        /\ \A d \in Session \ {c} : SameInbox(d)
    BY <1>5, <1>12, P2pTraffic DEF Reads
  <2>2. pc[s] = "accepted" /\ pc'[s] = "replying" /\ UNCHANGED <<dial, accepted>>
    BY <1>7, <1>12 DEF Reads
  <2>3. inbox'[PeerEnd(c)] = <<>>
    BY <1>6, <1>10, <2>1, <2>2, FindsAfter DEF Unchallenged
  <2>4. Challenged(c)'
    BY <1>5, <1>10, <2>1, <2>2, <2>3 DEF Unchallenged, Challenged
  <2> QED BY <1>11, <2>1, <2>2, <2>4
<1>13. CASE Writes(s, "replying", "replied", "PeerChallengeResponse")
  <2>1. PICK m \in Message :
          m.type = "PeerChallengeResponse" /\ Send(PeerEnd(c), m)
    BY <1>5, <1>13 DEF Writes
  <2>2. /\ \/ inbox'[ClientEnd(c)] = inbox[ClientEnd(c)]
           \/ inbox'[ClientEnd(c)] = Append(inbox[ClientEnd(c)], m)
        /\ inbox'[PeerEnd(c)] = inbox[PeerEnd(c)]
        /\ \A d \in Session \ {c} : SameInbox(d)
    BY <2>1, P2pTraffic
  <2>3. pc[s] = "replying" /\ pc'[s] = "replied" /\ UNCHANGED <<dial, accepted>>
    BY <1>7, <1>13 DEF Writes
  <2>4. Challenged(c)
    BY <1>10, <2>3
  <2>5. Finds(ClientEnd(c), {"PeerChallengeResponse"})'
    BY <2>1, <2>2, <2>4, FindsSent DEF Challenged
  <2>6. Replied(c)'
    BY SMT, <1>5, <2>2, <2>4, <2>5 DEF Challenged, Replied, Finds, Final
  <2> QED BY <1>11, <2>2, <2>3, <2>6
<1>14. CASE Reads(s, "replied", "acking")
  <2>1. /\ inbox[PeerEnd(c)] # <<>>
        /\ inbox'[PeerEnd(c)] = Tail(inbox[PeerEnd(c)])
        /\ inbox'[ClientEnd(c)] = inbox[ClientEnd(c)]
        /\ \A d \in Session \ {c} : SameInbox(d)
    BY <1>5, <1>14, P2pTraffic DEF Reads
  <2>2. pc[s] = "replied" /\ pc'[s] = "acking" /\ UNCHANGED <<dial, accepted>>
    BY <1>7, <1>14 DEF Reads
  <2>3. Replied(c) /\ Progress(c)
    BY <1>2, <1>10, <2>2
  <2>4. inbox'[PeerEnd(c)] = <<>>
    BY <1>6, <2>1, <2>3, FindsAfter DEF Replied
  <2>5. Responded(c)'
    BY <1>5, <2>1, <2>3, <2>4 DEF Replied, Responded, Progress, Final
  <2> QED BY <1>11, <2>1, <2>2, <2>5
<1>15. CASE Acknowledges(s)
  <2>1. PICK m \in Message :
          m.type = "PeerAcknowledgement" /\ Send(PeerEnd(c), m)
    BY <1>5, <1>15 DEF Acknowledges, Writes
  <2>2. /\ \/ inbox'[ClientEnd(c)] = inbox[ClientEnd(c)]
           \/ inbox'[ClientEnd(c)] = Append(inbox[ClientEnd(c)], m)
        /\ open[ClientEnd(c)] =>
             inbox'[ClientEnd(c)] = Append(inbox[ClientEnd(c)], m)
        /\ \A d \in Session \ {c} : SameInbox(d)
    BY <2>1, P2pTraffic
  <2>3. pc[s] = "acking" /\ pc'[s] = "returning" /\ UNCHANGED <<dial, accepted>>
    BY <1>7, <1>15 DEF Acknowledges, Writes
  <2>4. Responded(c) /\ Opened(c)
    BY <1>2, <1>10, <2>3
  <2>5. Finds(ClientEnd(c), {"PeerAcknowledgement"})'
    BY <2>1, <2>2, <2>4, FindsSent DEF Responded
  <2>6. \A x \in Unread(ClientEnd(c))' : x.type = "PeerAcknowledgement"
    <3>1. \A x \in Unread(ClientEnd(c))' : x \in Unread(ClientEnd(c)) \/ x = m
      BY SMT, <1>6, <2>1, SendAdds, Ends DEF ConnectionTypeOK
    <3>2. Unread(ClientEnd(c)) = {}
      BY SMT, <2>4 DEF Responded, Unread
    <3> QED BY <2>1, <3>1, <3>2
  <2>7. pc[c] = "answered" => inbox'[ClientEnd(c)] # <<>>
    <3>1. Append(<<>>, m) # <<>>
      BY SMT, <2>1
    <3> QED BY <2>2, <2>4, <3>1 DEF Responded, Opened, ClientDialled
  <2>8. Acknowledged(c)'
    BY <1>5, <2>4, <2>5, <2>6, <2>7, AbsentAssumption
    DEF Responded, Acknowledged, Final
  <2> QED BY <1>8, <1>11, <1>15, <2>2, <2>3, <2>8 DEF Final
\* the Peer fails
<1>16. ASSUME Killed(s) \/ \E kind \in ErrorKind : Thrown(s, kind)
       PROVE  \A d \in Session : Exchange(d)'
  <2>1. pc'[s] \in Final /\ UNCHANGED <<inbox, dial, accepted>>
    BY <1>7, <1>16 DEF Killed, Die, Thrown, Final
  <2>2. ~Acknowledges(s)
    <3>1. CASE Killed(s)
      BY <1>7, <3>1 DEF Killed, Die, Acknowledges, Writes
    <3>2. ASSUME NEW kind \in ErrorKind, Thrown(s, kind), Acknowledges(s)
          PROVE  FALSE
      BY <1>6, <3>2
      DEF Thrown, Acknowledges, ErrorKind, ConnectionTypeOK,
          MediatorConnectionTypeOK
    <3> QED BY <1>16, <3>1, <3>2
  <2>3. \A d \in Session : SameInbox(d)
    BY <2>1 DEF SameInbox
  <2>4. pc[s] \in {"accepted", "replying", "replied", "acking"}
    BY DEF PeerAccepted
  <2>5. Deserted(c)
    <3>1. inbox[ClientEnd(c)] = <<>> => Finds(ClientEnd(c), {"PeerChallengeResponse"})
      BY <1>6, FindsAfter
    <3> QED BY <1>10, <2>4, <3>1
            DEF Unchallenged, Challenged, Replied, Responded, Deserted,
                ClientDialled, Final
  <2>6. Deserted(c)'
    BY <1>5, <2>3, <2>5, PhasesKept
  <2> QED BY <1>8, <1>9, <1>11, <2>1, <2>2, <2>3, <2>6
<1>17. /\ ~Preparing(s) /\ ~Dials(s) /\ ~Accepts(s) /\ ~ClientSpeaks(s)
       /\ ~Callback(s) /\ ~CallbackThrows(s)
  BY DEF Preparing, Dials, Accepts, ClientSpeaks, Reads, Writes, Callback,
         CallbackThrows, PeerAccepted, MediatorStage
<1> QED BY <1>9, <1>12, <1>13, <1>14, <1>15, <1>16, <1>17, StepKinds
        DEF Handshakes, PeerSpeaks

(***************************************************************************)
(* The callback: it may send on the socket it is given.  What a Client's   *)
(* callback sends is no concern of the exchange any more; what a Peer's    *)
(* callback sends can follow the acknowledgement.  The process may also be *)
(* killed before it.                                                       *)
(***************************************************************************)
LEMMA CallbackExchange ==
  ASSUME SessionInv, RendezvousInv, NEW s \in Session,
         Callback(s) \/ CallbackThrows(s) \/ (Crash(s) /\ pc[s] = "returning")
  PROVE  \A c \in Session : Exchange(c)'
<1>1. /\ SessionInv' /\ \A t \in Session \ {s} : Same(t)
      /\ pc'[s] \in Final /\ UNCHANGED <<punched_peer, dial, accepted>>
  BY CallbackDefined, DieDefined DEF SessionInv, ConnectionTypeOK,
     MediatorConnectionTypeOK, Crash, Die, Go, Final
<1>2. /\ \A c \in Session : Exchange(c) /\ Progress(c)
      /\ Progress(s)' /\ Defined(s) /\ ConnectionTypeOK
  BY ProgressKept DEF RendezvousInv, SessionInv, Thread, PeerHandshake
<1>3. pc[s] = "returning" /\ pc[s] \in Final /\ verdict[s] # None
  BY <1>2 DEF Callback, CallbackThrows, Defined, Final
<1>4. GotSocket(s)' <=> GotSocket(s)
  <2>1. ~Confirms(s) /\ ~Acknowledges(s)
    BY <1>3 DEF Confirms, Acknowledges, Reads, Writes
  <2> QED BY <1>1, <1>2, <2>1, SocketStep DEF Thread, PeerHandshake
<1>5. verdict'[s] = verdict[s] \/ GotSocket(s)
  BY <1>2 DEF Callback, CallbackThrows, Crash, Throw, Die, GotSocket
<1>6. ASSUME ~UNCHANGED inbox
      PROVE  /\ GotSocket(s) /\ Role(s) \in TalkRoles
             /\ Send(P2pEnd(s), ApplicationData)
  BY <1>6 DEF Callback, CallbackThrows, Crash, Throw, Die, GotSocket
<1>7. ASSUME UNCHANGED inbox PROVE \A c \in Session : SameInbox(c)
  BY <1>7 DEF SameInbox
<1>8. CASE dial[s] # None
  <2>1. dial[s] \in Session /\ accepted[s] = None /\ punched_peer[s] # None
    BY <1>2, <1>8, Sides DEF ConnectionTypeOK, Progress
  <2>2. P2pEnd(s) = ClientEnd(s) /\ Role(s) = "client"
    BY <2>1 DEF P2pEnd, Role
  <2>3. /\ \A c \in Session \ {s} : SameInbox(c)
        /\ inbox'[ClientEnd(s)] = inbox[ClientEnd(s)]
        /\ ~GotSocket(s) => inbox'[PeerEnd(s)] = inbox[PeerEnd(s)]
    BY <1>6, <1>7, <2>2, P2pTraffic DEF SameInbox
  <2>4. /\ \A types : Finds(ClientEnd(s), types) => Finds(ClientEnd(s), types)'
        /\ ~GotSocket(s) =>
             \A types : Finds(PeerEnd(s), types) => Finds(PeerEnd(s), types)'
        /\ Unread(ClientEnd(s))' = Unread(ClientEnd(s))
    BY <2>3 DEF Finds, Unread
  <2>5. Acknowledged(s) => Acknowledged(s)'
    BY <1>1, <1>4, <1>5, <2>4, <1>3 DEF Acknowledged, Final
  <2>6. ~Responded(s)
    BY <1>3 DEF Responded
  <2>7. /\ Unchallenged(s) => Unchallenged(s)'
        /\ Challenged(s) => Challenged(s)'
        /\ Replied(s) => Replied(s)'
        /\ Deserted(s) => Deserted(s)'
    BY <1>1, <1>3, <1>4, <1>5, <2>3, <2>4
    DEF Unchallenged, Challenged, Replied, Deserted, Final, ClientDialled
  <2> QED BY <1>1, <1>2, <2>1, <2>3, <2>5, <2>6, <2>7, ClientSide
<1>9. CASE accepted[s] # None
  <2>1. PICK c \in Session : c = accepted[s]
    BY <1>2, <1>9 DEF ConnectionTypeOK
  <2>2. dial[c] = s /\ dial[s] = None /\ Role(s) = "peer" /\ c # s
    <3>1. dial[c] = s /\ punched_peer[s] = None
      BY <1>2, <1>9, <2>1 DEF Progress
    <3>2. dial[s] = None
      BY <1>2, <3>1 DEF Progress
    <3>3. c # s
      BY <3>1, <3>2, NoneAssumption
    <3> QED BY <3>1, <3>2, <3>3 DEF Role
  <2>3. P2pEnd(s) = PeerEnd(c)
    BY <2>1, <2>2 DEF P2pEnd
  <2>4. \A d \in Session \ {c} : SameInbox(d)
    BY <1>6, <1>7, <2>3, P2pTraffic
  <2>5. Same(c) /\ (GotSocket(c)' <=> GotSocket(c))
    BY <1>1, <2>2 DEF Same, GotSocket
  <2>6. Exchange(c)'
    <3>1. dial'[c] = s /\ accepted'[s] = c /\ s # None
      BY <1>1, <2>1, <2>2, NoneAssumption
    <3>2. ASSUME GotSocket(s) PROVE Acknowledged(c)'
      <4>1. Acknowledged(c)
        BY <1>2, <1>3, <2>1, <2>2, <3>2, NoneAssumption DEF Exchange
      <4>2. CASE SameInbox(c)
        BY <2>5, <4>1, <4>2, PhasesKept
      <4>3. CASE ~SameInbox(c)
        <5>1. "peer" \in TalkRoles /\ Send(PeerEnd(c), ApplicationData)
          BY <1>6, <1>7, <2>2, <2>3, <4>3
        <5>2. \A m \in Unread(ClientEnd(c))' :
                m \in Unread(ClientEnd(c)) \/ m = ApplicationData
          BY <1>2, <5>1, SendAdds, Ends, Constructors DEF ConnectionTypeOK
        <5>3. ApplicationData.type # "PeerChallengeResponse"
          BY DEF ApplicationData, Blank
        <5> QED BY <2>5, <4>1, <5>1, <5>2, <5>3 DEF Acknowledged, Same
      <4> QED BY <4>2, <4>3
    <3>3. ASSUME ~GotSocket(s) PROVE Deserted(c)'
      <4>1. Deserted(c) /\ SameInbox(c)
        BY <1>2, <1>3, <1>6, <1>7, <2>1, <2>2, <3>3, NoneAssumption DEF Exchange
      <4> QED BY <2>5, <4>1, PhasesKept
    <3> QED BY <1>1, <1>4, <3>1, <3>2, <3>3 DEF Exchange, Final
  <2> QED BY <1>1, <1>2, <2>1, <2>2, <2>4, <2>6, PeerSide
<1>10. CASE dial[s] = None /\ accepted[s] = None
  <2>1. ~GotSocket(s)
    BY <1>2, <1>10, NoneAssumption DEF Defined, Partner
  <2> QED BY <1>1, <1>2, <1>6, <1>7, <1>10, <2>1, Unconnected
<1> QED BY <1>8, <1>9, <1>10

(***************************************************************************)
(* Every step of a session keeps all exchanges in step.                    *)
(***************************************************************************)
LEMMA ExchangeKept ==
  ASSUME SessionInv, RendezvousInv, NEW s \in Session,
         Connect(s) \/ Thread(s) \/ Crash(s)
  PROVE  \A c \in Session : Exchange(c)'
<1>1. SessionInv' /\ \A t \in Session \ {s} : Same(t)
  BY SessionDefined
<1>2. /\ \A c \in Session : Exchange(c) /\ Progress(c)
      /\ Progress(s)' /\ Defined(s) /\ ConnectionTypeOK
  BY ProgressKept DEF RendezvousInv, SessionInv
<1>3. ASSUME NEW location, Go(s, location) PROVE pc'[s] = location
  BY <1>2, <1>3 DEF Go, ConnectionTypeOK, MediatorConnectionTypeOK
<1>4. ASSUME UNCHANGED inbox PROVE \A c \in Session : SameInbox(c)
  BY <1>4 DEF SameInbox
<1> USE DEF MediatorStage, PeerStage, ClientDialled, PeerAccepted, Final
<1>5. ASSUME pc[s] \notin ClientDialled \cup PeerAccepted \cup Final,
             UNCHANGED <<dial, accepted>>, \A c \in Session : SameInbox(c)
      PROVE  \A c \in Session : Exchange(c)'
  <2>1. dial[s] = None /\ accepted[s] = None
    BY <1>2, <1>5, Sides
  <2> QED BY <1>1, <1>2, <1>5, <2>1, Unconnected
<1>6. CASE Preparing(s)
  BY <1>5, <1>6 DEF Preparing, P2pSame, SameInbox
<1>7. CASE Dials(s)
  <2>1. dial[s] = None /\ accepted[s] = None
    BY <1>2, <1>7, Sides DEF Dials
  <2>2. PICK a \in Address : listener[a] # None /\ dial'[s] = listener[a]
    BY <1>2, <1>7 DEF Dials, ConnectionTypeOK
  <2>3. dial'[s] \in Session /\ dial'[s] # None
    BY <1>2, <2>2, NoneAssumption DEF ConnectionTypeOK
  <2>4. /\ pc'[s] = "dialled" /\ UNCHANGED <<inbox, accepted>>
        /\ ~Confirms(s) /\ ~Acknowledges(s)
    BY <1>3, <1>7 DEF Dials, Confirms, Acknowledges, Reads, Writes
  <2>5. accepted'[dial'[s]] # s
    BY <1>2, <2>1, <2>3, <2>4, NoneAssumption DEF Progress
  <2>6. Unchallenged(s)'
    <3>1. ~GotSocket(s)'
      BY <1>1, <2>4 DEF SessionInv, Defined
    <3>2. inbox'[PeerEnd(s)] = <<>> /\ inbox'[ClientEnd(s)] = <<>>
      BY <1>2, <2>1, <2>4 DEF Exchange
    <3> QED BY SMT, <2>4, <3>1, <3>2 DEF Unchallenged, Finds
  <2>7. Exchange(s)'
    BY <2>3, <2>5, <2>6 DEF Exchange
  <2>8. \A c \in Session \ {s} : Exchange(c)'
    BY <1>1, <1>2, <1>4, <2>1, <2>4, Elsewhere, NoneAssumption
  <2> QED BY <2>7, <2>8
<1>8. CASE Accepts(s)
  <2>1. PICK c \in Session : dial[c] = s /\ accepted'[s] = c
    BY <1>2, <1>8 DEF Accepts, ConnectionTypeOK
  <2>2. /\ dial[s] = None /\ accepted[s] = None /\ c # s
        /\ UNCHANGED <<inbox, dial>> /\ pc'[s] = "accepted"
    BY <1>2, <1>3, <1>8, <2>1, Sides, NoneAssumption DEF Accepts
  <2>3. Unchallenged(c)'
    <3>1. Unchallenged(c)
      BY <1>2, <2>1, <2>2, NoneAssumption DEF Exchange
    <3> QED BY <1>1, <1>4, <2>2, <3>1, PhasesKept
  <2>4. Exchange(c)'
    BY <2>1, <2>2, <2>3, NoneAssumption DEF Exchange
  <2> QED BY <1>1, <1>2, <1>4, <2>1, <2>2, <2>4, PeerSide
<1>9. CASE pc[s] \in ClientDialled
  BY <1>9, ClientExchange
<1>10. CASE pc[s] \in PeerAccepted
  BY <1>10, PeerExchange
<1>11. CASE Callback(s) \/ CallbackThrows(s)
  BY <1>11, CallbackExchange
<1>12. CASE Killed(s)
  <2>1. pc[s] = "returning" => Callback(s) \/ CallbackThrows(s) \/ Crash(s)
    BY MediatorKinds, PeerHandshakeFrom DEF Connect, Thread, Preparing, Thrown
  <2> QED BY <1>4, <1>5, <1>9, <1>10, <1>12, <2>1, CallbackExchange
          DEF Killed, Die
<1>13. ASSUME NEW kind \in ErrorKind, Thrown(s, kind)
       PROVE  \A c \in Session : Exchange(c)'
  BY <1>4, <1>5, <1>9, <1>10, <1>13 DEF Thrown
<1>14. ASSUME Handshakes(s), ~Dials(s), ~Accepts(s)
       PROVE  pc[s] \in ClientDialled \cup PeerAccepted
  BY <1>14 DEF Handshakes, ClientSpeaks, PeerSpeaks, Confirms, Acknowledges,
               Reads, Writes
<1> QED BY <1>6, <1>7, <1>8, <1>9, <1>10, <1>11, <1>12, <1>13, <1>14, StepKinds
-----------------------------------------------------------------------------
(***************************************************************************)
(* The invariant holds initially, every step of a session keeps it, and so *)
(* does every step of somebody else that leaves the sessions, and what     *)
(* they hold and can read, alone.                                          *)
(***************************************************************************)
LEMMA InitRendezvous ==
  ASSUME ConnectionInit
  PROVE  RendezvousInv
<1> USE DEF ConnectionInit, MediatorConnectionInit, NetInit
<1>1. ASSUME NEW s \in Session PROVE Progress(s)
  BY AbsentAssumption
  DEF Progress, Reported, Told, Final, ClientDialled, PeerAccepted, AtMediator,
      ErrorKind
<1>2. ASSUME NEW s \in Session PROVE Exchange(s) /\ Opened(s)
  BY Ends DEF Exchange, Opened, ClientDialled
<1>3. Listeners
  BY DEF Listeners
<1> QED BY <1>1, <1>2, <1>3 DEF RendezvousInv

LEMMA SessionRendezvous ==
  ASSUME SessionInv, RendezvousInv, NEW s \in Session,
         Connect(s) \/ Thread(s) \/ Crash(s)
  PROVE  RendezvousInv'
  BY ProgressKept, ExchangeKept, OpenedKept DEF RendezvousInv

LEMMA OthersRendezvous ==
  ASSUME SessionInv, RendezvousInv,
         UNCHANGED <<pc, verdict, connected, punched_peer, peer_disconnect,
                     secret, peerVars>>,
         \A c \in Session : /\ SameInbox(c)
                            /\ open'[MedEnd(c)] = open[MedEnd(c)]
                            /\ open'[ClientEnd(c)] = open[ClientEnd(c)]
                            /\ open'[PeerEnd(c)] = open[PeerEnd(c)]
  PROVE  RendezvousInv'
<1>1. \A t \in Session : Same(t)
  BY DEF Same, peerVars
<1>2. \A t \in Session : Progress(t)'
  BY <1>1, SameProgress DEF RendezvousInv
<1>3. ASSUME NEW c \in Session PROVE Exchange(c)'
  <2>1. Exchange(c) /\ UNCHANGED <<dial, accepted>>
    BY DEF RendezvousInv, peerVars
  <2>2. \A p : GotSocket(p)' <=> GotSocket(p)
    BY DEF GotSocket, peerVars
  <2>3. SameInbox(c)
    OBVIOUS
  <2> QED BY <1>1, <2>1, <2>2, <2>3, PhasesKept DEF Exchange, SameInbox
<1>4. (\A c \in Session : Opened(c)') /\ Listeners'
  BY DEF RendezvousInv, Opened, Listeners, peerVars
<1> QED BY <1>2, <1>3, <1>4 DEF RendezvousInv
-----------------------------------------------------------------------------
(***************************************************************************)
(* The promises that a session keeps by itself.                            *)
(***************************************************************************)
LEMMA ProgressPromises ==
  ASSUME SessionInv, \A s \in Session : Progress(s)
  PROVE  /\ ErrorKindIsTruthful
         /\ CloseIsLegal
<1>1. \A s \in Session : Defined(s) /\ Progress(s)
  BY DEF SessionInv
<1>2. ErrorKindIsTruthful
  BY <1>1 DEF ErrorKindIsTruthful, Progress, Told
<1>3. CloseIsLegal
  <2>1. ASSUME NEW s \in Session, pc[s] \in {"client", "peer"}
        PROVE  connected[s] /\ open[MedEnd(s)]
    <3>1. pc[s] \in AtMediator
      BY <2>1 DEF AtMediator
    <3> QED BY <1>1, <2>1, <3>1 DEF Progress
  <2>2. ASSUME NEW s \in Session, pc[s] = "client"
        PROVE  punched_peer[s] # None /\ peer_disconnect[s] = None
    <3>1. pc[s] \in ClientLocation
      BY <2>2 DEF ClientLocation
    <3>2. punched_peer[s] # None
      BY <1>1, <3>1, AbsentAssumption DEF Defined
    <3>3. peer_disconnect[s] = None
      BY <1>1, <3>1 DEF Progress
    <3> QED BY <3>2, <3>3
  <2>3. ASSUME NEW s \in Session, pc[s] = "peer"
        PROVE  punched_peer[s] = None /\ peer_disconnect[s] # None
    <3>1. pc[s] \in PeerLocation
      BY <2>3 DEF PeerLocation
    <3> QED BY <1>1, <3>1, NoneAssumption DEF Defined, Address
  <2> QED BY <2>1, <2>2, <2>3 DEF CloseIsLegal
<1> QED BY <1>2, <1>3

(***************************************************************************)
(* What the invariant says about the two sides of a handshake.  The second *)
(* fact is conditional: a Peer whose callback sends at once can leave its  *)
(* Client alone.                                                           *)
(***************************************************************************)
LEMMA RendezvousPromises ==
  ASSUME SessionInv, RendezvousInv
  PROVE  /\ ClientImpliesPeer
         /\ "peer" \notin TalkRoles => PeerImpliesClient
<1>1. \A s \in Session : Defined(s) /\ Progress(s) /\ Exchange(s)
  BY DEF SessionInv, RendezvousInv
<1>2. ASSUME NEW c \in Session, GotSocket(c), Role(c) = "client"
      PROVE  LET p == dial[c] IN
             p # None /\ GotSocket(p) /\ Role(p) = "peer" /\ accepted[p] = c
  <2>1. dial[c] \in Session /\ dial[c] # None
    BY <1>1, <1>2, NoneAssumption DEF Defined, Partner
  <2>2. ~Unchallenged(c) /\ ~Challenged(c) /\ ~Replied(c) /\ ~Responded(c)
        /\ ~Deserted(c)
    BY <1>2 DEF Unchallenged, Challenged, Replied, Responded, Deserted
  <2>3. accepted[dial[c]] = c
    BY <1>1, <2>1, <2>2 DEF Exchange
  <2>4. /\ pc[dial[c]] \in PeerAccepted \cup Final
        /\ punched_peer[dial[c]] = None
    BY <1>1, <2>1, <2>3, NoneAssumption DEF Progress
  <2>5. GotSocket(dial[c])
    BY <1>1, <2>1, <2>2, <2>3, <2>4 DEF Exchange, PeerAccepted
  <2> QED BY <2>1, <2>3, <2>4, <2>5 DEF Role
<1>3. ASSUME "peer" \notin TalkRoles PROVE PeerImpliesClient
  <2>1. ASSUME NEW p \in Session, GotSocket(p), Role(p) = "peer",
               verdict[accepted[p]] \in ErrorKind
        PROVE  GotSocket(accepted[p])
    <3>1. accepted[p] \in Session /\ pc[p] \in Final
      BY <1>1, <2>1 DEF Defined, Partner
    <3>2. dial[accepted[p]] = p
      BY <1>1, <3>1, NoneAssumption DEF Progress
    <3>3. Acknowledged(accepted[p])
      BY <1>1, <2>1, <3>1, <3>2, NoneAssumption DEF Exchange
    <3> QED BY <1>3, <2>1, <3>3 DEF Acknowledged
  <2> QED BY <2>1 DEF PeerImpliesClient
<1> QED BY <1>2, <1>3 DEF ClientImpliesPeer

(***************************************************************************)
(* The part of lock step that the sessions keep among themselves: where a  *)
(* session reads from another one there is at most one message, and it is  *)
(* the one that is decoded.                                                *)
(***************************************************************************)
LEMMA HandshakeLockStep ==
  ASSUME SessionInv, RendezvousInv, "peer" \notin TalkRoles, NEW s \in Session,
         pc[s] \in {"challenging", "answered", "accepted", "replied"}
  PROVE  Finds(P2pEnd(s), {Awaited(pc[s])})
<1>1. Defined(s) /\ Progress(s) /\ Exchange(s) /\ ConnectionTypeOK
  BY DEF SessionInv, RendezvousInv
<1>2. ASSUME NEW e, inbox[e] = <<>>, NEW types PROVE Finds(e, types)
  BY SMT, <1>2 DEF Finds
<1>3. CASE pc[s] \in {"challenging", "answered"}
  <2>1. P2pEnd(s) = ClientEnd(s) /\ dial[s] \in Session /\ dial[s] # None
    BY <1>1, <1>3, P2pEnds, NoneAssumption DEF Defined, ClientDialled
  <2>2. accepted[dial[s]] = s => pc[dial[s]] \in PeerAccepted \cup Final
    BY <2>1, NoneAssumption DEF RendezvousInv, Progress
  <2>3. \/ Unchallenged(s) \/ Challenged(s) \/ Replied(s) \/ Responded(s)
        \/ Acknowledged(s) \/ Deserted(s)
    BY <1>1, <2>1, <2>2 DEF Exchange, PeerAccepted
  <2>4. CASE pc[s] = "challenging"
    <3>1. Finds(ClientEnd(s), {"PeerChallengeResponse"})
      BY <1>2, <2>3, <2>4
      DEF Unchallenged, Challenged, Replied, Responded, Acknowledged, Deserted,
          Final
    <3> QED BY <2>1, <2>4, <3>1 DEF Awaited
  <2>5. CASE pc[s] = "answered"
    <3>1. Finds(ClientEnd(s), {"PeerAcknowledgement"})
      BY <1>2, <2>3, <2>5
      DEF Unchallenged, Challenged, Replied, Responded, Acknowledged, Deserted,
          Final, ClientDialled
    <3> QED BY <2>1, <2>5, <3>1 DEF Awaited
  <2> QED BY <1>3, <2>4, <2>5
<1>4. CASE pc[s] \in {"accepted", "replied"}
  <2>1. /\ accepted[s] \in Session /\ dial[accepted[s]] = s
        /\ P2pEnd(s) = PeerEnd(accepted[s])
    BY <1>1, <1>4 DEF Defined, PeerAccepted, PeerLocation, P2pEnd, Role
  <2>2. Exchange(accepted[s])
    BY <2>1 DEF RendezvousInv
  <2>3. CASE pc[s] = "accepted"
    BY <2>1, <2>2, <2>3, NoneAssumption DEF Exchange, Unchallenged, Awaited
  <2>4. CASE pc[s] = "replied"
    BY <2>1, <2>2, <2>4, NoneAssumption DEF Exchange, Replied, Awaited
  <2> QED BY <1>4, <2>3, <2>4
<1> QED BY <1>3, <1>4
-----------------------------------------------------------------------------
(***************************************************************************)
(* The refinement of module Rendezvous.  A step that makes no session the  *)
(* holder of a socket leaves the partners of those that have one alone.    *)
(***************************************************************************)
Sockets == <<[p \in Session |-> As("peer", p, accepted[p])],
             [c \in Session |-> As("client", c, dial[c])]>>

LEMMA SocketsKept ==
  ASSUME NEW s \in Session, \A t \in Session \ {s} : Same(t),
         GotSocket(s)' <=> GotSocket(s),
         GotSocket(s) => UNCHANGED <<punched_peer, dial, accepted>>
  PROVE  UNCHANGED Sockets
<1>1. ASSUME NEW t \in Session
      PROVE  /\ As("peer", t, accepted[t])' = As("peer", t, accepted[t])
             /\ As("client", t, dial[t])' = As("client", t, dial[t])
  <2>1. CASE t = s
    BY <2>1 DEF As, Role
  <2>2. CASE t # s
    BY <2>2 DEF Same, As, Role, GotSocket
  <2> QED BY <2>1, <2>2
<1> QED BY <1>1 DEF Sockets

(* Paired, in terms of this module: a session has a socket. *)
LEMMA PairedIffSocket ==
  ASSUME SessionInv
  PROVE  \A s \in Session : Promise!Paired(s) <=> GotSocket(s)
  BY NoneAssumption
  DEF SessionInv, Defined, Partner, Role, As, Promise!Paired

(* The Peer sends its acknowledgement: it verifies the Client. *)
LEMMA AcknowledgesVerifies ==
  ASSUME SessionInv, KeysInv, RendezvousInv, NEW s \in Session, Acknowledges(s),
         Connect(s) \/ Thread(s) \/ Crash(s)
  PROVE  Promise!Verify(s, accepted[s])
<1> DEFINE c == accepted[s]
<1>1. /\ SessionInv' /\ (\A t \in Session \ {s} : Same(t))
      /\ \A t \in Session : Progress(t)'
  BY SessionDefined, ProgressKept DEF RendezvousInv
<1>2. /\ \A t \in Session : Defined(t) /\ Progress(t) /\ Exchange(t) /\ Verified(t)
      /\ ConnectionTypeOK
  BY DEF SessionInv, RendezvousInv, KeysInv
<1>3. /\ pc[s] = "acking" /\ UNCHANGED <<punched_peer, dial, accepted, callbacks>>
      /\ ~GotSocket(s) /\ GotSocket(s)'
  BY <1>1, <1>2, SocketStep DEF Acknowledges, Writes
<1>4. c \in Session /\ dial[c] = s /\ punched_peer[s] = None /\ callbacks[s] = <<>>
  BY <1>2, <1>3 DEF Defined, PeerAccepted, PeerLocation, Progress, Final
<1>5. c # s
  BY <1>2, <1>4, NoneAssumption DEF Progress
<1>6. ~GotSocket(c)
  BY <1>2, <1>3, <1>4, NoneAssumption DEF Exchange, Responded
<1>7. Promise!Mutual(s, c)
  BY <1>2, <1>3 DEF Verified, Promise!Mutual
<1>8. ASSUME NEW q \in Session PROVE As("peer", q, accepted[q]) # c
  <2>1. CASE accepted[q] = c /\ GotSocket(q)
    BY SMT, <1>2, <1>3, <1>4, <2>1, NoneAssumption DEF Progress
  <2> QED BY <1>4, <2>1, NoneAssumption DEF As
<1>9. ASSUME NEW t \in Session
      PROVE  /\ As("peer", t, accepted[t])' =
                  IF t = s THEN c ELSE As("peer", t, accepted[t])
             /\ As("client", t, dial[t])' = As("client", t, dial[t])
  <2>1. CASE t = s
    BY <1>3, <1>4, <2>1 DEF As, Role
  <2>2. CASE t # s
    BY <1>1, <2>2 DEF Same, As, Role, GotSocket
  <2> QED BY <2>1, <2>2
<1>10. /\ [p \in Session |-> As("peer", p, accepted[p])]' =
            [[p \in Session |-> As("peer", p, accepted[p])] EXCEPT ![s] = c]
       /\ [t \in Session |-> As("client", t, dial[t])]' =
            [t \in Session |-> As("client", t, dial[t])]
  BY <1>9
<1>11. ~Promise!Paired(s) /\ ~Promise!Paired(c)
  BY <1>3, <1>4, <1>6, PairedIffSocket
<1> QED BY <1>3, <1>4, <1>5, <1>7, <1>8, <1>10, <1>11 DEF Promise!Verify

(* The Client reads the acknowledgement: it confirms the Peer. *)
LEMMA ConfirmsConfirms ==
  ASSUME SessionInv, RendezvousInv, NEW s \in Session, Confirms(s),
         Connect(s) \/ Thread(s) \/ Crash(s)
  PROVE  Promise!Confirm(s, dial[s]) /\ dial[s] \in Session
<1> DEFINE p == dial[s]
<1>1. /\ SessionInv' /\ (\A t \in Session \ {s} : Same(t))
      /\ \A t \in Session : Progress(t)'
  BY SessionDefined, ProgressKept DEF RendezvousInv
<1>2. /\ \A t \in Session : Defined(t) /\ Progress(t) /\ Exchange(t)
      /\ ConnectionTypeOK
  BY DEF SessionInv, RendezvousInv
<1>3. /\ pc[s] = "answered" /\ UNCHANGED <<punched_peer, dial, accepted, callbacks>>
      /\ ~GotSocket(s) /\ GotSocket(s)'
  BY <1>1, <1>2, SocketStep DEF Confirms, Reads
<1>4. p \in Session /\ punched_peer[s] # None /\ callbacks[s] = <<>>
  BY SMT, <1>2, <1>3, NoneAssumption DEF Defined, ClientDialled, Progress, Final
<1>5. GotSocket(p) /\ Role(p) = "peer" /\ accepted[p] = s
  <2>1. inbox[ClientEnd(s)] # <<>>
    BY <1>3, P2pEnds DEF Confirms, Reads, ClientDialled
  <2>2. /\ ~Unchallenged(s) /\ ~Challenged(s) /\ ~Replied(s) /\ ~Responded(s)
        /\ ~Deserted(s)
    BY <1>3, <2>1
    DEF Unchallenged, Challenged, Replied, Responded, Deserted, Final,
        ClientDialled
  <2>3. accepted[p] = s
    BY <1>2, <1>4, <2>2, NoneAssumption DEF Exchange
  <2>4. pc[p] \in PeerAccepted \cup Final /\ punched_peer[p] = None
    BY <1>2, <1>4, <2>3, NoneAssumption DEF Progress
  <2> QED BY <1>2, <1>4, <2>2, <2>3, <2>4, NoneAssumption
          DEF Exchange, PeerAccepted, Role
<1>6. As("peer", p, accepted[p]) = s
  BY <1>5 DEF As
<1>7. ASSUME NEW t \in Session
      PROVE  /\ As("client", t, dial[t])' =
                  IF t = s THEN p ELSE As("client", t, dial[t])
             /\ As("peer", t, accepted[t])' = As("peer", t, accepted[t])
  <2>1. CASE t = s
    BY <1>3, <1>4, <2>1 DEF As, Role
  <2>2. CASE t # s
    BY <1>1, <2>2 DEF Same, As, Role, GotSocket
  <2> QED BY <2>1, <2>2
<1>8. /\ [t \in Session |-> As("client", t, dial[t])]' =
           [[t \in Session |-> As("client", t, dial[t])] EXCEPT ![s] = p]
      /\ [t \in Session |-> As("peer", t, accepted[t])]' =
           [t \in Session |-> As("peer", t, accepted[t])]
  BY <1>7
<1>9. ~Promise!Paired(s)
  BY <1>3, PairedIffSocket
<1> QED BY <1>3, <1>4, <1>6, <1>8, <1>9 DEF Promise!Confirm

(***************************************************************************)
(* The callback is called with what the session has come to.               *)
(***************************************************************************)
LEMMA CallbackReports ==
  ASSUME SessionInv, RendezvousInv, NEW s \in Session,
         Callback(s) \/ CallbackThrows(s)
  PROVE  /\ verdict[s] \in ErrorKind \cup {"socket"}
         /\ UNCHANGED Sockets => Promise!Report(s, verdict[s])
<1>1. Defined(s) /\ Progress(s) /\ ConnectionTypeOK /\ pc[s] = "returning"
  BY DEF SessionInv, RendezvousInv, Callback, CallbackThrows
<1>2. verdict[s] \in ErrorKind \cup {"socket"}
  BY <1>1 DEF Defined, ConnectionTypeOK, MediatorConnectionTypeOK
<1>3. callbacks' = [callbacks EXCEPT ![s] = Append(@, verdict[s])]
  BY DEF Callback, CallbackThrows, Called
<1>4. CASE callbacks[s] = <<>>
  <2>1. verdict[s] = "socket" <=> Promise!Paired(s)
    BY SMT, <1>4, PairedIffSocket DEF GotSocket
  <2> QED BY <1>2, <1>3, <1>4, <2>1 DEF Promise!Report, Sockets
<1>5. CASE callbacks[s] = <<"socket">> /\ verdict[s] = "kErrorUnknown"
  BY <1>2, <1>3, <1>5 DEF Promise!Report, Sockets
<1> QED BY <1>1, <1>4, <1>5 DEF Progress

(***************************************************************************)
(* Every step of a session is a step of Rendezvous or changes nothing that *)
(* Rendezvous speaks of.                                                   *)
(***************************************************************************)
LEMMA PromiseStep ==
  ASSUME SessionInv, KeysInv, RendezvousInv, NEW s \in Session,
         Connect(s) \/ Thread(s) \/ Crash(s)
  PROVE  [Promise!RendezvousNext]_(Promise!rendezvousVars)
<1>1. /\ SessionInv' /\ (\A t \in Session \ {s} : Same(t))
      /\ \A t \in Session : Progress(t)' /\ Progress(t)
  BY SessionDefined, ProgressKept DEF RendezvousInv
<1>2. CASE Acknowledges(s)
  <2>1. accepted[s] \in Session
    BY <1>2 DEF SessionInv, Defined, Acknowledges, Writes, PeerAccepted
  <2> QED BY <1>2, <2>1, AcknowledgesVerifies DEF Promise!RendezvousNext
<1>3. CASE Confirms(s)
  BY <1>3, ConfirmsConfirms DEF Promise!RendezvousNext
<1>4. ASSUME ~Confirms(s), ~Acknowledges(s), pc[s] \notin Final,
             UNCHANGED callbacks
      PROVE  UNCHANGED Promise!rendezvousVars
  <2>1. ~GotSocket(s) /\ (GotSocket(s)' <=> GotSocket(s))
    BY <1>1, <1>4, SocketStep, NoSocketYet
  <2>2. UNCHANGED Sockets
    BY <1>1, <2>1, SocketsKept
  <2> QED BY <1>4, <2>2 DEF Sockets, Promise!rendezvousVars
<1>5. CASE Callback(s) \/ CallbackThrows(s)
  <2>1. ~Confirms(s) /\ ~Acknowledges(s)
        /\ UNCHANGED <<punched_peer, dial, accepted>>
    BY <1>5 DEF Callback, CallbackThrows, Throw, Die, Confirms, Acknowledges,
                Reads, Writes
  <2>2. GotSocket(s)' <=> GotSocket(s)
    BY <1>1, <2>1, SocketStep
  <2>3. UNCHANGED Sockets
    BY <1>1, <2>1, <2>2, SocketsKept
  <2> QED BY <1>5, <2>3, CallbackReports DEF Promise!RendezvousNext
<1> USE DEF MediatorStage, PeerStage, Final
<1>6. CASE ~Confirms(s) /\ ~Acknowledges(s)
  <2>1. CASE Preparing(s)
    BY <1>4, <1>6, <2>1 DEF Preparing
  <2>2. CASE Handshakes(s)
    <3>1. pc[s] \notin Final /\ UNCHANGED callbacks
      BY <1>6, <2>2
      DEF Handshakes, Dials, Accepts, ClientSpeaks, PeerSpeaks, Reads, Writes
    <3> QED BY <1>4, <1>6, <3>1
  <2>3. CASE Killed(s)
    <3>1. UNCHANGED <<verdict, callbacks, punched_peer, dial, accepted>>
      BY <2>3 DEF Killed, Die
    <3>2. GotSocket(s)' <=> GotSocket(s)
      BY <3>1 DEF GotSocket
    <3>3. UNCHANGED Sockets
      BY <1>1, <3>1, <3>2, SocketsKept
    <3> QED BY <3>1, <3>3 DEF Sockets, Promise!rendezvousVars
  <2>4. ASSUME NEW kind \in ErrorKind, Thrown(s, kind)
        PROVE  UNCHANGED Promise!rendezvousVars
    BY <1>4, <1>6, <2>4 DEF Thrown
  <2> QED BY <1>5, <2>1, <2>2, <2>3, <2>4, StepKinds
<1> QED BY <1>2, <1>3, <1>6

(* Rendezvous starts where the sessions start. *)
LEMMA PromiseInitially ==
  ASSUME ConnectionInit
  PROVE  Promise!RendezvousInit
<1> USE DEF ConnectionInit, MediatorConnectionInit
<1>1. ASSUME NEW s \in Session PROVE ~GotSocket(s)
  <2>1. callbacks[s] = <<>> /\ verdict[s] # "socket"
    BY AbsentAssumption
  <2> QED BY SMT, <2>1 DEF GotSocket
<1> QED BY <1>1 DEF Promise!RendezvousInit, As
-----------------------------------------------------------------------------
(***************************************************************************)
(* The steps of a session, sorted by what they do to its connection to the *)
(* Mediator: one message more, or one less, or an end of the conversation. *)
(***************************************************************************)
Tells(s, from, to, m) ==
  /\ pc[s] = from /\ Go(s, to)
  /\ Send(MedEnd(s), m)
  /\ UNCHANGED <<open, advertise_retries>>

Hears(s, from, to, type) ==
  /\ pc[s] = from /\ Go(s, to)
  /\ inbox[MedEnd(s)] # <<>> /\ Head(inbox[MedEnd(s)]).type = type
  /\ Receive(MedEnd(s))
  /\ UNCHANGED open

Converses(s) ==
  \/ /\ pc[s] = "idle" /\ Go(s, "mediator")
     /\ UNCHANGED <<inbox, open, advertise_retries>>
  \/ /\ pc[s] = "mediator" /\ Go(s, "advertise")
     /\ Establish(MedEnd(s)) /\ UNCHANGED <<inbox, advertise_retries>>
  \/ Tells(s, "advertise", "advertised",
           Advertise(kVersion[s], KeyOf[s], Wants[s]))
  \/ /\ Hears(s, "advertised", "advertise", "AdvertiseRetry")
     /\ advertise_retries' = [advertise_retries EXCEPT ![s] = @ + 1]
  \/ /\ Hears(s, "advertised", "challenged", "AdvertiseChallenge")
     /\ UNCHANGED advertise_retries
  \/ Tells(s, "challenged", "registered", AdvertiseResponse(secret[s]))
  \/ /\ \/ Hears(s, "registered", "client", "PeerIdentification")
        \/ Hears(s, "registered", "peer", "PeerDisconnect")
     /\ UNCHANGED advertise_retries

(* Nothing happens on the connections to the Mediator. *)
MedSame == /\ \A t \in Session : /\ inbox'[MedEnd(t)] = inbox[MedEnd(t)]
                                 /\ inbox'[HandlerEnd(t)] = inbox[HandlerEnd(t)]
                                 /\ open'[HandlerEnd(t)] = open[HandlerEnd(t)]
           /\ UNCHANGED advertise_retries

(* What the session can read does not let it go on. *)
Stuck(s) ==
  \/ pc[s] = "mediator"
  \/ ~open[HandlerEnd(s)] /\ inbox[MedEnd(s)] = <<>>
  \/ ~open[HandlerEnd(s)] /\ pc[s] \in {"advertise", "challenged"}
  \/ /\ pc[s] \in {"advertised", "registered"} /\ inbox[MedEnd(s)] # <<>>
     /\ \/ Len(inbox[MedEnd(s)]) > 1
        \/ LET m == Head(inbox[MedEnd(s)]) IN
           IF pc[s] = "advertised"
             THEN m.type = "AdvertiseChallenge" => m.encrypted_nonce.key # KeyOf[s]
             ELSE m.type \notin {"PeerIdentification", "PeerDisconnect"}

GivesUp(s) == /\ pc[s] \in MediatorStage /\ pc'[s] \in Final
              /\ MedSame /\ (Stuck(s) \/ pc'[s] = "died")

GoneOn(s) == /\ pc[s] \in PeerStage \cup Final
             /\ pc'[s] \in PeerStage \cup Final \cup {"silent"}
             /\ MedSame

(* The ends of the connections to the Mediator after other traffic. *)
LEMMA ElsewhereMedSame ==
  ASSUME NetTypeOK, UNCHANGED advertise_retries,
         \A t \in Session : open'[HandlerEnd(t)] = open[HandlerEnd(t)],
         \/ UNCHANGED inbox
         \/ \E c \in Session : \E e \in {ClientEnd(c), PeerEnd(c)} :
              (\E m : Send(e, m)) \/ Receive(e)
  PROVE  MedSame
<1>1. CASE UNCHANGED inbox
  BY <1>1 DEF MedSame
<1>2. ASSUME NEW c \in Session, NEW e \in {ClientEnd(c), PeerEnd(c)}, NEW m,
             Send(e, m)
      PROVE  MedSame
  <2>1. \A f \in Endpoint \ {Far(e)} : inbox'[f] = inbox[f]
    BY <1>2, Ends, SendAppends
  <2> QED BY SMT, <2>1, Ends DEF MedSame
<1>3. ASSUME NEW c \in Session, NEW e \in {ClientEnd(c), PeerEnd(c)}, Receive(e)
      PROVE  MedSame
  <2>1. \A f \in Endpoint \ {e} : inbox'[f] = inbox[f]
    BY <1>3, Ends, ReceiveTakes
  <2> QED BY SMT, <2>1, Ends DEF MedSame
<1> QED BY <1>1, <1>2, <1>3

(* What closing its sockets, or dialling a Peer, does to the handlers'. *)
LEMMA HandlerEndsKept ==
  ASSUME NetTypeOK, NEW s \in Session, NEW t \in Session
  PROVE  /\ CloseAll(s) => open'[HandlerEnd(t)] = open[HandlerEnd(t)]
         /\ open' = [open EXCEPT ![MedEnd(s)] = FALSE] =>
              open'[HandlerEnd(t)] = open[HandlerEnd(t)]
         /\ Establish(ClientEnd(s)) => open'[HandlerEnd(t)] = open[HandlerEnd(t)]
         /\ open' = [e \in Endpoint |->
              open[e] /\ ~\E c \in Session \ {accepted[s]} :
                            dial[c] = s /\ e = PeerEnd(c)] =>
              open'[HandlerEnd(t)] = open[HandlerEnd(t)]
<1>1. /\ HandlerEnd(t) \in Endpoint /\ ~Holds(s, HandlerEnd(t))
      /\ HandlerEnd(t) # MedEnd(s)
      /\ open[HandlerEnd(t)] \in BOOLEAN
      /\ ~\E c \in Session \ {accepted[s]} : dial[c] = s /\ HandlerEnd(t) = PeerEnd(c)
  BY Ends DEF Holds, NetTypeOK
<1>2. CloseAll(s) => open'[HandlerEnd(t)] = open[HandlerEnd(t)]
  BY SMT, <1>1 DEF CloseAll
<1>3. Establish(ClientEnd(s)) => open'[HandlerEnd(t)] = open[HandlerEnd(t)]
  BY SMT, Ends, EstablishOpens
<1> QED BY <1>1, <1>2, <1>3 DEF NetTypeOK

(***************************************************************************)
(* MediatorConnection::connect: the conversation with the Mediator.        *)
(***************************************************************************)
LEMMA MediatorConnectSide ==
  ASSUME SessionInv, NEW s \in Session, MediatorConnect(s)
  PROVE  Converses(s) \/ GivesUp(s)
<1>1. NetTypeOK /\ ConnectionTypeOK
  BY DEF SessionInv, ConnectionTypeOK
<1>2. ASSUME NEW kind, MediatorThrow(s, kind), pc[s] \in MediatorStage, Stuck(s)
      PROVE  GivesUp(s)
  <2>1. pc'[s] = "returning"
    BY <1>1, <1>2 DEF MediatorThrow, Go, ConnectionTypeOK, MediatorConnectionTypeOK
  <2>2. \A t \in Session : open'[HandlerEnd(t)] = open[HandlerEnd(t)]
    BY <1>1, <1>2, HandlerEndsKept DEF MediatorThrow
  <2>3. MedSame
    BY <1>1, <1>2, <2>2, ElsewhereMedSame DEF MediatorThrow
  <2> QED BY <1>2, <2>1, <2>3 DEF GivesUp, Final
<1>3. Far(MedEnd(s)) = HandlerEnd(s)
  BY Ends
<1> USE DEF MediatorStage
<1>4. CASE DialMediator(s)
  <2>1. CASE MediatorThrow(s, "kErrorMediatorConnectFailure")
    BY <1>2, <1>4, <2>1 DEF DialMediator, Stuck
  <2> QED BY <1>4, <2>1 DEF DialMediator, Converses
<1>5. CASE SendAdvertise(s)
  BY <1>5 DEF SendAdvertise, Converses, Tells
<1>6. CASE ReceiveAdvertiseRetry(s)
  <2>1. CASE MediatorThrow(s, "kErrorUnknown")
    BY <1>2, <1>6, <2>1 DEF ReceiveAdvertiseRetry, Stuck, ReadableAnyType
  <2> QED BY <1>6, <2>1 DEF ReceiveAdvertiseRetry, Converses, Hears, ReadableAnyType
<1>7. CASE ReceiveAdvertiseChallenge(s)
  <2>1. CASE ~CanDecrypt(KeyOf[s], Head(inbox[MedEnd(s)]).encrypted_nonce)
    BY <1>2, <1>7, <2>1
    DEF ReceiveAdvertiseChallenge, Stuck, ReadableAnyType, CanDecrypt
  <2> QED BY <1>7, <2>1
          DEF ReceiveAdvertiseChallenge, Converses, Hears, ReadableAnyType
<1>8. CASE SendAdvertiseResponse(s)
  BY <1>8 DEF SendAdvertiseResponse, Converses, Tells
<1>9. CASE ReceivePeerIdentification(s)
  BY <1>9 DEF ReceivePeerIdentification, Converses, Hears, ReadableAnyType
<1>10. CASE ReceivePeerDisconnect(s)
  BY <1>10 DEF ReceivePeerDisconnect, Converses, Hears, ReadableAnyType
<1>11. CASE ReceiveUnexpected(s)
  <2>1. /\ pc[s] \in {"advertised", "registered"}
        /\ \/ UndecodableType(MedEnd(s))
           \/ ReadableAnyType(MedEnd(s))
              /\ Head(inbox[MedEnd(s)]).type \notin Expected(pc[s])
    BY <1>11 DEF ReceiveUnexpected
  <2>2. inbox[MedEnd(s)] \in Seq(Message)
    BY <1>1, Ends DEF NetTypeOK
  <2>3. Stuck(s)
    BY SMT, <2>1, <2>2
    DEF Stuck, UndecodableType, ReadableAnyType, DecodesType, MessageType, Expected
  <2> QED BY <1>2, <1>11, <2>1, <2>3 DEF ReceiveUnexpected
<1>12. CASE LoseMediator(s)
  BY <1>2, <1>3, <1>12 DEF LoseMediator, Stuck, AtEof, SendMayThrow
<1> QED BY <1>4, <1>5, <1>6, <1>7, <1>8, <1>9, <1>10, <1>11, <1>12
        DEF MediatorConnect

(***************************************************************************)
(* Every step of a session, seen from the Mediator.                        *)
(***************************************************************************)
LEMMA MediatorSide ==
  ASSUME SessionInv, NEW s \in Session, Connect(s) \/ Thread(s) \/ Crash(s)
  PROVE  /\ Converses(s) \/ GivesUp(s) \/ GoneOn(s)
         /\ UNCHANGED mediatorUp
<1>1. NetTypeOK /\ ConnectionTypeOK /\ Defined(s)
  BY DEF SessionInv, ConnectionTypeOK
<1>2. ASSUME NEW location, Go(s, location) PROVE pc'[s] = location
  BY <1>1, <1>2 DEF Go, ConnectionTypeOK, MediatorConnectionTypeOK
<1>3. UNCHANGED mediatorUp
  BY DEF Connect, Crash, Thread, MediatorConnect, DialMediator, SendAdvertise,
         ReceiveAdvertiseRetry, ReceiveAdvertiseChallenge,
         SendAdvertiseResponse, ReceivePeerIdentification,
         ReceivePeerDisconnect, ReceiveUnexpected, LoseMediator, MediatorThrow,
         PeerHandshake, CloseMediatorAsClient, DialPeer,
         SendPeerChallenge, ReceivePeerChallengeResponse, SendPeerResponse,
         ReceivePeerAcknowledgement, CloseMediatorAsPeer, Listen, Accept,
         ReceivePeerChallenge, SendPeerChallengeResponse, ReceivePeerResponse,
         SendPeerAcknowledgement, LosePeer, Callback, CallbackThrows, Throw, Die
<1>4. CASE Connect(s)
  BY <1>4 DEF Connect, Converses, netVars
<1>5. CASE MediatorConnect(s)
  BY <1>3, <1>5, MediatorConnectSide
<1>6. CASE Crash(s)
  <2>1. /\ pc'[s] = "died"
        /\ pc[s] \in MediatorStage \cup PeerStage \cup {"returning"}
        /\ UNCHANGED <<inbox, advertise_retries>> /\ CloseAll(s)
    BY <1>2, <1>6 DEF Crash, Die
  <2>2. MedSame
    BY <1>1, <2>1, HandlerEndsKept, ElsewhereMedSame
  <2> QED BY <1>3, <2>1, <2>2 DEF GivesUp, GoneOn, Final
<1>7. CASE PeerHandshake(s)
  <2>1. /\ UNCHANGED advertise_retries
        /\ \/ UNCHANGED open \/ CloseAll(s) \/ Establish(ClientEnd(s))
           \/ open' = [open EXCEPT ![MedEnd(s)] = FALSE]
           \/ open' = [e \in Endpoint |->
                open[e] /\ ~\E c \in Session \ {accepted[s]} :
                              dial[c] = s /\ e = PeerEnd(c)]
    BY <1>7
    DEF PeerHandshake, CloseMediatorAsClient, DialPeer,
        SendPeerChallenge, ReceivePeerChallengeResponse, SendPeerResponse,
        ReceivePeerAcknowledgement, CloseMediatorAsPeer, Listen, Accept,
        ReceivePeerChallenge, SendPeerChallengeResponse, ReceivePeerResponse,
        SendPeerAcknowledgement, LosePeer, Callback, CallbackThrows, Throw,
        Die, netVars
  <2>2. \/ UNCHANGED inbox
        \/ (\E m : Send(ClientEnd(s), m)) \/ Receive(ClientEnd(s))
        \/ /\ (\E m : Send(P2pEnd(s), m)) \/ Receive(P2pEnd(s))
           /\ pc[s] \in PeerAccepted \/ GotSocket(s)
    BY <1>7
    DEF PeerHandshake, CloseMediatorAsClient, DialPeer,
        SendPeerChallenge, ReceivePeerChallengeResponse, SendPeerResponse,
        ReceivePeerAcknowledgement, CloseMediatorAsPeer, Listen, Accept,
        ReceivePeerChallenge, SendPeerChallengeResponse, ReceivePeerResponse,
        SendPeerAcknowledgement, LosePeer, Callback, CallbackThrows, Throw,
        Die, netVars, PeerAccepted, GotSocket
  <2>3. /\ pc[s] \in PeerStage \cup Final
        /\ pc'[s] \in PeerStage \cup Final \cup {"silent"}
    BY <1>2, <1>7
    DEF PeerHandshake, CloseMediatorAsClient, DialPeer,
        SendPeerChallenge, ReceivePeerChallengeResponse, SendPeerResponse,
        ReceivePeerAcknowledgement, CloseMediatorAsPeer, Listen, Accept,
        ReceivePeerChallenge, SendPeerChallengeResponse, ReceivePeerResponse,
        SendPeerAcknowledgement, LosePeer, Callback, CallbackThrows, Throw,
        Die, PeerStage, Final
  <2>4. \A t \in Session : open'[HandlerEnd(t)] = open[HandlerEnd(t)]
    BY <1>1, <2>1, HandlerEndsKept
  <2>5. pc[s] \in PeerAccepted \/ GotSocket(s) =>
          \E c \in Session : P2pEnd(s) \in {ClientEnd(c), PeerEnd(c)}
    BY <1>1 DEF Defined, Partner, P2pEnd, Role
  <2>6. MedSame
    BY <1>1, <2>1, <2>2, <2>4, <2>5, ElsewhereMedSame
  <2> QED BY <1>3, <2>3, <2>6 DEF GoneOn
<1> QED BY <1>3, <1>4, <1>5, <1>6, <1>7 DEF Thread

(* A thread that still talks to the Mediator does not end its process. *)
LEMMA NotKilled ==
  ASSUME SessionInv, NEW s \in Session, Connect(s) \/ Thread(s),
         pc[s] \in MediatorStage
  PROVE  pc'[s] # "died"
<1>1. ASSUME NEW location, Go(s, location) PROVE pc'[s] = location
  BY <1>1 DEF Go, SessionInv, ConnectionTypeOK, MediatorConnectionTypeOK
<1>2. ~Connect(s) /\ ~PeerHandshake(s)
  BY DEF Connect, PeerHandshake, CloseMediatorAsClient, DialPeer,
         SendPeerChallenge, ReceivePeerChallengeResponse, SendPeerResponse,
         ReceivePeerAcknowledgement, CloseMediatorAsPeer, Listen, Accept,
         ReceivePeerChallenge, SendPeerChallengeResponse, ReceivePeerResponse,
         SendPeerAcknowledgement, LosePeer, Callback, CallbackThrows,
         MediatorStage
<1> QED BY <1>1, <1>2
        DEF Thread, MediatorConnect, DialMediator, SendAdvertise,
            ReceiveAdvertiseRetry, ReceiveAdvertiseChallenge,
            SendAdvertiseResponse, ReceivePeerIdentification,
            ReceivePeerDisconnect, ReceiveUnexpected, LoseMediator, MediatorThrow
-----------------------------------------------------------------------------
(***************************************************************************)
(* What single steps do, for the proofs that follow two given sessions.    *)
(***************************************************************************)

(* One message under way. *)
LEMMA Singletons ==
  ASSUME NEW m
  PROVE  /\ Append(<<>>, m) = <<m>> /\ Head(<<m>>) = m /\ Tail(<<m>>) = <<>>
         /\ <<m>> # <<>> /\ Len(<<m>>) = 1 /\ Len(<<>>) = 0 /\ <<m>>[1] = m
  BY SMT

(* What the messages between two sessions say. *)
LEMMA PeerContents ==
  /\ \A k, n : /\ PeerChallenge(Encrypt(k, n)).type = "PeerChallenge"
               /\ Decodes("PeerChallenge", PeerChallenge(Encrypt(k, n)))
               /\ CanDecrypt(k, PeerChallenge(Encrypt(k, n)).encrypted_nonce)
               /\ Decrypt(PeerChallenge(Encrypt(k, n)).encrypted_nonce) = n
  /\ \A k, n, m, r : r = PeerChallengeResponse(Encrypt(k, n), m) =>
       /\ Decodes("PeerChallengeResponse", r) /\ r.nonce = m
       /\ CanDecrypt(k, r.encrypted_nonce) /\ Decrypt(r.encrypted_nonce) = n
  /\ \A n : /\ Decodes("PeerResponse", PeerResponse(n)) /\ PeerResponse(n).nonce = n
  /\ Decodes("PeerAcknowledgement", PeerAcknowledgement)
<1>1. \A m : /\ m.type = "PeerChallenge" => Decodes("PeerChallenge", m)
             /\ m.type = "PeerChallengeResponse" => Decodes("PeerChallengeResponse", m)
             /\ m.type = "PeerResponse" => Decodes("PeerResponse", m)
             /\ m.type = "PeerAcknowledgement" => Decodes("PeerAcknowledgement", m)
  BY DEF Decodes, DecodesType, MessageType
<1>2. \A k, n : /\ PeerChallenge(Encrypt(k, n)).type = "PeerChallenge"
                /\ CanDecrypt(k, PeerChallenge(Encrypt(k, n)).encrypted_nonce)
                /\ Decrypt(PeerChallenge(Encrypt(k, n)).encrypted_nonce) = n
  BY SMT DEF PeerChallenge, Blank, Encrypt, CanDecrypt, Decrypt
<1>3. \A n : PeerResponse(n).type = "PeerResponse" /\ PeerResponse(n).nonce = n
  BY SMT DEF PeerResponse, Blank
<1>4. PeerAcknowledgement.type = "PeerAcknowledgement"
  BY SMT DEF PeerAcknowledgement, Blank
<1>5. \A k, n : Decodes("PeerChallenge", PeerChallenge(Encrypt(k, n)))
  BY <1>1, <1>2
<1>6. \A n : Decodes("PeerResponse", PeerResponse(n))
  BY <1>1, <1>3
<1>7. ASSUME NEW k, NEW n, NEW m, NEW r,
             r = PeerChallengeResponse(Encrypt(k, n), m)
      PROVE  /\ Decodes("PeerChallengeResponse", r) /\ r.nonce = m
             /\ CanDecrypt(k, r.encrypted_nonce) /\ Decrypt(r.encrypted_nonce) = n
  <2>1. /\ r.type = "PeerChallengeResponse" /\ r.nonce = m
        /\ CanDecrypt(k, r.encrypted_nonce) /\ Decrypt(r.encrypted_nonce) = n
    BY SMT, <1>7 DEF PeerChallengeResponse, Blank, Encrypt, CanDecrypt, Decrypt
  <2> QED BY <1>1, <2>1
<1> QED BY <1>1, <1>2, <1>3, <1>4, <1>5, <1>6, <1>7

(* An end is sent its only message, reads it, or is left alone. *)
Puts(e, m) == inbox[e] = <<>> /\ inbox'[e] = <<m>>
Takes(e, m) == inbox[e] = <<m>> /\ inbox'[e] = <<>>
Stays(e) == inbox'[e] = inbox[e]

LEMMA Between ==
  ASSUME NetTypeOK, NEW c \in Session, NEW m
  PROVE  /\ Send(ClientEnd(c), m) /\ open[PeerEnd(c)] /\ inbox[PeerEnd(c)] = <<>> =>
              Puts(PeerEnd(c), m) /\ Stays(ClientEnd(c))
         /\ Send(PeerEnd(c), m) /\ open[ClientEnd(c)] /\ inbox[ClientEnd(c)] = <<>> =>
              Puts(ClientEnd(c), m) /\ Stays(PeerEnd(c))
         /\ Receive(ClientEnd(c)) /\ inbox[ClientEnd(c)] = <<m>> =>
              Takes(ClientEnd(c), m) /\ Stays(PeerEnd(c))
         /\ Receive(PeerEnd(c)) /\ inbox[PeerEnd(c)] = <<m>> =>
              Takes(PeerEnd(c), m) /\ Stays(ClientEnd(c))
<1>1. /\ ClientEnd(c) \in Endpoint /\ PeerEnd(c) \in Endpoint
      /\ Far(ClientEnd(c)) = PeerEnd(c) /\ Far(PeerEnd(c)) = ClientEnd(c)
      /\ ClientEnd(c) # PeerEnd(c)
  BY Ends
<1>2. Append(<<>>, m) = <<m>> /\ Tail(<<m>>) = <<>>
  BY SMT
<1>3. ASSUME Send(ClientEnd(c), m), open[PeerEnd(c)], inbox[PeerEnd(c)] = <<>>
      PROVE  Puts(PeerEnd(c), m) /\ Stays(ClientEnd(c))
  BY <1>1, <1>2, <1>3, SendAppends DEF Puts, Stays
<1>4. ASSUME Send(PeerEnd(c), m), open[ClientEnd(c)], inbox[ClientEnd(c)] = <<>>
      PROVE  Puts(ClientEnd(c), m) /\ Stays(PeerEnd(c))
  BY <1>1, <1>2, <1>4, SendAppends DEF Puts, Stays
<1>5. ASSUME Receive(ClientEnd(c)), inbox[ClientEnd(c)] = <<m>>
      PROVE  Takes(ClientEnd(c), m) /\ Stays(PeerEnd(c))
  BY <1>1, <1>2, <1>5, ReceiveTakes DEF Takes, Stays
<1>6. ASSUME Receive(PeerEnd(c)), inbox[PeerEnd(c)] = <<m>>
      PROVE  Takes(PeerEnd(c), m) /\ Stays(ClientEnd(c))
  BY <1>1, <1>2, <1>6, ReceiveTakes DEF Takes, Stays
<1> QED BY <1>3, <1>4, <1>5, <1>6

(* A session that has not been started takes no step. *)
LEMMA ThreadStarted ==
  ASSUME NEW s \in Session, Thread(s)
  PROVE  pc[s] # "idle"
<1>1. pc[s] = "idle" => ~PeerHandshake(s)
  BY PeerHandshakeFrom DEF PeerStage, Callback, CallbackThrows
<1>2. pc[s] = "idle" => ~MediatorConnect(s)
  BY DEF MediatorConnect, DialMediator, SendAdvertise, ReceiveAdvertiseRetry,
         ReceiveAdvertiseChallenge, SendAdvertiseResponse,
         ReceivePeerIdentification, ReceivePeerDisconnect, ReceiveUnexpected,
         LoseMediator
<1> QED BY <1>1, <1>2 DEF Thread

(* The step that the thread of a session takes, by where it is. *)
LEMMA ThreadAt ==
  ASSUME NEW s \in Session, Thread(s)
  PROVE  /\ pc[s] = "client" => CloseMediatorAsClient(s)
         /\ pc[s] \in {"dial", "redial"} => DialPeer(s)
         /\ pc[s] = "dialled" => SendPeerChallenge(s) \/ LosePeer(s)
         /\ pc[s] = "challenging" => ReceivePeerChallengeResponse(s) \/ LosePeer(s)
         /\ pc[s] = "answering" => SendPeerResponse(s) \/ LosePeer(s)
         /\ pc[s] = "answered" => ReceivePeerAcknowledgement(s) \/ LosePeer(s)
         /\ pc[s] = "peer" => CloseMediatorAsPeer(s)
         /\ pc[s] = "bind" => Listen(s)
         /\ pc[s] = "accept" => Accept(s)
         /\ pc[s] = "accepted" => ReceivePeerChallenge(s) \/ LosePeer(s)
         /\ pc[s] = "replying" => SendPeerChallengeResponse(s) \/ LosePeer(s)
         /\ pc[s] = "replied" => ReceivePeerResponse(s) \/ LosePeer(s)
         /\ pc[s] = "acking" => SendPeerAcknowledgement(s) \/ LosePeer(s)
         /\ pc[s] = "returning" => Callback(s) \/ CallbackThrows(s)
         /\ pc[s] # "done"
         /\ pc[s] \in Unassigned => MediatorConnect(s) /\ UNCHANGED peerVars
<1>1. CASE MediatorConnect(s) /\ UNCHANGED peerVars
  <2>1. pc[s] \in MediatorStage
    BY <1>1 DEF MediatorConnect, DialMediator, SendAdvertise, ReceiveAdvertiseRetry,
       ReceiveAdvertiseChallenge, SendAdvertiseResponse, ReceivePeerIdentification,
       ReceivePeerDisconnect, ReceiveUnexpected, LoseMediator, MediatorStage
  <2> QED BY <1>1, <2>1 DEF MediatorStage
<1>2. CASE CloseMediatorAsClient(s) \/ DialPeer(s) \/ SendPeerChallenge(s)
  BY <1>2 DEF CloseMediatorAsClient, DialPeer, SendPeerChallenge, Unassigned,
     MediatorStage
<1>3. CASE ReceivePeerChallengeResponse(s) \/ SendPeerResponse(s)
           \/ ReceivePeerAcknowledgement(s)
  BY <1>3 DEF ReceivePeerChallengeResponse, SendPeerResponse,
     ReceivePeerAcknowledgement, Unassigned, MediatorStage
<1>4. CASE CloseMediatorAsPeer(s) \/ Listen(s) \/ Accept(s)
  BY <1>4 DEF CloseMediatorAsPeer, Listen, Accept, Unassigned, MediatorStage
<1>5. CASE ReceivePeerChallenge(s) \/ SendPeerChallengeResponse(s)
           \/ ReceivePeerResponse(s) \/ SendPeerAcknowledgement(s)
  BY <1>5 DEF ReceivePeerChallenge, SendPeerChallengeResponse, ReceivePeerResponse,
     SendPeerAcknowledgement, Unassigned, MediatorStage
<1>6. CASE LosePeer(s)
  BY <1>6 DEF LosePeer, Unassigned, MediatorStage
<1>7. CASE Callback(s) \/ CallbackThrows(s)
  BY <1>7 DEF Callback, CallbackThrows, Unassigned, MediatorStage
<1> QED BY <1>1, <1>2, <1>3, <1>4, <1>5, <1>6, <1>7 DEF Thread, PeerHandshake
=============================================================================
