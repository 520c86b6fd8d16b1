-------------------------- MODULE AnyMediatorProofs --------------------------
(***************************************************************************)
(* The theorems that do not depend on the Mediator: the sessions keep them *)
(* whatever it answers.                                                    *)
(***************************************************************************)
EXTENDS AnyMediator, ConnectionProofs

(* Most leaves are first-order; the ones that are not cite SMT. *)
USE Zenon

(* What the Mediator may answer is well formed. *)
LEMMA RepliesAreMessages == Replies \subseteq Message
  BY SMT, Constructors DEF Replies

(***************************************************************************)
(* The Advertises a session has sent, read by the Mediator or not, against *)
(* its count of retries: one per retry, and one more once it waits for the *)
(* answer to the last one.                                                 *)
(***************************************************************************)
Count(s) ==
  /\ pc[s] \in {"idle", "mediator", "advertise"} =>
       advertises[s] + Len(inbox[HandlerEnd(s)]) <= advertise_retries[s]
  /\ pc[s] = "advertised" =>
       advertises[s] + Len(inbox[HandlerEnd(s)]) <= advertise_retries[s] + 1
  /\ advertises[s] <= advertise_retries[s] + 1
  /\ \A i \in DOMAIN inbox[HandlerEnd(s)] :
       inbox[HandlerEnd(s)][i].type = "Advertise" =>
         advertises[s] + i <= advertise_retries[s] + 1

AnyInv == /\ SessionInv /\ KeysInv /\ RendezvousInv
          /\ advertises \in [Session -> Nat]
          /\ \A s \in Session : Count(s)

(***************************************************************************)
(* A step of the Mediator touches neither the sessions nor what they have  *)
(* sent to each other.                                                     *)
(***************************************************************************)
LEMMA AnyMediatorKeeps ==
  ASSUME SessionInv, KeysInv,
         AnyGone \/ \E s \in Session : AnyReceive(s) \/ AnySend(s) \/ AnyClose(s)
  PROVE  SessionInv' /\ KeysInv'
<1>1. NetTypeOK /\ mediatorUp \in BOOLEAN
  BY DEF SessionInv, ConnectionTypeOK, MediatorConnectionTypeOK
<1>2. CASE AnyGone
  <2>1. NetTypeOK' /\ Quiet
    BY <1>1, <1>2, NoTraffic DEF AnyGone, NetTypeOK
  <2> QED BY <1>2, <2>1, OthersKeep DEF AnyGone
<1>3. ASSUME NEW s \in Session, AnyReceive(s) PROVE SessionInv' /\ KeysInv'
  <2>1. inbox' \in [Endpoint -> Seq(Message)] /\ Quiet
    BY <1>1, <1>3, Ends, ReceiveRemoves, MediatorTraffic DEF AnyReceive
  <2> QED BY <1>1, <1>3, <2>1, OthersKeep DEF AnyReceive, medVars, NetTypeOK
<1>4. ASSUME NEW s \in Session, AnySend(s) PROVE SessionInv' /\ KeysInv'
  <2>1. PICK m \in Message : Send(HandlerEnd(s), m)
    BY <1>4, RepliesAreMessages DEF AnySend
  <2>2. inbox' \in [Endpoint -> Seq(Message)] /\ Quiet
    BY <1>1, <2>1, Ends, SendAdds, MediatorTraffic
  <2> QED BY <1>1, <1>4, <2>2, OthersKeep DEF AnySend, medVars, NetTypeOK
<1>5. ASSUME NEW s \in Session, AnyClose(s) PROVE SessionInv' /\ KeysInv'
  <2>1. NetTypeOK' /\ Quiet
    BY <1>1, <1>5, NoTraffic DEF AnyClose, NetTypeOK
  <2> QED BY <1>1, <1>5, <2>1, OthersKeep DEF AnyClose, medVars
<1> QED BY <1>2, <1>3, <1>4, <1>5

LEMMA AnyMediatorRendezvous ==
  ASSUME SessionInv, RendezvousInv,
         AnyGone \/ \E s \in Session : AnyReceive(s) \/ AnySend(s) \/ AnyClose(s)
  PROVE  RendezvousInv'
<1>1. NetTypeOK
  BY DEF SessionInv, ConnectionTypeOK
<1>2. UNCHANGED <<pc, verdict, connected, punched_peer, peer_disconnect, secret,
                  peerVars>>
  BY DEF AnyGone, AnyReceive, AnySend, AnyClose, medVars
<1>3. ASSUME NEW c \in Session
      PROVE  /\ open'[MedEnd(c)] = open[MedEnd(c)]
             /\ open'[ClientEnd(c)] = open[ClientEnd(c)]
             /\ open'[PeerEnd(c)] = open[PeerEnd(c)]
  <2>1. \A e \in {MedEnd(c), ClientEnd(c), PeerEnd(c)} :
          /\ e \in Endpoint /\ open[e] \in BOOLEAN
          /\ ~\E t \in Session : e = HandlerEnd(t)
    BY <1>1, Ends DEF NetTypeOK
  <2>2. CASE AnyGone
    BY <2>1, <2>2 DEF AnyGone
  <2>3. ASSUME NEW s \in Session, AnyReceive(s) \/ AnySend(s) \/ AnyClose(s)
        PROVE  \A e \in {MedEnd(c), ClientEnd(c), PeerEnd(c)} : open'[e] = open[e]
    BY <1>1, <2>1, <2>3 DEF AnyReceive, AnySend, AnyClose, NetTypeOK
  <2> QED BY <2>2, <2>3
<1>4. P2pSame
  <2>1. CASE AnyGone
    BY <2>1 DEF AnyGone, P2pSame
  <2>2. ASSUME NEW s \in Session, AnyReceive(s) \/ AnySend(s) \/ AnyClose(s)
        PROVE  P2pSame
    BY <1>1, <2>2, MediatorSame DEF AnyReceive, AnySend, AnyClose
  <2> QED BY <2>1, <2>2
<1> QED BY <1>2, <1>3, <1>4, OthersRendezvous DEF P2pSame, SameInbox
-----------------------------------------------------------------------------
(* Count speaks of nothing but what is kept here. *)
LEMMA CountSame ==
  ASSUME NEW s \in Session, Count(s),
         inbox'[HandlerEnd(s)] = inbox[HandlerEnd(s)],
         advertise_retries'[s] = advertise_retries[s],
         advertises'[s] = advertises[s],
         \/ pc'[s] = pc[s]
         \/ pc[s] = "idle" /\ pc'[s] = "mediator"
         \/ pc[s] = "mediator" /\ pc'[s] = "advertise"
         \/ pc'[s] \notin {"idle", "mediator", "advertise", "advertised"}
  PROVE  Count(s)'
  BY DEF Count

(* What a queue holds after a message is added. *)
LEMMA Appended ==
  ASSUME NEW q \in Seq(Message), NEW m \in Message
  PROVE  /\ Append(q, m) \in Seq(Message)
         /\ Len(q) <= Len(q) + 1 /\ Len(Append(q, m)) <= Len(q) + 1
         /\ \A i \in DOMAIN Append(q, m) :
              \/ i \in DOMAIN q /\ Append(q, m)[i] = q[i]
              \/ i = Len(q) + 1 /\ Append(q, m)[i] = m
  BY SMT

(***************************************************************************)
(* A session sends an Advertise only after it has counted the retry.       *)
(***************************************************************************)
LEMMA CountSession ==
  ASSUME AnyInv, NEW s \in Session, Connect(s) \/ Thread(s) \/ Crash(s),
         UNCHANGED advertises
  PROVE  \A t \in Session : Count(t)'
<1>1. /\ SessionInv /\ NetTypeOK /\ ConnectionTypeOK /\ Count(s) /\ Defined(s)
      /\ advertises[s] \in Nat /\ advertise_retries[s] \in Nat
      /\ inbox[HandlerEnd(s)] \in Seq(Message)
  <2>1. /\ SessionInv /\ NetTypeOK /\ ConnectionTypeOK /\ Count(s) /\ Defined(s)
        /\ advertises \in [Session -> Nat]
    BY DEF AnyInv, SessionInv, ConnectionTypeOK
  <2>2. /\ inbox \in [Endpoint -> Seq(Message)]
        /\ advertise_retries \in [Session -> 0 .. MAX_ADVERTISE_RETRIES]
    BY <2>1 DEF ConnectionTypeOK, MediatorConnectionTypeOK, NetTypeOK
  <2>3. advertise_retries[s] \in Nat
    BY SMT, <2>2, SessionAssumption
  <2> QED BY <2>1, <2>2, <2>3, Ends
<1>2. \A t \in Session \ {s} : Same(t)
  BY <1>1, SessionDefined
<1>3. ASSUME NEW location, Go(s, location) PROVE pc'[s] = location
  BY <1>1, <1>3 DEF Go, ConnectionTypeOK, MediatorConnectionTypeOK
<1>4. ASSUME NEW t \in Session \ {s},
             inbox'[HandlerEnd(t)] = inbox[HandlerEnd(t)],
             advertise_retries'[t] = advertise_retries[t]
      PROVE  Count(t)'
  BY <1>2, <1>4, CountSame DEF AnyInv, Same
<1>5. ASSUME NEW m \in Message,
             inbox'[HandlerEnd(s)] = inbox[HandlerEnd(s)]
               \/ inbox'[HandlerEnd(s)] = Append(inbox[HandlerEnd(s)], m)
      PROVE  /\ inbox'[HandlerEnd(s)] \in Seq(Message)
             /\ Len(inbox'[HandlerEnd(s)]) <= Len(inbox[HandlerEnd(s)]) + 1
             /\ \A i \in DOMAIN inbox'[HandlerEnd(s)] :
                  \/ /\ i \in DOMAIN inbox[HandlerEnd(s)]
                     /\ inbox'[HandlerEnd(s)][i] = inbox[HandlerEnd(s)][i]
                  \/ i = Len(inbox[HandlerEnd(s)]) + 1
                     /\ inbox'[HandlerEnd(s)][i] = m
  <2>1. CASE inbox'[HandlerEnd(s)] = inbox[HandlerEnd(s)]
    BY <1>1, <1>5, <2>1, Appended
  <2>2. CASE inbox'[HandlerEnd(s)] = Append(inbox[HandlerEnd(s)], m)
    BY <1>1, <1>5, <2>2, Appended
  <2> QED BY <1>5, <2>1, <2>2
<1>6. ASSUME NEW m, Send(MedEnd(s), m)
      PROVE  /\ \A t \in Session \ {s} : inbox'[HandlerEnd(t)] = inbox[HandlerEnd(t)]
             /\ inbox'[HandlerEnd(s)] = inbox[HandlerEnd(s)]
                  \/ inbox'[HandlerEnd(s)] = Append(inbox[HandlerEnd(s)], m)
  BY SMT, <1>1, <1>6, Ends, SendAppends
<1>7. ASSUME Receive(MedEnd(s))
      PROVE  \A t \in Session : inbox'[HandlerEnd(t)] = inbox[HandlerEnd(t)]
  BY SMT, <1>1, <1>7, Ends, ReceiveTakes
<1>8. CASE GivesUp(s) \/ GoneOn(s)
  <2>1. /\ \A t \in Session : inbox'[HandlerEnd(t)] = inbox[HandlerEnd(t)]
        /\ UNCHANGED advertise_retries
        /\ pc'[s] \notin {"idle", "mediator", "advertise", "advertised"}
    BY <1>8 DEF GivesUp, GoneOn, MedSame, PeerStage, Final
  <2>2. Count(s)'
    BY <1>1, <2>1, CountSame
  <2> QED BY <1>4, <2>1, <2>2
<1>9. CASE pc[s] = "idle" /\ Go(s, "mediator") /\ UNCHANGED <<inbox, advertise_retries>>
  <2>1. Count(s)'
    BY <1>1, <1>3, <1>9, CountSame
  <2> QED BY <1>4, <1>9, <2>1
<1>10. CASE pc[s] = "mediator" /\ Go(s, "advertise")
            /\ UNCHANGED <<inbox, advertise_retries>>
  <2>1. Count(s)'
    BY <1>1, <1>3, <1>10, CountSame
  <2> QED BY <1>4, <1>10, <2>1
<1>11. CASE Tells(s, "advertise", "advertised", Advertise(kVersion[s], KeyOf[s], Wants[s]))
  <2>1. PICK m \in Message : m = Advertise(kVersion[s], KeyOf[s], Wants[s])
    BY Constructors, SessionAssumption
  <2>2. /\ pc[s] = "advertise" /\ pc'[s] = "advertised"
        /\ UNCHANGED advertise_retries /\ Send(MedEnd(s), m)
    BY <1>3, <1>11, <2>1 DEF Tells
  <2>3. Count(s)'
    <3>1. inbox'[HandlerEnd(s)] \in Seq(Message)
      BY <1>5, <1>6, <2>2
    <3>2. Len(inbox'[HandlerEnd(s)]) <= Len(inbox[HandlerEnd(s)]) + 1
      BY <1>5, <1>6, <2>2
    <3>3. advertises[s] + Len(inbox[HandlerEnd(s)]) <= advertise_retries[s]
      BY <1>1, <2>2 DEF Count
    <3>4. advertises[s] + Len(inbox'[HandlerEnd(s)]) <= advertise_retries[s] + 1
      BY SMT, <1>1, <3>1, <3>2, <3>3
    <3>5. \A i \in DOMAIN inbox'[HandlerEnd(s)] :
            advertises[s] + i <= advertise_retries[s] + 1
      BY SMT, <1>1, <3>1, <3>4
    <3> QED BY <1>1, <2>2, <3>4, <3>5 DEF Count
  <2> QED BY <1>4, <1>6, <2>2, <2>3
<1>12. CASE Tells(s, "challenged", "registered", AdvertiseResponse(secret[s]))
  <2>1. PICK m \in Message : m = AdvertiseResponse(secret[s])
    BY <1>1, <1>12, Constructors DEF Tells, Defined
  <2>2. m.type # "Advertise"
    BY <2>1 DEF AdvertiseResponse, Blank
  <2>3. /\ pc'[s] = "registered"
        /\ UNCHANGED advertise_retries /\ Send(MedEnd(s), m)
    BY <1>3, <1>12, <2>1 DEF Tells
  <2>4. Count(s)'
    BY <1>1, <1>5, <1>6, <2>2, <2>3 DEF Count
  <2> QED BY <1>4, <1>6, <2>3, <2>4
<1>13. CASE /\ Hears(s, "advertised", "advertise", "AdvertiseRetry")
            /\ advertise_retries' = [advertise_retries EXCEPT ![s] = @ + 1]
  <2>1. /\ pc[s] = "advertised" /\ pc'[s] = "advertise" /\ Receive(MedEnd(s))
        /\ advertise_retries'[s] = advertise_retries[s] + 1
        /\ \A t \in Session \ {s} : advertise_retries'[t] = advertise_retries[t]
    BY <1>1, <1>3, <1>13 DEF Hears, ConnectionTypeOK, MediatorConnectionTypeOK
  <2>2. Count(s)'
    BY SMT, <1>1, <1>7, <2>1 DEF Count
  <2> QED BY <1>4, <1>7, <2>1, <2>2
<1>14. ASSUME NEW from, NEW type, NEW to \in {"challenged", "client", "peer"},
              Hears(s, from, to, type), UNCHANGED advertise_retries
       PROVE  \A t \in Session : Count(t)'
  <2>1. pc'[s] = to /\ Receive(MedEnd(s))
    BY <1>3, <1>14 DEF Hears
  <2>2. Count(s)'
    BY <1>1, <1>7, <1>14, <2>1, CountSame
  <2> QED BY <1>4, <1>7, <1>14, <2>1, <2>2
<1> QED BY <1>1, <1>8, <1>9, <1>10, <1>11, <1>12, <1>13, <1>14, MediatorSide
        DEF Converses
(* The Mediator reads an Advertise: it moves from one side to the other. *)
LEMMA CountMediator ==
  ASSUME AnyInv,
         AnyGone \/ \E s \in Session : AnyReceive(s) \/ AnySend(s) \/ AnyClose(s)
  PROVE  advertises' \in [Session -> Nat] /\ \A t \in Session : Count(t)'
<1>1. /\ NetTypeOK /\ ConnectionTypeOK /\ advertises \in [Session -> Nat]
      /\ \A t \in Session : Count(t)
  BY DEF AnyInv, SessionInv, ConnectionTypeOK
<1>2. UNCHANGED <<pc, advertise_retries>>
  BY DEF AnyGone, AnyReceive, AnySend, AnyClose, medVars
<1>3. ASSUME UNCHANGED advertises,
             \A t \in Session : inbox'[HandlerEnd(t)] = inbox[HandlerEnd(t)]
      PROVE  advertises' \in [Session -> Nat] /\ \A t \in Session : Count(t)'
  BY <1>1, <1>2, <1>3, CountSame
<1>4. ASSUME NEW s \in Session, AnySend(s)
      PROVE  \A t \in Session : inbox'[HandlerEnd(t)] = inbox[HandlerEnd(t)]
  <2>1. PICK m \in Replies : Send(HandlerEnd(s), m)
    BY <1>4 DEF AnySend
  <2> QED BY SMT, <1>1, <2>1, Ends, SendAppends
<1>5. ASSUME NEW s \in Session, AnyReceive(s)
      PROVE  advertises' \in [Session -> Nat] /\ \A t \in Session : Count(t)'
  <2> DEFINE q == inbox[HandlerEnd(s)]
             isAd == Head(q).type = "Advertise"
  <2>1. /\ q \in Seq(Message) /\ q # <<>> /\ inbox'[HandlerEnd(s)] = Tail(q)
        /\ \A t \in Session \ {s} : inbox'[HandlerEnd(t)] = inbox[HandlerEnd(t)]
    <3>1. /\ HandlerEnd(s) \in Endpoint /\ q # <<>> /\ Receive(HandlerEnd(s))
          /\ \A t \in Session \ {s} : HandlerEnd(t) \in Endpoint \ {HandlerEnd(s)}
      BY <1>5, Ends DEF AnyReceive
    <3>2. q \in Seq(Message)
      BY <1>1, <3>1 DEF NetTypeOK
    <3> QED BY <1>1, <3>1, <3>2, ReceiveTakes
  <2>2. /\ advertises' \in [Session -> Nat]
        /\ advertises'[s] = IF isAd THEN advertises[s] + 1 ELSE advertises[s]
        /\ \A t \in Session \ {s} : advertises'[t] = advertises[t]
    BY SMT, <1>1, <1>5 DEF AnyReceive
  <2>3. /\ Len(Tail(q)) = Len(q) - 1 /\ Len(q) \in Nat /\ 1 \in DOMAIN q
        /\ Head(q) = q[1]
        /\ \A i \in DOMAIN Tail(q) : i + 1 \in DOMAIN q /\ Tail(q)[i] = q[i + 1]
                                     /\ i \in Nat
    BY SMT, <2>1
  <2>4. advertises[s] \in Nat /\ advertise_retries[s] \in Nat
    BY SMT, <1>1, SessionAssumption DEF ConnectionTypeOK, MediatorConnectionTypeOK
  <2> HIDE DEF q
  <2>5. Count(s) /\ pc'[s] = pc[s] /\ advertise_retries'[s] = advertise_retries[s]
    BY <1>1, <1>2
  <2>6. /\ pc'[s] \in {"idle", "mediator", "advertise"} =>
             advertises'[s] + Len(Tail(q)) <= advertise_retries'[s]
        /\ pc'[s] = "advertised" =>
             advertises'[s] + Len(Tail(q)) <= advertise_retries'[s] + 1
    <3>1. /\ pc[s] \in {"idle", "mediator", "advertise"} =>
               advertises[s] + Len(q) <= advertise_retries[s]
          /\ pc[s] = "advertised" =>
               advertises[s] + Len(q) <= advertise_retries[s] + 1
      BY <2>5 DEF Count, q
    <3>2. Len(q) \in Nat /\ Len(Tail(q)) = Len(q) - 1
      BY <2>3
    <3>3. /\ advertises'[s] \in Nat
          /\ advertises'[s] + Len(Tail(q)) <= advertises[s] + Len(q)
      BY SMT, <2>2, <2>4, <3>2
    <3> HIDE DEF isAd
    <3> QED BY SMT, <2>4, <2>5, <3>1, <3>2, <3>3
  <2>7. advertises'[s] <= advertise_retries'[s] + 1
    <3>1. isAd => advertises[s] + 1 <= advertise_retries[s] + 1
      BY <2>3, <2>5 DEF Count, q
    <3>2. advertises[s] <= advertise_retries[s] + 1
      BY <2>5 DEF Count
    <3> QED BY <2>2, <2>4, <2>5, <3>1, <3>2
  <2>8. \A i \in DOMAIN Tail(q) : Tail(q)[i].type = "Advertise" =>
          advertises'[s] + i <= advertise_retries'[s] + 1
    <3>1. \A j \in DOMAIN q : q[j].type = "Advertise" =>
            advertises[s] + j <= advertise_retries[s] + 1
      BY <2>5 DEF Count, q
    <3>2. advertises'[s] \in Nat /\ advertises'[s] <= advertises[s] + 1
      BY SMT, <2>2, <2>4
    <3>3. ASSUME NEW i \in Nat, advertises[s] + (i + 1) <= advertise_retries[s] + 1
          PROVE  advertises'[s] + i <= advertise_retries'[s] + 1
      BY SMT, <2>4, <2>5, <3>2, <3>3
    <3> QED BY <2>3, <3>1, <3>3
  <2>9. Count(s)'
    BY <2>1, <2>6, <2>7, <2>8 DEF Count
  <2>10. \A t \in Session \ {s} : Count(t)'
    BY <1>1, <1>2, <2>1, <2>2, CountSame
  <2> QED BY <2>2, <2>9, <2>10
<1> QED BY <1>3, <1>4, <1>5 DEF AnyGone, AnyClose, AnySend
-----------------------------------------------------------------------------
(***************************************************************************)
(* AnyInv is an inductive invariant of the sessions with any Mediator.     *)
(***************************************************************************)
LEMMA AnyInitially == AnyInit => AnyInv
<1> SUFFICES ASSUME AnyInit PROVE AnyInv
  OBVIOUS
<1>1. ConnectionInit /\ SessionInv /\ KeysInv /\ RendezvousInv
  BY InitKeys, InitRendezvous DEF AnyInit
<1>2. ASSUME NEW s \in Session PROVE Count(s)
  <2>1. advertises[s] = 0 /\ advertise_retries[s] = 0 /\ inbox[HandlerEnd(s)] = <<>>
    BY Ends DEF AnyInit, ConnectionInit, NetInit, MediatorConnectionInit
  <2> QED BY SMT, <2>1 DEF Count
<1>3. advertises \in [Session -> Nat]
  BY DEF AnyInit
<1> QED BY <1>1, <1>2, <1>3 DEF AnyInv

LEMMA AnyStep == AnyInv /\ [AnyNext]_anyVars => AnyInv'
<1> SUFFICES ASSUME AnyInv, [AnyNext]_anyVars PROVE AnyInv'
  OBVIOUS
<1>1. SessionInv /\ KeysInv /\ RendezvousInv /\ advertises \in [Session -> Nat]
  BY DEF AnyInv
<1>2. CASE UNCHANGED anyVars
  <2>1. NetTypeOK' /\ mediatorUp' \in BOOLEAN /\ Quiet
    BY <1>1, <1>2, NoTraffic
    DEF anyVars, sessionVars, netVars, medVars, SessionInv, ConnectionTypeOK,
        NetTypeOK, MediatorConnectionTypeOK
  <2>2. UNCHANGED <<inbox, open, pc, verdict, advertise_retries, connected,
                    punched_peer, peer_disconnect, secret, peerVars, advertises>>
    BY <1>2 DEF anyVars, sessionVars, netVars, medVars
  <2>3. SessionInv' /\ KeysInv'
    BY <1>1, <2>1, <2>2, OthersKeep
  <2>4. RendezvousInv'
    BY <1>1, <2>2, OthersRendezvous DEF SameInbox
  <2>5. \A t \in Session : Count(t)'
    BY <2>2, CountSame DEF AnyInv
  <2> QED BY <1>1, <2>2, <2>3, <2>4, <2>5 DEF AnyInv
<1>3. ASSUME NEW s \in Session, Connect(s) \/ Thread(s) \/ Crash(s),
             UNCHANGED advertises
      PROVE  AnyInv'
  <2>1. SessionInv' /\ KeysInv' /\ RendezvousInv'
    BY <1>1, <1>3, SessionDefined, SessionKeys, SessionRendezvous
  <2> QED BY <1>1, <1>3, <2>1, CountSession DEF AnyInv
<1>4. CASE AnyGone \/ \E s \in Session : AnyReceive(s) \/ AnySend(s) \/ AnyClose(s)
  BY <1>1, <1>4, AnyMediatorKeeps, AnyMediatorRendezvous, CountMediator DEF AnyInv
<1> QED BY <1>2, <1>3, <1>4 DEF AnyNext

LEMMA AnyInvHolds == AnySpec => []AnyInv
  BY AnyInitially, AnyStep, PTL DEF AnySpec

(***************************************************************************)
(* Every variable keeps its type.                                          *)
(***************************************************************************)
THEOREM AnyTypeCorrect == AnySpec => []AnyTypeOK
<1>1. AnyInv => AnyTypeOK
  BY DEF AnyInv, SessionInv, AnyTypeOK
<1> QED BY <1>1, AnyInvHolds, PTL

(***************************************************************************)
(* Whatever the Mediator answers, a session whose connect returns a socket *)
(* is connected to a holder of the private key of the Peer it asked for.   *)
(***************************************************************************)
THEOREM AnyMediatorAuthenticated == AnySpec => []Authenticated
<1>1. AnyInv => Authenticated
  BY KeysAuthenticate DEF AnyInv
<1> QED BY <1>1, AnyInvHolds, PTL

(***************************************************************************)
(* However often the Mediator asks for a retry, MediatorConnection::       *)
(* connect sends it at most MAX_ADVERTISE_RETRIES + 1 Advertises.          *)
(***************************************************************************)
THEOREM AdvertisesAreBounded == AnySpec => []AdvertisesBounded
<1>1. AnyInv => AdvertisesBounded
  <2> SUFFICES ASSUME AnyInv, NEW s \in Session
               PROVE  advertises[s] <= MAX_ADVERTISE_RETRIES + 1
    BY DEF AdvertisesBounded
  <2>1. /\ advertises[s] \in Nat /\ advertise_retries[s] \in 0 .. MAX_ADVERTISE_RETRIES
        /\ advertises[s] <= advertise_retries[s] + 1
    BY DEF AnyInv, Count, SessionInv, ConnectionTypeOK, MediatorConnectionTypeOK
  <2> QED BY SMT, <2>1, SessionAssumption
<1> QED BY <1>1, AnyInvHolds, PTL

(***************************************************************************)
(* When _connect_as_client returns a socket, the Peer it is connected to   *)
(* has returned the other end, whatever the Mediator told the two.         *)
(***************************************************************************)
THEOREM AnyClientImpliesPeer == AnySpec => []ClientImpliesPeer
<1>1. AnyInv => ClientImpliesPeer
  BY RendezvousPromises DEF AnyInv
<1> QED BY <1>1, AnyInvHolds, PTL

(***************************************************************************)
(* The error a callback gets tells how far its session came.               *)
(***************************************************************************)
THEOREM AnyErrorKindIsTruthful == AnySpec => []ErrorKindIsTruthful
<1>1. AnyInv => ErrorKindIsTruthful
  BY ProgressPromises DEF AnyInv, RendezvousInv
<1> QED BY <1>1, AnyInvHolds, PTL

(***************************************************************************)
(* The assertions behind MediatorConnection::close_socket hold, and a      *)
(* session that is told its role has exactly one.                          *)
(***************************************************************************)
THEOREM AnyCloseIsLegal == AnySpec => []CloseIsLegal
<1>1. AnyInv => CloseIsLegal
  BY ProgressPromises DEF AnyInv, RendezvousInv
<1> QED BY <1>1, AnyInvHolds, PTL

(***************************************************************************)
(* The sessions implement module Rendezvous: verification, confirmation    *)
(* and the calls of the callback happen as p2psc::connect promises.        *)
(***************************************************************************)
THEOREM AnyMediatorKeepsPromise == AnySpec => PromiseIsKept
<1>1. AnyInit => Promise!RendezvousInit
  BY PromiseInitially DEF AnyInit
<1>2. AnyInv /\ [AnyNext]_anyVars =>
        [Promise!RendezvousNext]_(Promise!rendezvousVars)
  <2> SUFFICES ASSUME AnyInv, [AnyNext]_anyVars
               PROVE  [Promise!RendezvousNext]_(Promise!rendezvousVars)
    OBVIOUS
  <2>1. ASSUME NEW s \in Session, Connect(s) \/ Thread(s) \/ Crash(s)
        PROVE  [Promise!RendezvousNext]_(Promise!rendezvousVars)
    BY <2>1, PromiseStep DEF AnyInv
  <2>2. ASSUME UNCHANGED <<verdict, punched_peer, peerVars>>
        PROVE  UNCHANGED Promise!rendezvousVars
    BY <2>2 DEF Promise!rendezvousVars, As, Role, GotSocket, peerVars
  <2>3. CASE UNCHANGED anyVars
    BY <2>2, <2>3 DEF anyVars, sessionVars, medVars
  <2>4. CASE AnyGone \/ \E s \in Session : AnyReceive(s) \/ AnySend(s) \/ AnyClose(s)
    BY <2>2, <2>4 DEF AnyGone, AnyReceive, AnySend, AnyClose, medVars
  <2> QED BY <2>1, <2>3, <2>4 DEF AnyNext
<1> QED BY <1>1, <1>2, AnyInvHolds, PTL
        DEF AnySpec, PromiseIsKept, Promise!RendezvousSpec
=============================================================================
