----------------------------- MODULE AnyMediator -----------------------------
(***************************************************************************)
(* Sessions against a Mediator that follows no protocol: it reads what a   *)
(* session sends when it likes, sends any messages of the Mediator         *)
(* handshake in any order, drops connections and goes away.  It stands for *)
(* the Mediators outside this repository, and asks of MediatorConnection   *)
(* and Connection what they promise on their own.                          *)
(***************************************************************************)
EXTENDS Connection

CONSTANTS MaxInFlight,   \* bound on unread messages to one session
          Terse          \* the Mediator waits to be asked, and repeats itself

ASSUME AnyMediatorAssumption ==
  MaxInFlight \in Nat \ {0} /\ Terse \in BOOLEAN

VARIABLE advertises   \* how many Advertises of a session have been read

anyVars == <<sessionVars, advertises>>

AnyTypeOK == ConnectionTypeOK /\ advertises \in [Session -> Nat]

AnyInit == ConnectionInit /\ advertises = [s \in Session |-> 0]

Replies ==
  {AdvertiseAbort, AdvertiseRetry}
    \cup {AdvertiseChallenge(c) : c \in Cipher}
    \cup {PeerDisconnect(a) : a \in Address}
    \cup {PeerIdentification(v, a) : v \in Version, a \in Address}

AnyReceive(s) ==
  /\ open[HandlerEnd(s)]
  /\ inbox[HandlerEnd(s)] # <<>>
  /\ Receive(HandlerEnd(s))
  /\ advertises' = [advertises EXCEPT ![s] =
       IF Head(inbox[HandlerEnd(s)]).type = "Advertise" THEN @ + 1 ELSE @]
  /\ UNCHANGED <<open, medVars, peerVars>>

(***************************************************************************)
(* The Mediator may say anything at any time.  The instance for TLC is     *)
(* terse: it speaks when the session reads and all that the session has    *)
(* sent has been read, and a second message under way repeats the first,   *)
(* so that the session may find both in one read().                        *)
(***************************************************************************)
Asked(s, m) ==
  /\ pc[s] \in {"advertised", "registered"}
  /\ inbox[HandlerEnd(s)] = <<>>
  /\ inbox[MedEnd(s)] # <<>> => m = Head(inbox[MedEnd(s)])

AnySend(s) ==
  /\ open[HandlerEnd(s)]
  /\ Len(inbox[MedEnd(s)]) < MaxInFlight
  /\ \E m \in Replies : (Terse => Asked(s, m)) /\ Send(HandlerEnd(s), m)
  /\ UNCHANGED <<open, medVars, peerVars, advertises>>

AnyClose(s) ==
  /\ open[HandlerEnd(s)] /\ open[MedEnd(s)]
  /\ open' = [open EXCEPT ![HandlerEnd(s)] = FALSE]
  /\ UNCHANGED <<inbox, medVars, peerVars, advertises>>

AnyGone ==
  /\ mediatorUp
  /\ mediatorUp' = FALSE
  /\ open' = [e \in Endpoint |-> open[e] /\ ~\E t \in Session : e = HandlerEnd(t)]
  /\ UNCHANGED <<inbox, pc, verdict, advertise_retries, connected,
                 punched_peer, peer_disconnect, secret, peerVars, advertises>>

AnyNext ==
  \/ AnyGone
  \/ \E s \in Session :
       \/ AnyReceive(s) \/ AnySend(s) \/ AnyClose(s)
       \/ (Connect(s) \/ Thread(s) \/ Crash(s)) /\ UNCHANGED advertises

AnySpec == AnyInit /\ [][AnyNext]_anyVars
-----------------------------------------------------------------------------
(***************************************************************************)
(* However often the Mediator answers AdvertiseRetry, it reads no more     *)
(* than one Advertise and MAX_ADVERTISE_RETRIES repetitions.               *)
(***************************************************************************)
AdvertisesBounded ==
  \A s \in Session : advertises[s] <= MAX_ADVERTISE_RETRIES + 1
=============================================================================
