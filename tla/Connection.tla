------------------------------ MODULE Connection ------------------------------
(***************************************************************************)
(* p2psc::connect (src/connection.cpp): the thread that runs               *)
(* Connection::_handle_connection.  It goes through the Mediator           *)
(* handshake of MediatorConnection, then through the Peer handshake as     *)
(* Client (it dials) or as Peer (it listens), and calls the callback.      *)
(***************************************************************************)
EXTENDS MediatorConnection

CONSTANTS TalkRoles,   \* roles whose callback sends on the socket at once
          Prompt       \* a Peer listens before the Client's backoff is over

Roles == {"client", "peer"}

ASSUME CallerAssumption == TalkRoles \subseteq Roles /\ Prompt \in BOOLEAN

VARIABLES nonce,      \* what generate_nonce returned
          dial,       \* the session at the other end of ClientEnd(c)
          accepted,   \* the session whose connection accept() returned
          listener,   \* the session that listens on an address
          callbacks   \* the calls of the user's callback, in order

peerVars == <<nonce, dial, accepted, listener, callbacks>>

sessionVars == <<netVars, medVars, peerVars>>

ConnectionTypeOK ==
  /\ NetTypeOK
  /\ MediatorConnectionTypeOK
  /\ nonce \in [Session -> Nonce \cup {None}]
  /\ dial \in [Session -> Session \cup {None}]
  /\ accepted \in [Session -> Session \cup {None}]
  /\ listener \in [Address -> Session \cup {None}]
  /\ callbacks \in [Session -> Seq(ErrorKind \cup {"socket"})]

ConnectionInit ==
  /\ NetInit
  /\ MediatorConnectionInit
  /\ nonce = [s \in Session |-> None]
  /\ dial = [s \in Session |-> None]
  /\ accepted = [s \in Session |-> None]
  /\ listener = [a \in Address |-> None]
  /\ callbacks = [s \in Session |-> <<>>]

Role(s) == IF punched_peer[s] # None THEN "client" ELSE "peer"

P2pEnd(s) == IF Role(s) = "client" THEN ClientEnd(s) ELSE PeerEnd(accepted[s])

(***************************************************************************)
(* The descriptors a session holds: its two dialled sockets and, if it     *)
(* listens, every connection that arrived, accepted or in the backlog.     *)
(***************************************************************************)
Holds(s, e) ==
  e \in {MedEnd(s), ClientEnd(s)} \/ \E c \in Session : dial[c] = s /\ e = PeerEnd(c)

(* mutant: an exception leaks the sockets of the Peer handshake *)
CloseMediatorOnly(s) == open' = [open EXCEPT ![MedEnd(s)] = FALSE]

CloseAll(s) == open' = [e \in Endpoint |-> open[e] /\ ~Holds(s, e)]

StopListening(s) ==
  listener' = [a \in Address |-> IF listener[a] = s THEN None ELSE listener[a]]

(* mutant: the catch of SocketException in _connect covers too much *)
ThrowMediatorFailure(s, kind) ==
  /\ verdict' = [verdict EXCEPT ![s] = "kErrorMediatorConnectFailure"]
  /\ Go(s, "returning")
  /\ CloseAll(s)
  /\ StopListening(s)
  /\ UNCHANGED <<inbox, advertise_retries, connected, punched_peer,
                 peer_disconnect, secret, mediatorUp, nonce, dial, accepted>>

(***************************************************************************)
(* An exception leaves the Peer handshake: unwinding closes every socket.  *)
(***************************************************************************)
Throw(s, kind) ==
  /\ verdict' = [verdict EXCEPT ![s] = kind]
  /\ Go(s, "returning")
  /\ CloseAll(s)
  /\ StopListening(s)
  /\ UNCHANGED <<inbox, advertise_retries, connected, punched_peer,
                 peer_disconnect, secret, mediatorUp, nonce, dial, accepted>>

(* Connection::connect starts the thread. *)
Connect(s) ==
  /\ pc[s] = "idle"
  /\ Go(s, "mediator")
  /\ UNCHANGED <<netVars, verdict, advertise_retries, connected, punched_peer,
                 peer_disconnect, secret, mediatorUp, peerVars>>
-----------------------------------------------------------------------------
(* _connect_as_client *)

CloseMediatorAsClient(s) ==
  /\ pc[s] = "client"
  /\ \/ /\ punched_peer[s].version = kVersion[s]
        /\ open' = [open EXCEPT ![MedEnd(s)] = FALSE]
        /\ Go(s, "dial")
        /\ UNCHANGED <<inbox, verdict, advertise_retries, connected,
                       punched_peer, peer_disconnect, secret, mediatorUp,
                       peerVars>>
     \/ /\ punched_peer[s].version # kVersion[s]
        /\ Throw(s, "kErrorPeerUnsupportedProtocolVersion")
        /\ UNCHANGED callbacks

(***************************************************************************)
(* socket_creator(address): succeeds if somebody listens there.  The first *)
(* failure leads to one more attempt after backoff_duration_ms; the second *)
(* throws.  Under Prompt the backoff outlasts the steps that a session     *)
(* which was told to disconnect takes to listen.                           *)
(***************************************************************************)
(* mutant: no second attempt *)
NeverDialAgain(s) == FALSE

MayDialAgain(s) == pc[s] = "dial"

ListensSoon(p) == pc[p] \in {"registered", "peer", "bind"}

DialPeer(s) ==
  LET address == punched_peer[s].address IN
  /\ pc[s] \in {"dial", "redial"}
  /\ pc[s] = "redial" /\ Prompt => ~ListensSoon(address)
  /\ \/ /\ listener[address] # None
        /\ Establish(ClientEnd(s))
        /\ dial' = [dial EXCEPT ![s] = listener[address]]
        /\ Go(s, "dialled")
        /\ UNCHANGED <<inbox, verdict, advertise_retries, connected,
                       punched_peer, peer_disconnect, secret, mediatorUp,
                       nonce, accepted, listener, callbacks>>
     \/ /\ listener[address] = None \/ "refuse" \in Faults
        /\ \/ /\ MayDialAgain(s)
              /\ Go(s, "redial")
              /\ UNCHANGED <<netVars, verdict, advertise_retries, connected,
                             punched_peer, peer_disconnect, secret,
                             mediatorUp, peerVars>>
           \/ /\ ~MayDialAgain(s)
              /\ Throw(s, "kErrorUnknown")
              /\ UNCHANGED callbacks

SendPeerChallenge(s) ==
  /\ pc[s] = "dialled"
  /\ \E n \in Nonce :
       /\ nonce' = [nonce EXCEPT ![s] = n]
       /\ Send(ClientEnd(s), PeerChallenge(Encrypt(Wants[s], n)))
  /\ Go(s, "challenging")
  /\ UNCHANGED <<open, verdict, advertise_retries, connected, punched_peer,
                 peer_disconnect, secret, mediatorUp, dial, accepted,
                 listener, callbacks>>

ReceivePeerChallengeResponse(s) ==
  /\ pc[s] = "challenging"
  /\ Readable(ClientEnd(s), "PeerChallengeResponse")
  /\ LET m  == Head(inbox[ClientEnd(s)])
         ok == m.nonce = nonce[s] /\ CanDecrypt(KeyOf[s], m.encrypted_nonce)
     IN \/ /\ ok
           /\ secret' = [secret EXCEPT ![s] = Decrypt(m.encrypted_nonce)]
           /\ Receive(ClientEnd(s))
           /\ Go(s, "answering")
           /\ UNCHANGED <<open, verdict, advertise_retries, connected,
                          punched_peer, peer_disconnect, mediatorUp, peerVars>>
        \/ /\ ~ok
           /\ Throw(s, "kErrorUnknown")
           /\ UNCHANGED callbacks

(* mutant: the Client does not wait for the acknowledgement *)
SendPeerResponseAndReturn(s) ==
  /\ pc[s] = "answering"
  /\ Send(ClientEnd(s), PeerResponse(secret[s]))
  /\ verdict' = [verdict EXCEPT ![s] = "socket"]
  /\ Go(s, "returning")
  /\ UNCHANGED <<open, advertise_retries, connected, punched_peer,
                 peer_disconnect, secret, mediatorUp, peerVars>>

SendPeerResponse(s) ==
  /\ pc[s] = "answering"
  /\ Send(ClientEnd(s), PeerResponse(secret[s]))
  /\ Go(s, "answered")
  /\ UNCHANGED <<open, verdict, advertise_retries, connected, punched_peer,
                 peer_disconnect, secret, mediatorUp, peerVars>>

ReceivePeerAcknowledgement(s) ==
  /\ pc[s] = "answered"
  /\ Readable(ClientEnd(s), "PeerAcknowledgement")
  /\ Receive(ClientEnd(s))
  /\ verdict' = [verdict EXCEPT ![s] = "socket"]
  /\ Go(s, "returning")
  /\ UNCHANGED <<open, advertise_retries, connected, punched_peer,
                 peer_disconnect, secret, mediatorUp, peerVars>>
-----------------------------------------------------------------------------
(* _connect_as_peer *)

CloseMediatorAsPeer(s) ==
  /\ pc[s] = "peer"
  /\ open' = [open EXCEPT ![MedEnd(s)] = FALSE]
  /\ Go(s, "bind")
  /\ UNCHANGED <<inbox, verdict, advertise_retries, connected, punched_peer,
                 peer_disconnect, secret, mediatorUp, peerVars>>

(***************************************************************************)
(* The constructor of LocalListeningSocket.  A port on which another       *)
(* socket listens cannot be bound.  When setsockopt fails, the constructor *)
(* throws a pointer, which only catch (...) of _handle_connection catches: *)
(* it logs and does not call the callback.                                 *)
(***************************************************************************)
Listen(s) ==
  LET address == peer_disconnect[s] IN
  /\ pc[s] = "bind"
  /\ \/ /\ listener[address] = None
        /\ listener' = [listener EXCEPT ![address] = s]
        /\ Go(s, "accept")
        /\ UNCHANGED <<netVars, verdict, advertise_retries, connected,
                       punched_peer, peer_disconnect, secret, mediatorUp,
                       nonce, dial, accepted, callbacks>>
     \/ /\ listener[address] # None \/ "bind" \in Faults
        /\ Throw(s, "kErrorUnknown")
        /\ UNCHANGED callbacks
     \/ /\ "reuseaddr" \in Faults
        /\ Go(s, "silent")
        /\ UNCHANGED <<netVars, verdict, advertise_retries, connected,
                       punched_peer, peer_disconnect, secret, mediatorUp,
                       peerVars>>

(***************************************************************************)
(* A process ends without the callback having been called (again): it is   *)
(* killed, or it fails on its own.  The kernel closes its sockets.         *)
(***************************************************************************)
Die(s) ==
  /\ Go(s, "died")
  /\ CloseAll(s)
  /\ StopListening(s)
  /\ UNCHANGED <<inbox, verdict, advertise_retries, connected, punched_peer,
                 peer_disconnect, secret, mediatorUp, nonce, dial, accepted>>

(***************************************************************************)
(* accept() blocks until a connection is in the backlog, whoever dialled   *)
(* it.  If ::accept fails it returns a null pointer, which                 *)
(* receive_and_log dereferences.                                           *)
(***************************************************************************)
Accept(s) ==
  /\ pc[s] = "accept"
  /\ \/ \E c \in Session :
          /\ dial[c] = s
          /\ accepted' = [accepted EXCEPT ![s] = c]
          /\ Go(s, "accepted")
          /\ UNCHANGED <<netVars, verdict, advertise_retries, connected,
                         punched_peer, peer_disconnect, secret, mediatorUp,
                         nonce, dial, listener, callbacks>>
     \/ /\ "accept" \in Faults
        /\ Die(s)
        /\ UNCHANGED callbacks

ReceivePeerChallenge(s) ==
  /\ pc[s] = "accepted"
  /\ Readable(P2pEnd(s), "PeerChallenge")
  /\ LET m == Head(inbox[P2pEnd(s)]) IN
     \/ /\ CanDecrypt(KeyOf[s], m.encrypted_nonce)
        /\ secret' = [secret EXCEPT ![s] = Decrypt(m.encrypted_nonce)]
        /\ Receive(P2pEnd(s))
        /\ Go(s, "replying")
        /\ UNCHANGED <<open, verdict, advertise_retries, connected,
                       punched_peer, peer_disconnect, mediatorUp, peerVars>>
     \/ /\ ~CanDecrypt(KeyOf[s], m.encrypted_nonce)
        /\ Throw(s, "kErrorUnknown")
        /\ UNCHANGED callbacks

SendPeerChallengeResponse(s) ==
  /\ pc[s] = "replying"
  /\ \E n \in Nonce :
       /\ nonce' = [nonce EXCEPT ![s] = n]
       /\ Send(P2pEnd(s), PeerChallengeResponse(Encrypt(Wants[s], n), secret[s]))
  /\ Go(s, "replied")
  /\ UNCHANGED <<open, verdict, advertise_retries, connected, punched_peer,
                 peer_disconnect, secret, mediatorUp, dial, accepted,
                 listener, callbacks>>

ReceivePeerResponse(s) ==
  /\ pc[s] = "replied"
  /\ Readable(P2pEnd(s), "PeerResponse")
  /\ \/ /\ Head(inbox[P2pEnd(s)]).nonce = nonce[s]
        /\ Receive(P2pEnd(s))
        /\ Go(s, "acking")
        /\ UNCHANGED <<open, verdict, advertise_retries, connected,
                       punched_peer, peer_disconnect, secret, mediatorUp,
                       peerVars>>
     \/ /\ Head(inbox[P2pEnd(s)]).nonce # nonce[s]
        /\ Throw(s, "kErrorUnknown")
        /\ UNCHANGED callbacks

(***************************************************************************)
(* The Peer has verified the Client as soon as it has sent the             *)
(* acknowledgement.  Returning destroys the listening socket, which resets *)
(* the connections that are still in its backlog.                          *)
(***************************************************************************)
SendPeerAcknowledgement(s) ==
  /\ pc[s] = "acking"
  /\ Send(P2pEnd(s), PeerAcknowledgement)
  /\ verdict' = [verdict EXCEPT ![s] = "socket"]
  /\ Go(s, "returning")
  /\ StopListening(s)
  /\ open' = [e \in Endpoint |->
       open[e] /\ ~\E c \in Session \ {accepted[s]} : dial[c] = s /\ e = PeerEnd(c)]
  /\ UNCHANGED <<advertise_retries, connected, punched_peer, peer_disconnect,
                 secret, mediatorUp, nonce, dial, accepted, callbacks>>
-----------------------------------------------------------------------------
(***************************************************************************)
(* The other end has gone, or sent something that does not decode.         *)
(***************************************************************************)
(* mutant: the Client decodes the acknowledgement as a PeerResponse *)
AwaitedWrong(location) ==
  CASE location = "challenging" -> "PeerChallengeResponse"
    [] location = "answered"    -> "PeerResponse"
    [] location = "accepted"    -> "PeerChallenge"
    [] location = "replied"     -> "PeerResponse"

Awaited(location) ==
  CASE location = "challenging" -> "PeerChallengeResponse"
    [] location = "answered"    -> "PeerAcknowledgement"
    [] location = "accepted"    -> "PeerChallenge"
    [] location = "replied"     -> "PeerResponse"

LosePeer(s) ==
  /\ \/ /\ pc[s] \in {"challenging", "answered", "accepted", "replied"}
        /\ AtEof(P2pEnd(s)) \/ Undecodable(P2pEnd(s), Awaited(pc[s]))
     \/ /\ pc[s] \in {"dialled", "answering", "replying", "acking"}
        /\ SendMayThrow(P2pEnd(s))
  /\ Throw(s, "kErrorUnknown")
  /\ UNCHANGED callbacks

(***************************************************************************)
(* _handle_connection calls the callback with the socket or the error.     *)
(* The callback may send on the socket at once (as README.md does).  The   *)
(* successful call is made inside the try block, so a callback that throws *)
(* a std::exception then is called again with kErrorUnknown; one that      *)
(* throws when it is called with an error ends the process.                *)
(***************************************************************************)
Called(s) == callbacks' = [callbacks EXCEPT ![s] = Append(@, verdict[s])]

Callback(s) ==
  /\ pc[s] = "returning"
  /\ Called(s)
  /\ Go(s, "done")
  /\ IF verdict[s] = "socket" /\ Role(s) \in TalkRoles
       THEN Send(P2pEnd(s), ApplicationData)
       ELSE UNCHANGED inbox
  /\ UNCHANGED <<open, verdict, advertise_retries, connected, punched_peer,
                 peer_disconnect, secret, mediatorUp, nonce, dial, accepted,
                 listener>>

CallbackThrows(s) ==
  /\ pc[s] = "returning"
  /\ "callback" \in Faults
  /\ Called(s)
  /\ \/ verdict[s] = "socket" /\ Throw(s, "kErrorUnknown")
     \/ verdict[s] # "socket" /\ Die(s)

Crash(s) ==
  /\ "crash" \in Faults
  /\ pc[s] \in MediatorStage \cup PeerStage \cup {"returning"}
  /\ Die(s)
  /\ UNCHANGED callbacks

PeerHandshake(s) ==
  \/ CloseMediatorAsClient(s)
  \/ DialPeer(s)
  \/ SendPeerChallenge(s)
  \/ ReceivePeerChallengeResponse(s)
  \/ SendPeerResponse(s)
  \/ ReceivePeerAcknowledgement(s)
  \/ CloseMediatorAsPeer(s)
  \/ Listen(s)
  \/ Accept(s)
  \/ ReceivePeerChallenge(s)
  \/ SendPeerChallengeResponse(s)
  \/ ReceivePeerResponse(s)
  \/ SendPeerAcknowledgement(s)
  \/ LosePeer(s)
  \/ Callback(s)
  \/ CallbackThrows(s)

(* A step of the session's thread. *)
Thread(s) ==
  \/ MediatorConnect(s) /\ UNCHANGED peerVars
  \/ PeerHandshake(s)
-----------------------------------------------------------------------------
(* Properties of every system of sessions, whoever plays the Mediator. *)

GotSocket(s) ==
  verdict[s] = "socket" \/ \E i \in DOMAIN callbacks[s] : callbacks[s][i] = "socket"

Partner(s) == IF Role(s) = "client" THEN dial[s] ELSE accepted[s]

(***************************************************************************)
(* A session that returns a socket is connected to a session that holds    *)
(* the private key of the Peer it asked for.  The address it dialled, or   *)
(* the connection it accepted, may be anybody's: what counts is the        *)
(* exchange of nonces in _connect_as_client and _connect_as_peer.          *)
(***************************************************************************)
Authenticated ==
  \A s \in Session : GotSocket(s) =>
    Partner(s) # None /\ KeyOf[Partner(s)] = Wants[s]

(***************************************************************************)
(* When _connect_as_client returns a socket, _connect_as_peer has returned *)
(* the other end of the same connection: the acknowledgement that the      *)
(* Client read was sent by a Peer that had verified this very Client,      *)
(* although decode<PeerAcknowledgement> would accept any message.          *)
(***************************************************************************)
ClientImpliesPeer ==
  \A c \in Session : GotSocket(c) /\ Role(c) = "client" =>
    LET p == dial[c] IN
    p # None /\ GotSocket(p) /\ Role(p) = "peer" /\ accepted[p] = c

(***************************************************************************)
(* A Peer that has acknowledged its Client is not left alone: the Client   *)
(* does not report an error instead of a socket.                           *)
(***************************************************************************)
PeerImpliesClient ==
  \A p \in Session :
    /\ GotSocket(p) /\ Role(p) = "peer"
    /\ verdict[accepted[p]] \in ErrorKind
    => GotSocket(accepted[p])

(***************************************************************************)
(* The callback of a session is called at most once, with a socket or with *)
(* an error.                                                               *)
(***************************************************************************)
CalledAtMostOnce == \A s \in Session : Len(callbacks[s]) <= 1

(***************************************************************************)
(* The error kind tells how far the session came: a failure to reach the   *)
(* Mediator is reported only by a session that was never told a role, and  *)
(* an unsupported version only by a Client that has not dialled.           *)
(***************************************************************************)
ErrorKindIsTruthful ==
  \A s \in Session :
    /\ verdict[s] = "kErrorMediatorConnectFailure" =>
         punched_peer[s] = None /\ peer_disconnect[s] = None
    /\ verdict[s] = "kErrorPeerUnsupportedProtocolVersion" =>
         /\ punched_peer[s] # None
         /\ punched_peer[s].version # kVersion[s]
         /\ dial[s] = None

(***************************************************************************)
(* The assertions behind MediatorConnection::close_socket and              *)
(* Socket::close hold when a session closes its Mediator socket, and the   *)
(* session has exactly one role.                                           *)
(***************************************************************************)
CloseIsLegal ==
  \A s \in Session : pc[s] \in {"client", "peer"} =>
    /\ connected[s]
    /\ open[MedEnd(s)]
    /\ (punched_peer[s] = None) # (peer_disconnect[s] = None)

(***************************************************************************)
(* _connect returns and the callback is called as module Rendezvous        *)
(* allows: a Peer verifies a Client when it has sent the acknowledgement,  *)
(* and a Client confirms its Peer when it has read it.                     *)
(***************************************************************************)
As(role, s, other) ==
  IF GotSocket(s) /\ Role(s) = role THEN other ELSE None

Promise == INSTANCE Rendezvous
  WITH verified  <- [p \in Session |-> As("peer", p, accepted[p])],
       confirmed <- [c \in Session |-> As("client", c, dial[c])],
       reports   <- callbacks

PromiseIsKept == Promise!RendezvousSpec

(***************************************************************************)
(* Every Peer handshake that has a connection ends, and so does its thread *)
(* (a session runs once), whatever happens to the other side: nobody waits *)
(* in receive() for a session that has failed or died, because both close  *)
(* the sockets.                                                            *)
(***************************************************************************)
Handshaking == {"dialled", "challenging", "answering", "answered",
                "accepted", "replying", "replied", "acking"}

HandshakeTerminates ==
  <>[](\A s \in Session : pc[s] \notin Handshaking \cup {"returning"})
=============================================================================
