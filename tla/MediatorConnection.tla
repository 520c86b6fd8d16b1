-------------------------- MODULE MediatorConnection --------------------------
(***************************************************************************)
(* MediatorConnection::connect (src/mediator_connection.cpp): the          *)
(* handshake of a session with the Mediator, up to the message that tells  *)
(* it whether it is the Client or the Peer.  Whoever answers on the other  *)
(* side of MedEnd(s) is left to the modules that extend this one.          *)
(***************************************************************************)
EXTENDS Network

CONSTANTS KeyOf,                  \* our_keypair of a session
          Wants,                  \* peer.public_key of a session
          kVersion,               \* kVersion of the build a session runs
          MAX_ADVERTISE_RETRIES,
          Faults                  \* what may go wrong outside the program

FaultKind == {"refuse", "bind", "reuseaddr", "accept", "callback", "crash"}

ASSUME SessionAssumption ==
  /\ KeyOf \in [Session -> Key] /\ Wants \in [Session -> Key]
  /\ kVersion \in [Session -> Version] /\ Version \subseteq Nat
  /\ MAX_ADVERTISE_RETRIES \in Nat
  /\ Faults \subseteq FaultKind

VARIABLES pc,                \* where the thread of _handle_connection is
          verdict,           \* what _connect returned or threw
          advertise_retries,
          connected,         \* _connected
          punched_peer,      \* _punched_peer
          peer_disconnect,   \* _peer_disconnect: the port to listen on
          secret,            \* the nonce that the session decrypted last
          mediatorUp         \* the Mediator's listening socket is open

medVars == <<pc, verdict, advertise_retries, connected, punched_peer,
             peer_disconnect, secret, mediatorUp>>

MediatorStage == {"mediator", "advertise", "advertised", "challenged",
                  "registered"}

PeerStage == {"client", "dial", "redial", "dialled", "challenging",
              "answering", "answered", "peer", "bind", "accept", "accepted",
              "replying", "replied", "acking"}

Location == MediatorStage \cup PeerStage
              \cup {"idle", "returning", "done", "silent", "died"}

ErrorKind == {"kErrorUnknown", "kErrorPeerUnsupportedProtocolVersion",
              "kErrorMediatorConnectFailure"}

PunchedPeer == [address : Address, version : Version]

ASSUME AbsentAssumption ==
  None \notin PunchedPeer /\ None \notin ErrorKind \cup {"socket"}

MediatorConnectionTypeOK ==
  /\ pc \in [Session -> Location]
  /\ verdict \in [Session -> ErrorKind \cup {"socket", None}]
  /\ advertise_retries \in [Session -> 0 .. MAX_ADVERTISE_RETRIES]
  /\ connected \in [Session -> BOOLEAN]
  /\ punched_peer \in [Session -> PunchedPeer \cup {None}]
  /\ peer_disconnect \in [Session -> Address \cup {None}]
  /\ secret \in [Session -> Nonce \cup {None}]
  /\ mediatorUp \in BOOLEAN

MediatorConnectionInit ==
  /\ pc = [s \in Session |-> "idle"]
  /\ verdict = [s \in Session |-> None]
  /\ advertise_retries = [s \in Session |-> 0]
  /\ connected = [s \in Session |-> FALSE]
  /\ punched_peer = [s \in Session |-> None]
  /\ peer_disconnect = [s \in Session |-> None]
  /\ secret = [s \in Session |-> None]
  /\ mediatorUp = TRUE
-----------------------------------------------------------------------------
Go(s, location) == pc' = [pc EXCEPT ![s] = location]

(***************************************************************************)
(* An exception leaves MediatorConnection::connect.  Unwinding _connect    *)
(* destroys the MediatorConnection and closes its socket.  _connect turns  *)
(* a SocketException into kErrorMediatorConnectFailure; the other          *)
(* exceptions reach _handle_connection, which reports kErrorUnknown.       *)
(***************************************************************************)
MediatorThrow(s, kind) ==
  /\ verdict' = [verdict EXCEPT ![s] = kind]
  /\ open' = [open EXCEPT ![MedEnd(s)] = FALSE]
  /\ Go(s, "returning")
  /\ UNCHANGED <<inbox, advertise_retries, connected, punched_peer,
                 peer_disconnect, secret, mediatorUp>>

DialMediator(s) ==
  /\ pc[s] = "mediator"
  /\ \/ /\ mediatorUp
        /\ Establish(MedEnd(s))
        /\ Go(s, "advertise")
        /\ UNCHANGED <<inbox, verdict, advertise_retries, connected,
                       punched_peer, peer_disconnect, secret, mediatorUp>>
     \/ /\ ~mediatorUp \/ "refuse" \in Faults
        /\ MediatorThrow(s, "kErrorMediatorConnectFailure")

SendAdvertise(s) ==
  /\ pc[s] = "advertise"
  /\ Send(MedEnd(s), Advertise(kVersion[s], KeyOf[s], Wants[s]))
  /\ Go(s, "advertised")
  /\ UNCHANGED <<open, verdict, advertise_retries, connected, punched_peer,
                 peer_disconnect, secret, mediatorUp>>

(* mutant: one retry too many *)
RetriesExhaustedLate(s) == advertise_retries[s] > MAX_ADVERTISE_RETRIES

RetriesExhausted(s) == advertise_retries[s] = MAX_ADVERTISE_RETRIES

(***************************************************************************)
(* AdvertiseRetry: the session advertises again unless it has already      *)
(* retried MAX_ADVERTISE_RETRIES times.                                    *)
(***************************************************************************)
ReceiveAdvertiseRetry(s) ==
  /\ pc[s] = "advertised"
  /\ ReadableAnyType(MedEnd(s))
  /\ Head(inbox[MedEnd(s)]).type = "AdvertiseRetry"
  /\ \/ /\ RetriesExhausted(s)
        /\ MediatorThrow(s, "kErrorUnknown")
     \/ /\ ~RetriesExhausted(s)
        /\ advertise_retries' = [advertise_retries EXCEPT ![s] = @ + 1]
        /\ Receive(MedEnd(s))
        /\ Go(s, "advertise")
        /\ UNCHANGED <<open, verdict, connected, punched_peer,
                       peer_disconnect, secret, mediatorUp>>

ReceiveAdvertiseChallenge(s) ==
  /\ pc[s] = "advertised"
  /\ ReadableAnyType(MedEnd(s))
  /\ LET m == Head(inbox[MedEnd(s)]) IN
     /\ m.type = "AdvertiseChallenge"
     /\ \/ /\ CanDecrypt(KeyOf[s], m.encrypted_nonce)
           /\ secret' = [secret EXCEPT ![s] = Decrypt(m.encrypted_nonce)]
           /\ Receive(MedEnd(s))
           /\ Go(s, "challenged")
           /\ UNCHANGED <<open, verdict, advertise_retries, connected,
                          punched_peer, peer_disconnect, mediatorUp>>
        \/ /\ ~CanDecrypt(KeyOf[s], m.encrypted_nonce)
           /\ MediatorThrow(s, "kErrorUnknown")

SendAdvertiseResponse(s) ==
  /\ pc[s] = "challenged"
  /\ Send(MedEnd(s), AdvertiseResponse(secret[s]))
  /\ Go(s, "registered")
  /\ UNCHANGED <<open, verdict, advertise_retries, connected, punched_peer,
                 peer_disconnect, secret, mediatorUp>>

(***************************************************************************)
(* The last message: PeerIdentification makes the session the Client,      *)
(* PeerDisconnect makes it the Peer.                                       *)
(***************************************************************************)
ReceivePeerIdentification(s) ==
  /\ pc[s] = "registered"
  /\ ReadableAnyType(MedEnd(s))
  /\ LET m == Head(inbox[MedEnd(s)]) IN
     /\ m.type = "PeerIdentification"
     /\ punched_peer' = [punched_peer EXCEPT ![s] =
          [address |-> m.address, version |-> m.version]]
  /\ connected' = [connected EXCEPT ![s] = TRUE]
  /\ Receive(MedEnd(s))
  /\ Go(s, "client")
  /\ UNCHANGED <<open, verdict, advertise_retries, peer_disconnect, secret,
                 mediatorUp>>

(* mutant: _connected is not set *)
ReceivePeerDisconnectUnconnected(s) ==
  /\ pc[s] = "registered"
  /\ ReadableAnyType(MedEnd(s))
  /\ LET m == Head(inbox[MedEnd(s)]) IN
     /\ m.type = "PeerDisconnect"
     /\ peer_disconnect' = [peer_disconnect EXCEPT ![s] = m.address]
  /\ Receive(MedEnd(s))
  /\ Go(s, "peer")
  /\ UNCHANGED <<open, verdict, advertise_retries, connected, punched_peer,
                 secret, mediatorUp>>

ReceivePeerDisconnect(s) ==
  /\ pc[s] = "registered"
  /\ ReadableAnyType(MedEnd(s))
  /\ LET m == Head(inbox[MedEnd(s)]) IN
     /\ m.type = "PeerDisconnect"
     /\ peer_disconnect' = [peer_disconnect EXCEPT ![s] = m.address]
  /\ connected' = [connected EXCEPT ![s] = TRUE]
  /\ Receive(MedEnd(s))
  /\ Go(s, "peer")
  /\ UNCHANGED <<open, verdict, advertise_retries, punched_peer, secret,
                 mediatorUp>>

(***************************************************************************)
(* Everything else that can be read ends in kErrorUnknown: AdvertiseAbort  *)
(* and unexpected types throw in connect; after the AdvertiseResponse an   *)
(* unexpected type is only logged, connect returns with neither optional   *)
(* set, and _connect throws; text that does not decode throws a            *)
(* MessageException.                                                       *)
(***************************************************************************)
Expected(location) ==
  IF location = "advertised"
    THEN {"AdvertiseRetry", "AdvertiseChallenge"}
    ELSE {"PeerIdentification", "PeerDisconnect"}

ReceiveUnexpected(s) ==
  /\ pc[s] \in {"advertised", "registered"}
  /\ \/ UndecodableType(MedEnd(s))
     \/ /\ ReadableAnyType(MedEnd(s))
        /\ Head(inbox[MedEnd(s)]).type \notin Expected(pc[s])
  /\ MediatorThrow(s, "kErrorUnknown")

(* mutant: the end of the stream is no error to receive() *)
LoseMediatorInSend(s) ==
  /\ pc[s] \in {"advertise", "challenged"} /\ SendMayThrow(MedEnd(s))
  /\ MediatorThrow(s, "kErrorMediatorConnectFailure")

LoseMediator(s) ==
  /\ \/ pc[s] \in {"advertised", "registered"} /\ AtEof(MedEnd(s))
     \/ pc[s] \in {"advertise", "challenged"} /\ SendMayThrow(MedEnd(s))
  /\ MediatorThrow(s, "kErrorMediatorConnectFailure")

MediatorConnect(s) ==
  \/ DialMediator(s)
  \/ SendAdvertise(s)
  \/ ReceiveAdvertiseRetry(s)
  \/ ReceiveAdvertiseChallenge(s)
  \/ SendAdvertiseResponse(s)
  \/ ReceivePeerIdentification(s)
  \/ ReceivePeerDisconnect(s)
  \/ ReceiveUnexpected(s)
  \/ LoseMediator(s)
=============================================================================
