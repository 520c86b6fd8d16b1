----------------------------- MODULE FakeMediator -----------------------------
(***************************************************************************)
(* The Mediator of the repository (integration/src/util/fake_mediator.cpp) *)
(* with its KeyToIdentifierStore: one handler thread per connection, a     *)
(* map from public keys to the address and version registered under them,  *)
(* and the set of sessions whose PeerDisconnect has been sent.             *)
(***************************************************************************)
EXTENDS Connection

CONSTANTS protocol_version,  \* _protocol_version: kVersion of its build
          MediatorNonce,     \* the constant nonce 1337
          QuitAfter,         \* the values _quit_after may have
          LatePeers          \* a peer may come later than await's timeout

ASSUME MediatorAssumption ==
  /\ protocol_version \in Version
  /\ MediatorNonce \in Nonce
  /\ QuitAfter \subseteq MessageType \cup {None} /\ None \notin MessageType
  /\ LatePeers \in BOOLEAN

VARIABLES handler,     \* where the handler thread of a session is
          advertise,   \* the Advertise it received
          store,       \* _store of the KeyToIdentifierStore
          awaited,     \* what await returned to the handler
          completed,   \* _completed_disconnects
          quit_after   \* _quit_after

handlerVars == <<handler, advertise, store, awaited, completed,
                 quit_after>>

Running == {"advertise", "abort", "challenge", "response", "lookup",
            "putClient", "await", "waitDisconnect", "identify",
            "putPeer", "disconnect", "addDisconnect"}

(* How a handler has returned. *)
Returned == {"quit", "aborted", "gaveUp", "identified", "disconnected"}

PeerIdentifier == [address : Address, version : Version]

FakeMediatorTypeOK ==
  /\ handler \in [Session -> Running \cup Returned \cup {"none"}]
  /\ advertise \in [Session -> Message]
  /\ store \in [Key -> PeerIdentifier \cup {None}]
  /\ awaited \in [Session -> PeerIdentifier \cup {None}]
  /\ completed \subseteq Address
  /\ quit_after \in QuitAfter

FakeMediatorInit ==
  /\ handler = [s \in Session |-> "none"]
  /\ advertise = [s \in Session |-> Blank]
  /\ store = [k \in Key |-> None]
  /\ awaited = [s \in Session |-> None]
  /\ completed = {}
  /\ quit_after \in QuitAfter
-----------------------------------------------------------------------------
HandlerGo(s, location) == handler' = [handler EXCEPT ![s] = location]

(* The handler returns and its socket is destroyed. *)
Return(s, how) ==
  /\ HandlerGo(s, how)
  /\ open' = [open EXCEPT ![HandlerEnd(s)] = FALSE]

(* QUIT_IF_REQUESTED(type), then go on to location. *)
QuitOr(s, type, location) ==
  IF quit_after = type THEN Return(s, "quit")
                       ELSE HandlerGo(s, location) /\ UNCHANGED open

(* _run accepts the connection and starts a handler for it. *)
HandlerAccept(s) ==
  /\ mediatorUp
  /\ handler[s] = "none"
  /\ open[HandlerEnd(s)]
  /\ HandlerGo(s, "advertise")
  /\ UNCHANGED <<sessionVars, advertise, store, awaited, completed,
                 quit_after>>

HandlerReceiveAdvertise(s) ==
  /\ handler[s] = "advertise"
  /\ Readable(HandlerEnd(s), "Advertise")
  /\ Receive(HandlerEnd(s))
  /\ LET m == Head(inbox[HandlerEnd(s)]) IN
     /\ advertise' = [advertise EXCEPT ![s] = m]
     /\ QuitOr(s, "Advertise",
          IF m.version < protocol_version THEN "abort" ELSE "challenge")
  /\ UNCHANGED <<medVars, peerVars, store, awaited, completed,
                 quit_after>>

HandlerSendAbort(s) ==
  /\ handler[s] = "abort"
  /\ Send(HandlerEnd(s), AdvertiseAbort)
  /\ Return(s, "aborted")
  /\ UNCHANGED <<medVars, peerVars, advertise, store, awaited,
                 completed, quit_after>>

(* mutant: the nonce is encrypted with the other key of the Advertise *)
HandlerChallengeTheirKey(s) ==
  /\ handler[s] = "challenge"
  /\ Send(HandlerEnd(s),
          AdvertiseChallenge(Encrypt(advertise[s].their_key, MediatorNonce)))
  /\ QuitOr(s, "AdvertiseChallenge", "response")
  /\ UNCHANGED <<medVars, peerVars, advertise, store, awaited, completed,
                 quit_after>>

HandlerSendChallenge(s) ==
  /\ handler[s] = "challenge"
  /\ Send(HandlerEnd(s),
          AdvertiseChallenge(Encrypt(advertise[s].our_key, MediatorNonce)))
  /\ QuitOr(s, "AdvertiseChallenge", "response")
  /\ UNCHANGED <<medVars, peerVars, advertise, store, awaited,
                 completed, quit_after>>

(* The nonce of the response is not looked at. *)
HandlerReceiveResponse(s) ==
  /\ handler[s] = "response"
  /\ Readable(HandlerEnd(s), "AdvertiseResponse")
  /\ Receive(HandlerEnd(s))
  /\ QuitOr(s, "AdvertiseResponse", "lookup")
  /\ UNCHANGED <<medVars, peerVars, advertise, store, awaited,
                 completed, quit_after>>
-----------------------------------------------------------------------------
(* KeyToIdentifierStore *)

(***************************************************************************)
(* get(their_key).  The lock is released before the handler acts on what   *)
(* it found.                                                               *)
(***************************************************************************)
HandlerGet(s) ==
  /\ handler[s] = "lookup"
  /\ HandlerGo(s, IF store[advertise[s].their_key] = None THEN "putClient"
                                                          ELSE "putPeer")
  /\ UNCHANGED <<sessionVars, advertise, store, awaited, completed,
                 quit_after>>

(* mutant: the entry is the address alone *)
PutAddress(key, identifier) ==
  store' = [store EXCEPT ![key] = IF @ = None THEN identifier.address ELSE @]

(***************************************************************************)
(* put(our_key, ...): map::insert keeps an entry that is already there.    *)
(***************************************************************************)
Put(key, identifier) ==
  store' = [store EXCEPT ![key] = IF @ = None THEN identifier ELSE @]

HandlerPut(s) ==
  /\ handler[s] \in {"putClient", "putPeer"}
  /\ Put(advertise[s].our_key,
         [address |-> s, version |-> advertise[s].version])
  /\ HandlerGo(s, IF handler[s] = "putClient" THEN "await" ELSE "disconnect")
  /\ UNCHANGED <<sessionVars, advertise, awaited, completed, quit_after>>

(***************************************************************************)
(* await(their_key, 2000): wait_for ends, after a put or at its timeout,   *)
(* and the key is in the map.  When nothing notifies the handler the       *)
(* timeout still makes it look, so a missed notification only costs time.  *)
(***************************************************************************)
HandlerAwaitFound(s) ==
  /\ handler[s] = "await"
  /\ store[advertise[s].their_key] # None
  /\ awaited' = [awaited EXCEPT ![s] = store[advertise[s].their_key]]
  /\ HandlerGo(s, "waitDisconnect")
  /\ UNCHANGED <<sessionVars, advertise, store, completed, quit_after>>

(* The time is up and the key is not there: the handler gives up. *)
HandlerAwaitTimeout(s) ==
  /\ mediatorUp
  /\ handler[s] = "await"
  /\ LatePeers
  /\ store[advertise[s].their_key] = None
  /\ Return(s, "gaveUp")
  /\ UNCHANGED <<inbox, medVars, peerVars, advertise, store, awaited,
                 completed, quit_after>>
-----------------------------------------------------------------------------
(* mutant: the wait has no predicate *)
DisconnectAssumed(address) == TRUE

DisconnectSent(address) == address \in completed

(* mutant: the disconnect is not erased *)
KeepDisconnect(address) == UNCHANGED completed

EraseDisconnect(address) == completed' = completed \ {address}

(* The registered Client waits until the Peer's PeerDisconnect is sent. *)
HandlerWaitForDisconnect(s) ==
  /\ handler[s] = "waitDisconnect"
  /\ DisconnectSent(awaited[s].address)
  /\ EraseDisconnect(awaited[s].address)
  /\ HandlerGo(s, "identify")
  /\ UNCHANGED <<sessionVars, advertise, store, awaited, quit_after>>

HandlerSendIdentification(s) ==
  /\ handler[s] = "identify"
  /\ Send(HandlerEnd(s),
          PeerIdentification(awaited[s].version, awaited[s].address))
  /\ Return(s, "identified")
  /\ UNCHANGED <<medVars, peerVars, advertise, store, awaited,
                 completed, quit_after>>

HandlerSendDisconnect(s) ==
  /\ handler[s] = "disconnect"
  /\ Send(HandlerEnd(s), PeerDisconnect(s))
  /\ HandlerGo(s, "addDisconnect")
  /\ UNCHANGED <<open, medVars, peerVars, advertise, store, awaited,
                 completed, quit_after>>

(* mutant: the disconnect is not recorded *)
HandlerForgetDisconnect(s) ==
  /\ handler[s] = "addDisconnect"
  /\ Return(s, "disconnected")
  /\ UNCHANGED <<inbox, medVars, peerVars, advertise, store, awaited,
                 completed, quit_after>>

HandlerAddDisconnect(s) ==
  /\ handler[s] = "addDisconnect"
  /\ completed' = completed \cup {s}
  /\ Return(s, "disconnected")
  /\ UNCHANGED <<inbox, medVars, peerVars, advertise, store, awaited,
                 quit_after>>

(***************************************************************************)
(* An exception leaves a handler thread: std::terminate.  It ends every    *)
(* handler and closes all sockets of the Mediator.                         *)
(***************************************************************************)
HandlerThrow(s) ==
  /\ mediatorUp
  /\ \/ /\ handler[s] = "advertise"
        /\ AtEof(HandlerEnd(s)) \/ Undecodable(HandlerEnd(s), "Advertise")
     \/ /\ handler[s] = "response"
        /\ AtEof(HandlerEnd(s)) \/ Undecodable(HandlerEnd(s), "AdvertiseResponse")
     \/ /\ handler[s] \in {"abort", "challenge", "identify", "disconnect"}
        /\ SendMayThrow(HandlerEnd(s))
  /\ mediatorUp' = FALSE
  /\ open' = [e \in Endpoint |-> open[e] /\ ~\E t \in Session : e = HandlerEnd(t)]
  /\ UNCHANGED <<inbox, pc, verdict, advertise_retries, connected,
                 punched_peer, peer_disconnect, secret, peerVars, handlerVars>>

Handler(s) ==
  \/ mediatorUp /\ \/ HandlerAccept(s)
                   \/ HandlerReceiveAdvertise(s)
                   \/ HandlerSendAbort(s)
                   \/ HandlerSendChallenge(s)
                   \/ HandlerReceiveResponse(s)
                   \/ HandlerGet(s)
                   \/ HandlerPut(s)
                   \/ HandlerAwaitFound(s)
                   \/ HandlerWaitForDisconnect(s)
                   \/ HandlerSendIdentification(s)
                   \/ HandlerSendDisconnect(s)
                   \/ HandlerAddDisconnect(s)
  \/ HandlerThrow(s)
=============================================================================
