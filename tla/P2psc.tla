-------------------------------- MODULE P2psc --------------------------------
(***************************************************************************)
(* The whole system: sessions that connect to each other through the       *)
(* FakeMediator.                                                           *)
(***************************************************************************)
EXTENDS FakeMediator

CONSTANT Staggered   \* the caller starts one session after the other

ASSUME DriverAssumption == Staggered \in BOOLEAN

vars == <<sessionVars, handlerVars>>

TypeOK == ConnectionTypeOK /\ FakeMediatorTypeOK

Init == ConnectionInit /\ FakeMediatorInit

(***************************************************************************)
(* The caller.  The integration tests sleep between two calls of connect,  *)
(* long enough for the first session to be registered: Staggered.          *)
(***************************************************************************)
Settled(s) == pc[s] = "idle" \/ handler[s] \in {"await"} \cup Returned

Start(s) ==
  /\ Staggered => \A t \in Session : Settled(t)
  /\ Connect(s)
  /\ UNCHANGED handlerVars

SessionStep(s) == Thread(s) /\ UNCHANGED handlerVars

SessionCrash(s) == Crash(s) /\ UNCHANGED handlerVars

Next ==
  \E s \in Session : \/ Start(s)
                     \/ SessionStep(s)
                     \/ SessionCrash(s)
                     \/ Handler(s)
                     \/ HandlerAwaitTimeout(s)

Spec == Init /\ [][Next]_vars

(***************************************************************************)
(* The kernel schedules every thread: the session's and the handler's.     *)
(* The caller makes every call of connect it is about to make.  Crashes    *)
(* and timeouts are not forced to happen.                                  *)
(***************************************************************************)
Fairness ==
  \A s \in Session : /\ WF_vars(Start(s))
                     /\ WF_vars(SessionStep(s))
                     /\ WF_vars(Handler(s))

FairSpec == Spec /\ Fairness

(* The threads of the sessions alone; handlers and callers may stop. *)
SessionFairSpec == Spec /\ \A s \in Session : WF_vars(SessionStep(s))
-----------------------------------------------------------------------------
(***************************************************************************)
(* Every receive() finds at most one message, and it is of the type the    *)
(* reader decodes.  Neither side frames messages and decode<T> does not    *)
(* compare types, so the handshakes rely on this.                          *)
(***************************************************************************)
LockStep ==
  \A s \in Session :
    /\ pc[s] = "advertised" =>
         Finds(MedEnd(s), {"AdvertiseChallenge", "AdvertiseAbort"})
    /\ pc[s] = "registered" =>
         Finds(MedEnd(s), {"PeerIdentification", "PeerDisconnect"})
    /\ pc[s] \in {"challenging", "answered", "accepted", "replied"} =>
         Finds(P2pEnd(s), {Awaited(pc[s])})
    /\ handler[s] = "advertise" => Finds(HandlerEnd(s), {"Advertise"})
    /\ handler[s] = "response" => Finds(HandlerEnd(s), {"AdvertiseResponse"})

(***************************************************************************)
(* A session learns the address of its Peer only after the Mediator has    *)
(* sent that Peer its PeerDisconnect.  This is what _wait_for_disconnect   *)
(* ensures; that the Peer has read it, and listens, is PeerListensFirst.   *)
(***************************************************************************)
DisconnectSentFirst ==
  \A c \in Session :
    /\ punched_peer[c] # None =>
         handler[punched_peer[c].address] = "disconnected"
    /\ \A m \in Unread(MedEnd(c)) : m.type = "PeerIdentification" =>
         handler[m.address] = "disconnected"

(***************************************************************************)
(* By the time a Client knows the address of its Peer, the Peer listens    *)
(* there, as the comment above _wait_for_disconnect and doc/mediator.md    *)
(* promise.  The handler only knows that the PeerDisconnect was sent.      *)
(***************************************************************************)
PeerListensFirst ==
  \A c \in Session :
    pc[c] \in {"client", "dial"} => listener[punched_peer[c].address] # None

(***************************************************************************)
(* A PeerDisconnect is answered by at most one PeerIdentification: two     *)
(* Clients that wait for the same Peer are not both sent to it.            *)
(***************************************************************************)
OneIdentificationPerDisconnect ==
  \A c, d \in Session :
    /\ handler[c] \in {"identify", "identified"}
    /\ handler[d] \in {"identify", "identified"}
    /\ awaited[c].address = awaited[d].address
    => c = d

(***************************************************************************)
(* No handler thread ends with an exception, which would take the whole    *)
(* Mediator down.                                                          *)
(***************************************************************************)
MediatorSurvives == mediatorUp

(***************************************************************************)
(* Every session that has started calls its callback.                      *)
(***************************************************************************)
EveryConnectCallsBack ==
  \A s \in Session : pc[s] # "idle" ~> callbacks[s] # <<>>

(***************************************************************************)
(* Two sessions that want each other both get a socket.                    *)
(***************************************************************************)
PairConnects ==
  \A s, t \in Session : KeyOf[s] = Wants[t] /\ KeyOf[t] = Wants[s] =>
    (pc[s] # "idle" /\ pc[t] # "idle" ~> callbacks[s] = <<"socket">>)
=============================================================================
