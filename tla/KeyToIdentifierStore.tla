------------------------- MODULE KeyToIdentifierStore -------------------------
(***************************************************************************)
(* KeyToIdentifierStore (integration/src/util/key_to_identifier_store.cpp) *)
(* with its mutex, its condition variable and the time that await() keeps, *)
(* and the handler threads that use it the way _handle_connection does:    *)
(* get(their_key), put(our_key), and await(their_key) if get found none.   *)
(* Module FakeMediator takes put and await in one step each; this module   *)
(* shows what that step stands for.                                        *)
(*                                                                         *)
(* Time is counted for every waiting handler from its call of await.       *)
(***************************************************************************)
EXTENDS Integers

CONSTANTS Handler, Key,
          our_key, their_key,  \* the keys in the handler's Advertise
          Ms,                  \* the timeout given to await
          Late,                \* bound: a thread is scheduled that soon
          Spurious,            \* wait_for may wake without a notification
          None

ASSUME StoreAssumption ==
  /\ our_key \in [Handler -> Key] /\ their_key \in [Handler -> Key]
  /\ Ms \in Nat \ {0} /\ Late \in Nat
  /\ Spurious \in BOOLEAN
  /\ None \notin Handler

VARIABLES store,     \* _store: the handler whose identifier is under a key
          at,        \* where the handler is
          awaited,   \* what await returned to it
          elapsed,   \* the time since it called await, kept if it gave up
          timer,     \* what is left of its wait_for, 0 outside
          wait_ms

vars == <<store, at, awaited, elapsed, timer, wait_ms>>
timeVars == <<elapsed, timer, wait_ms>>

Location == {"get", "putClient", "putPeer", "notifyClient", "notifyPeer",
             "await", "waiting", "woken", "found", "gaveUp", "peer"}

TypeOK ==
  /\ store \in [Key -> Handler \cup {None}]
  /\ at \in [Handler -> Location]
  /\ awaited \in [Handler -> Handler \cup {None}]
  /\ elapsed \in [Handler -> 0 .. Ms + Late]
  /\ timer \in [Handler -> 0 .. Ms]
  /\ wait_ms \in [Handler -> Int]

Init ==
  /\ store = [k \in Key |-> None]
  /\ at = [h \in Handler |-> "get"]
  /\ awaited = [h \in Handler |-> None]
  /\ elapsed = [h \in Handler |-> 0]
  /\ timer = [h \in Handler |-> 0]
  /\ wait_ms = [h \in Handler |-> Ms]

Go(h, location) == at' = [at EXCEPT ![h] = location]
-----------------------------------------------------------------------------
Get(h) ==
  /\ at[h] = "get"
  /\ Go(h, IF store[their_key[h]] = None THEN "putClient" ELSE "putPeer")
  /\ UNCHANGED <<store, awaited, timeVars>>

(* mutant: the later registration replaces the earlier one *)
Overwrite(key, identifier) == store' = [store EXCEPT ![key] = identifier]

(* map::insert under the lock: an entry that is already there stays. *)
Insert(key, identifier) ==
  store' = [store EXCEPT ![key] = IF @ = None THEN identifier ELSE @]

Put(h) ==
  /\ at[h] \in {"putClient", "putPeer"}
  /\ Insert(our_key[h], h)
  /\ Go(h, IF at[h] = "putClient" THEN "notifyClient" ELSE "notifyPeer")
  /\ UNCHANGED <<awaited, timeVars>>

(***************************************************************************)
(* notify_all, after the lock has been released: it wakes the handlers     *)
(* that are waiting now, whatever key they wait for.                       *)
(***************************************************************************)
NotifyAll(h) ==
  /\ at[h] \in {"notifyClient", "notifyPeer"}
  /\ at' = [g \in Handler |->
              IF g = h THEN IF at[h] = "notifyClient" THEN "await" ELSE "peer"
              ELSE IF at[g] = "waiting" THEN "woken" ELSE at[g]]
  /\ timer' = [g \in Handler |-> IF at[g] = "waiting" THEN 0 ELSE timer[g]]
  /\ UNCHANGED <<store, awaited, elapsed, wait_ms>>
-----------------------------------------------------------------------------
(* wait_for(lock, ms): the lock is released until a notification or ms. *)
WaitFor(h, ms) ==
  /\ Go(h, "waiting")
  /\ timer' = [timer EXCEPT ![h] = ms]

(* await is called: it waits before it looks. *)
Await(h) ==
  /\ at[h] = "await"
  /\ elapsed' = [elapsed EXCEPT ![h] = 0]
  /\ wait_ms' = [wait_ms EXCEPT ![h] = Ms]
  /\ WaitFor(h, Ms)
  /\ UNCHANGED <<store, awaited>>

(* mutant: a timeout ends await without another look *)
GiveUpAtTimeout(h) ==
  /\ at[h] = "waiting"
  /\ timer[h] = 0
  /\ Go(h, "gaveUp")
  /\ UNCHANGED <<store, awaited, timeVars>>

(* wait_for times out, or wakes for no reason. *)
Wake(h) ==
  /\ at[h] = "waiting"
  /\ timer[h] = 0 \/ Spurious
  /\ Go(h, "woken")
  /\ timer' = [timer EXCEPT ![h] = 0]
  /\ UNCHANGED <<store, awaited, elapsed, wait_ms>>

(* mutant: the time that has passed is not subtracted *)
FullWaitAgain(h) == wait_ms[h]

(* mutant: the rest is floored at one millisecond *)
AtLeastOneMs(h) ==
  IF wait_ms[h] - elapsed[h] > 0 THEN wait_ms[h] - elapsed[h] ELSE 1

(* wait_ms -= current_time_ms() - start_ms *)
Remaining(h) == wait_ms[h] - elapsed[h]

(* mutant: the condition is taken as unsigned *)
UnsignedTimeLeft(ms) == ms # 0

(* while (wait_ms.count() > 0) *)
TimeLeft(ms) == ms > 0

(***************************************************************************)
(* The handler has the lock again: one look at the map, and another round  *)
(* if the key is not there and wait_ms is still positive.                  *)
(***************************************************************************)
Look(h) ==
  /\ at[h] = "woken"
  /\ \/ /\ store[their_key[h]] # None
        /\ awaited' = [awaited EXCEPT ![h] = store[their_key[h]]]
        /\ Go(h, "found")
        /\ elapsed' = [elapsed EXCEPT ![h] = 0]
        /\ UNCHANGED <<timer, wait_ms>>
     \/ /\ store[their_key[h]] = None
        /\ wait_ms' = [wait_ms EXCEPT ![h] = Remaining(h)]
        /\ IF TimeLeft(Remaining(h)) THEN WaitFor(h, Remaining(h))
                                     ELSE Go(h, "gaveUp") /\ UNCHANGED timer
        /\ UNCHANGED <<awaited, elapsed>>
  /\ UNCHANGED store

(***************************************************************************)
(* A millisecond passes.  A handler that has to run, because its wait is   *)
(* over or it was woken, gets the processor and the lock within Late.      *)
(***************************************************************************)
InAwait(h) == at[h] \in {"waiting", "woken"}

Tick ==
  /\ \E h \in Handler : InAwait(h)
  /\ \A h \in Handler : InAwait(h) => elapsed[h] < Ms + Late
  /\ elapsed' = [h \in Handler |->
                   IF InAwait(h) THEN elapsed[h] + 1 ELSE elapsed[h]]
  /\ timer' = [h \in Handler |->
                 IF at[h] = "waiting" /\ timer[h] > 0 THEN timer[h] - 1
                                                      ELSE timer[h]]
  /\ UNCHANGED <<store, at, awaited, wait_ms>>
-----------------------------------------------------------------------------
(* What a handler does that it does not wait for. *)
Step(h) ==
  Put(h) \/ NotifyAll(h) \/ Await(h) \/ (timer[h] = 0 /\ Wake(h)) \/ Look(h)

Next ==
  \/ \E h \in Handler : Get(h) \/ Put(h) \/ NotifyAll(h) \/ Await(h)
                          \/ Wake(h) \/ Look(h)
  \/ Tick

Spec == Init /\ [][Next]_vars

(***************************************************************************)
(* Time passes, and a handler that has been called runs.  The Advertise    *)
(* that makes a handler call get need never come.                          *)
(***************************************************************************)
FairSpec == Spec /\ WF_vars(Tick) /\ \A h \in Handler : WF_vars(Step(h))
-----------------------------------------------------------------------------
Mutual(h, g) == their_key[h] = our_key[g] /\ their_key[g] = our_key[h]

(***************************************************************************)
(* Of two handlers whose sessions want each other one finds the other's    *)
(* entry, however get, put, the notifications and the timeouts interleave. *)
(***************************************************************************)
OneOfTwoFinds ==
  \A h, g \in Handler :
    Mutual(h, g) => ~(at[h] = "gaveUp" /\ at[g] = "gaveUp")

(***************************************************************************)
(* await does not wait longer than it was told: what is left of wait_for   *)
(* never reaches beyond Ms after the call.                                 *)
(***************************************************************************)
DeadlineKept ==
  \A h \in Handler : timer[h] > 0 => elapsed[h] + timer[h] <= Ms

(***************************************************************************)
(* What await returned stays what is registered under the key, so all who  *)
(* await a key are told of one session, however many have registered it.   *)
(***************************************************************************)
FoundStays ==
  \A h \in Handler : at[h] = "found" => awaited[h] = store[their_key[h]]

(***************************************************************************)
(* await finds a key that is put while it waits, also when the             *)
(* notification came before wait_for.                                      *)
(***************************************************************************)
PeerIsFound ==
  \A h \in Handler :
    at[h] = "waiting" /\ store[their_key[h]] # None ~> at[h] = "found"

(* await returns, however often it is woken for nothing. *)
AwaitReturns == \A h \in Handler : at[h] = "waiting" ~> ~InAwait(h)

(***************************************************************************)
(* await gives a peer all of its Ms to come, as the comment on the call    *)
(* says ("Timeout after 2 seconds").                                       *)
(***************************************************************************)
GivesUpAfterMs ==
  \A h \in Handler : at[h] = "gaveUp" => elapsed[h] >= Ms
=============================================================================
