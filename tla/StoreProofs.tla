----------------------------- MODULE StoreProofs -----------------------------
(***************************************************************************)
(* Proofs about module KeyToIdentifierStore, for every set of handlers and *)
(* keys, every timeout and every bound on the scheduling delay.            *)
(***************************************************************************)
EXTENDS KeyToIdentifierStore, TLAPS

(* A handler that has called put has an entry under its own key. *)
Registered ==
  \A h \in Handler : at[h] \notin {"get", "putClient", "putPeer"}
                       => store[our_key[h]] # None

(* await returned the entry of a session, and the entry is still there. *)
FoundSome ==
  \A h \in Handler : at[h] = "found" => /\ awaited[h] = store[their_key[h]]
                                        /\ awaited[h] # None

(* wait_ms only shrinks, and only a waiting handler has a running timer. *)
TimeInv ==
  \A h \in Handler : /\ wait_ms[h] <= Ms
                     /\ timer[h] > 0 => at[h] = "waiting"

StoreInv ==
  TypeOK /\ Registered /\ OneOfTwoFinds /\ FoundSome /\ TimeInv /\ DeadlineKept

(* The invariant holds when the Mediator has started. *)
LEMMA StoreInvInit == Init => StoreInv
  BY StoreAssumption DEF Init, StoreInv, TypeOK, Location, Registered,
     OneOfTwoFinds, FoundSome, TimeInv, DeadlineKept

(* put never takes an entry away, and nothing else changes the store. *)
LEMMA StoreGrows ==
  ASSUME TypeOK, [Next]_vars
  PROVE  \A k \in Key : store[k] # None => store'[k] = store[k]
  <1>1. CASE \E h \in Handler : Put(h)
    BY <1>1, StoreAssumption DEF Put, Insert, TypeOK
  <1>2. CASE ~ \E h \in Handler : Put(h)
    <2>1. store' = store
      BY <1>2 DEF Next, Get, NotifyAll, Await, Wake, Look, Tick, vars
    <2> QED BY <2>1
  <1> QED BY <1>1, <1>2

(* get, put, the notifications, await and the clock keep the types. *)
LEMMA StoreTypeStep == StoreInv /\ [Next]_vars => TypeOK'
  <1> SUFFICES ASSUME StoreInv, [Next]_vars PROVE TypeOK'
    OBVIOUS
  <1> USE DEF StoreInv, TypeOK, timeVars, Go
  <1>1. ASSUME NEW h \in Handler, Get(h) PROVE TypeOK'
    BY <1>1 DEF Get, Location
  <1>2. ASSUME NEW h \in Handler, Put(h) PROVE TypeOK'
    BY <1>2, StoreAssumption DEF Put, Insert, Location
  <1>3. ASSUME NEW h \in Handler, NotifyAll(h) PROVE TypeOK'
    <2>1. at' \in [Handler -> Location]
      BY <1>3 DEF NotifyAll, Location
    <2>2. timer' \in [Handler -> 0 .. Ms]
      BY <1>3, StoreAssumption DEF NotifyAll
    <2> QED BY <1>3, <2>1, <2>2 DEF NotifyAll
  <1>4. ASSUME NEW h \in Handler, Await(h) PROVE TypeOK'
    BY <1>4, StoreAssumption DEF Await, WaitFor, Location
  <1>5. ASSUME NEW h \in Handler, Wake(h) PROVE TypeOK'
    BY <1>5, StoreAssumption DEF Wake, Location
  <1>6. ASSUME NEW h \in Handler, Look(h) PROVE TypeOK'
    <2>1. Remaining(h) \in Int /\ Remaining(h) <= Ms
      BY StoreAssumption DEF Remaining, TimeInv
    <2>2. at' \in [Handler -> Location]
      BY <1>6 DEF Look, WaitFor, Location
    <2>3. timer' \in [Handler -> 0 .. Ms] /\ wait_ms' \in [Handler -> Int]
      BY <1>6, <2>1, StoreAssumption DEF Look, WaitFor, TimeLeft
    <2>4. awaited' \in [Handler -> Handler \cup {None}]
      BY <1>6, StoreAssumption DEF Look
    <2>5. elapsed' \in [Handler -> 0 .. Ms + Late]
      BY <1>6, StoreAssumption DEF Look
    <2> QED BY <1>6, <2>2, <2>3, <2>4, <2>5 DEF Look
  <1>7. CASE Tick
    <2>1. elapsed' \in [Handler -> 0 .. Ms + Late]
      BY <1>7, StoreAssumption DEF Tick
    <2>2. timer' \in [Handler -> 0 .. Ms]
      BY <1>7, StoreAssumption DEF Tick
    <2> QED BY <1>7, <2>1, <2>2 DEF Tick
  <1>8. CASE UNCHANGED vars
    BY <1>8 DEF vars
  <1> QED BY <1>1, <1>2, <1>3, <1>4, <1>5, <1>6, <1>7, <1>8 DEF Next

(* put comes before everything that a handler does after it. *)
LEMMA RegisteredStep == StoreInv /\ [Next]_vars => Registered'
  <1> SUFFICES ASSUME StoreInv, [Next]_vars, NEW g \in Handler,
                      at'[g] \notin {"get", "putClient", "putPeer"}
               PROVE  store'[our_key[g]] # None
    BY DEF Registered
  <1>1. our_key[g] \in Key
    BY StoreAssumption
  <1>2. CASE at[g] \notin {"get", "putClient", "putPeer"}
    BY <1>1, <1>2, StoreGrows, StoreAssumption DEF StoreInv, Registered
  <1>3. CASE at[g] \in {"get", "putClient", "putPeer"}
    <2>1. Put(g)
      BY <1>3 DEF Next, Get, Put, NotifyAll, Await, Wake, Look, Tick, Go,
                  WaitFor, vars, StoreInv, TypeOK
    <2> QED BY <1>1, <2>1, StoreAssumption DEF Put, Insert, StoreInv, TypeOK
  <1> QED BY <1>2, <1>3

(***************************************************************************)
(* A handler gives up only after a look at a map without its peer's key,   *)
(* and a peer that has given up itself has put its key there.              *)
(***************************************************************************)
LEMMA FindsStep == StoreInv /\ [Next]_vars => OneOfTwoFinds'
  <1> SUFFICES ASSUME StoreInv, [Next]_vars,
                      NEW h \in Handler, NEW g \in Handler, Mutual(h, g),
                      at'[h] = "gaveUp", at'[g] = "gaveUp"
               PROVE  FALSE
    BY DEF OneOfTwoFinds, Mutual
  <1>1. ASSUME NEW f \in Handler, at'[f] = "gaveUp"
        PROVE  \/ at[f] = "gaveUp" /\ store[our_key[f]] # None
               \/ /\ Look(f) /\ store[our_key[f]] # None
                  /\ store[their_key[f]] = None
    <2>1. at[f] = "gaveUp" \/ Look(f)
      BY <1>1 DEF Next, Get, Put, NotifyAll, Await, Wake, Look, Tick, Go,
                  WaitFor, vars, StoreInv, TypeOK
    <2>2. CASE at[f] = "gaveUp"
      BY <2>2 DEF StoreInv, Registered
    <2>3. CASE Look(f)
      BY <1>1, <2>3 DEF Look, Go, StoreInv, Registered, TypeOK
    <2> QED BY <2>1, <2>2, <2>3
  <1>2. store[our_key[h]] # None /\ store[our_key[g]] # None
    BY <1>1
  <1>3. store[their_key[h]] # None /\ store[their_key[g]] # None
    BY <1>2 DEF Mutual
  <1>4. at[h] = "gaveUp" /\ at[g] = "gaveUp"
    BY <1>1, <1>3
  <1> QED BY <1>4 DEF StoreInv, OneOfTwoFinds

(* An entry that await has returned is not replaced by a later put. *)
LEMMA FoundStep == StoreInv /\ [Next]_vars => FoundSome'
  <1> SUFFICES ASSUME StoreInv, [Next]_vars, NEW g \in Handler,
                      at'[g] = "found"
               PROVE  awaited'[g] = store'[their_key[g]] /\ awaited'[g] # None
    BY DEF FoundSome
  <1>1. their_key[g] \in Key
    BY StoreAssumption
  <1>2. CASE at[g] = "found"
    <2>1. awaited'[g] = awaited[g]
      BY <1>2 DEF Next, Get, Put, NotifyAll, Await, Wake, Look, Tick,
                  timeVars, vars, StoreInv, TypeOK
    <2> QED BY <1>1, <1>2, <2>1, StoreGrows DEF StoreInv, FoundSome
  <1>3. CASE at[g] # "found"
    <2>1. Look(g)
      BY <1>3 DEF Next, Get, Put, NotifyAll, Await, Wake, Look, Tick, Go,
                  WaitFor, vars, StoreInv, TypeOK
    <2>2. store[their_key[g]] # None
      BY <2>1 DEF Look, Go, WaitFor, StoreInv, TypeOK
    <2> QED BY <2>1, <2>2 DEF Look, StoreInv, TypeOK
  <1> QED BY <1>2, <1>3

(* What is left to wait is wait_ms less the whole time since the call. *)
LEMMA TimeStep == StoreInv /\ [Next]_vars => TimeInv' /\ DeadlineKept'
  <1> SUFFICES ASSUME StoreInv, [Next]_vars, NEW g \in Handler
               PROVE  /\ wait_ms'[g] <= Ms
                      /\ timer'[g] > 0 => at'[g] = "waiting"
                      /\ timer'[g] > 0 => elapsed'[g] + timer'[g] <= Ms
    BY DEF TimeInv, DeadlineKept
  <1> DEFINE Goal == /\ wait_ms'[g] <= Ms
                     /\ timer'[g] > 0 => at'[g] = "waiting"
                     /\ timer'[g] > 0 => elapsed'[g] + timer'[g] <= Ms
  <1> USE StoreAssumption
      DEF StoreInv, TypeOK, TimeInv, DeadlineKept, timeVars, Go
  <1>1. ASSUME NEW h \in Handler, Get(h) PROVE Goal
    BY <1>1 DEF Get
  <1>2. ASSUME NEW h \in Handler, Put(h) PROVE Goal
    BY <1>2 DEF Put
  <1>3. ASSUME NEW h \in Handler, NotifyAll(h) PROVE Goal
    BY <1>3 DEF NotifyAll
  <1>4. ASSUME NEW h \in Handler, Await(h) PROVE Goal
    BY <1>4 DEF Await, WaitFor
  <1>5. ASSUME NEW h \in Handler, Wake(h) PROVE Goal
    BY <1>5 DEF Wake
  <1>6. ASSUME NEW h \in Handler, Look(h) PROVE Goal
    <2>1. CASE g # h
      BY <1>6, <2>1 DEF Look, WaitFor
    <2>2. CASE g = h /\ store[their_key[h]] # None
      BY <1>6, <2>2 DEF Look
    <2>3. CASE g = h /\ store[their_key[h]] = None
      <3>1. timer[h] = 0
        BY <1>6 DEF Look
      <3>2. wait_ms'[h] = Remaining(h) /\ elapsed'[h] = elapsed[h]
        BY <1>6, <2>3 DEF Look
      <3>3. Remaining(h) \in Int /\ Remaining(h) + elapsed[h] <= Ms
        BY DEF Remaining
      <3>4. \/ timer'[h] = 0
            \/ at'[h] = "waiting" /\ timer'[h] = Remaining(h)
        BY <1>6, <2>3, <3>1 DEF Look, WaitFor
      <3> QED BY <2>3, <3>2, <3>3, <3>4
    <2> QED BY <2>1, <2>2, <2>3
  <1>7. CASE Tick
    BY <1>7 DEF Tick, InAwait
  <1>8. CASE UNCHANGED vars
    BY <1>8 DEF vars
  <1> QED BY <1>1, <1>2, <1>3, <1>4, <1>5, <1>6, <1>7, <1>8 DEF Next

(* The invariant holds in every state that the handlers reach. *)
THEOREM StoreInvariant == Spec => []StoreInv
  <1>1. StoreInv /\ [Next]_vars => StoreInv'
    BY StoreTypeStep, RegisteredStep, FindsStep, FoundStep, TimeStep
       DEF StoreInv
  <1> QED BY <1>1, StoreInvInit, PTL DEF Spec

(***************************************************************************)
(* The map, the clocks of await and the locations of the handlers keep     *)
(* their types, however often wait_for returns early.                      *)
(***************************************************************************)
THEOREM StoreTypeCorrect == Spec => []TypeOK
  <1>1. StoreInv => TypeOK
    BY DEF StoreInv
  <1> QED BY <1>1, StoreInvariant, PTL

(***************************************************************************)
(* Two handlers whose sessions want each other never both give up, for any *)
(* number of other handlers and any timeout.                               *)
(***************************************************************************)
THEOREM OneOfTwoIsTold == Spec => []OneOfTwoFinds
  <1>1. StoreInv => OneOfTwoFinds
    BY DEF StoreInv
  <1> QED BY <1>1, StoreInvariant, PTL

(* await keeps its deadline although it is woken by every put. *)
THEOREM AwaitKeepsDeadline == Spec => []DeadlineKept
  <1>1. StoreInv => DeadlineKept
    BY DEF StoreInv
  <1> QED BY <1>1, StoreInvariant, PTL

(* The identifier that await returned stays the one in the store. *)
THEOREM AwaitedIsRegistered == Spec => []FoundStays
  <1>1. StoreInv => FoundStays
    BY DEF StoreInv, FoundSome, FoundStays
  <1> QED BY <1>1, StoreInvariant, PTL
=============================================================================
