# p2psc: a TLA+ verification of the connection set-up

p2psc is a C++ library with one entry point, `p2psc::connect`. It creates a TCP
socket between two peers that know each other's public key and find each other
through a Mediator. This directory holds TLA+ modules for that procedure, the
TLC configurations that check them, and proofs that TLAPS checks.

## 1. Inventory

| Component | State | Operations | Where it is hard |
|---|---|---|---|
| Messages, decoder (`include/p2psc/message`) | none | encode, `decode<T>`, `decode_message_type` | `decode<T>` asks for T's fields and ignores the type |
| `Socket` | descriptor, kernel buffers | connect, `send`, `receive`, `close`, destructor | no message framing; the end of the stream |
| `LocalListeningSocket` | descriptor, backlog | constructor, `accept`, `close` | null result, thrown pointer, whoever dials first |
| `MediatorConnection` | `_connected`, `_punched_peer`, `_peer_disconnect`, `_socket` | `connect`, `close_socket` | retries; unexpected answers; its two assertions |
| `Connection` | one thread per call | `connect`, `_connect`, `_connect_as_client`, `_connect_as_peer`, `_handle_connection` | two threads that verify each other; exceptions anywhere; the callback |
| `FakeMediator` handlers | one thread per connection, `_completed_disconnects`, `_quit_after` | `_run`, `_handle_connection`, `_add_to_disconnects`, `_wait_for_disconnect` | lookup and registration are two critical sections; handlers wait for each other |
| `KeyToIdentifierStore` | `_store` | `put`, `get`, `await` | entries are never replaced; the arithmetic of the timeout |
| `FakeMediator` lifecycle | `_is_running`, message logs | `run`, `stop`, `await_shutdown` | closing under a blocked `accept` |
| Integration `Client`, `StatefulSocket` | locals captured by reference | `connect_sync`, `connect_async` | the callback outlives the locals |
| RSA, keys, base64, log | keys | encrypt, decrypt, PEM files, output | library calls |

`p2psc::connect` starts a thread, called a *session* here. The session advertises
its key and the wanted key to the Mediator and proves that it holds its key. The
Mediator makes the session that registered first the *Client*: it receives
`PeerIdentification` and dials. The other one is the *Peer*: it receives
`PeerDisconnect`, closes its connection and listens on the port it had. The two
then verify each other with encrypted nonces, and both threads call the user's
callback.

`PROJECT.json` lists the hazards of the code at their lines.

## 2. Modules

`Messages` <- `Network` <- `MediatorConnection` <- `Connection` is a chain of
`EXTENDS`. Two systems are built on it: `FakeMediator` <- `P2psc` <-
`IntegrationTest`, and `AnyMediator`. `Socket` and `KeyToIdentifierStore` stand
alone: they look closer at two components that the chain takes in larger steps.
`MessageStream` and `Rendezvous` are abstract specifications. They state what a
component promises and contain none of its code.

- **Messages**: the eleven message types as records, the fields each codec
  requires, and what the decoder accepts. A nonce encrypted for a key is a record
  that only that key opens. `reason` texts and JSON are abstracted away.
- **Network**: connections as two endpoints with a queue each. `inbox[e]` is what
  `read()` on `e` can return, `open[e]` whether the descriptor is open. If several
  messages wait, `read()` returns the first alone, or several together, which
  then do not decode (`Undecodable`).
- **MediatorConnection**: `MediatorConnection::connect`. The thread's position
  is `pc[s]`. There is one action per blocking or externally visible call. An
  action includes what the code does up to the next such call.
- **Connection**: `_connect_as_client`, `_connect_as_peer` and
  `_handle_connection`. `Throw` is an exception that leaves the Peer handshake: it
  closes every socket of the session, as unwinding does. `callbacks[s]` records
  the calls of the user's callback. The module also states the properties that do
  not depend on the Mediator.
- **FakeMediator**: the handler threads. `handler[s]` is the position of the
  handler of session s; every critical section of the store and of
  `_completed_disconnects` is one action.
- **P2psc**: sessions and handlers together, fairness, and the properties of the
  whole.
- **AnyMediator**: the Mediator is not part of the library, so here it follows no
  protocol: it sends any message of the Mediator handshake with any address, version
  or cipher, asked or not, hangs up, or goes away. Up to `MaxInFlight` answers are
  under way to a session. With `Terse`, which only the run uses, it sends while a
  session reads, and a second answer repeats the first.
- **IntegrationTest**: the tests of `client_it.cpp` as scripts of a test thread,
  with `run`, `_run`, `stop` and `await_shutdown` of the FakeMediator, the helper
  `Client`, and the messages that the FakeMediator and `StatefulSocket` log. A script
  also says which waits may end early (`early`): `wait_for` in `connect_sync` and
  `await_shutdown`, neither of which has a predicate, the two seconds of the
  FakeMediator's `await`, and an `accept()` whose descriptor is closed.
- **Socket**: one direction of a TCP connection, byte by byte. `send` may be
  partial, bytes arrive in any segments, and `receive()` is the loop with its
  buffer and its `ioctl`. A position in the stream stands for everything before
  it, so the bytes themselves are not needed.
- **KeyToIdentifierStore**: `get`, `put` and `await` with the condition variable
  and a clock. `NotifyAll` wakes only those who wait at that moment; `Look` is one
  look at the map with the arithmetic on `wait_ms`.
- **MessageStream**: what a reader may expect of a connection. `Socket` implements
  it (`StreamIsKept`).
- **Rendezvous**: what `p2psc::connect` promises: a Peer verifies one Client, that
  Client confirms the Peer, and each reports a socket only then. `Connection`
  implements it (`PromiseIsKept`).
- **MCP2psc**, **MCAnyMediator**, **MCIntegrationTest**,
  **MCKeyToIdentifierStore**: constants for TLC. `Socket` needs none.
- **ConnectionProofs**: lemmas about connections and about the steps of a session,
  whoever the Mediator is. **P2pscProofs** and **AnyMediatorProofs** extend them to
  the theorems of the two systems. **IntegrationTestProofs** goes on from
  `P2pscProofs` to any test; **PairTestProofs** and **RepositoryTestsProofs** to the
  four tests of the repository. **SocketProofs** and **StoreProofs** stand alone.

### The two refinements

`StreamIsKept` maps the sender's state to `closed` and the kernel's to `broken`;
the other variables of the stream are variables of `Socket`. The buffer loop
disappears: a `receive()` is one `Delivered` or `Failed`. The variable `whole` says
whether the network keeps each send in one piece, and only then does the stream
promise whole sends. This is the condition under which the queue of messages in
`Network` is a fair picture (`WholeSendsAreReturned`). The library assumes it
throughout, and `segments` shows what happens without it.

`PromiseIsKept` maps a session to the other session that it has verified (as Peer,
from the acknowledgement on) or confirmed (as Client, from reading it). All other
state is hidden, so the Mediator handshake, the dials and the messages are steps
that change nothing. The abstract `Report` may be repeated once, after a socket:
this is the exception described under `callback_twice`.

Definitions whose comment begins with *mutant* are plausible bugs. No
specification uses them. Each one replaces the definition after it in order to
see that a property notices.

### Constants for the environment

- `Faults`: what may fail outside the program. `refuse`: a dial fails although
  somebody listens. `bind`, `reuseaddr`, `accept`: these system calls fail.
  `callback`: the callback throws a `std::exception`. `crash`: the process is
  killed.
- `TalkRoles`: roles whose callback sends on the socket at once, as the example
  of the repository's README does.
- `Prompt`: the Client's second dial happens after a Peer that has been told to
  listen has done so. The code waits 10 ms for this; without `Prompt` the race is
  open.
- `LatePeers`: `await` may time out. `Staggered`: the caller starts a session when
  the earlier ones are registered, as the integration tests do with `block`.
- `QuitAfter`: the values `_quit_after` may have. The constructor does not
  initialise it, so the faulty runs let it be several.
- `Scripts`: the tests, with the waits that may end early. `"accept"` among these
  means that `close()` ends an `accept()` that another thread has called on the
  descriptor. BSD systems do this; Linux does not, and there the blocked `accept()`
  still takes the next connection.
- `Regimes`: the values of `whole`. `Late`: how late a thread may be scheduled, in
  milliseconds. `Spurious`: `wait_for` may return for no reason.

### Abstractions

- Every session is a process of its own and so is the Mediator, so a crash ends
  one of them. Sessions of one process would end together.
- The address of a session is the session: the kernel gives every connection to
  the Mediator its own port, and the Peer listens on that port.
- A nonce is any element of `Nonce`, equal ones included, because
  `generate_nonce` seeds `rand` with the time in seconds.
- `SendMayThrow` allows `send` to fail as soon as the other end is closed; TCP
  usually accepts one more message first, which the model also allows.
- No one but sessions dials a listening Peer, and the wire between two sessions
  is not tampered with.
- The tests sleep for 100 ms. The model takes that to be long enough: a sleep ends
  when nothing else can move (`Quiescent`): every thread has ended or is in a call
  that blocks (`SessionWaits`, `HandlerWaits`). This is an assumption about time, not
  something the code ensures. The same goes for `connect_sync`, except where a script
  lets its wait end early. The two seconds of `await` do not end in the tests whose
  second peer comes after such a sleep.
- What a callback writes after `connect_sync` has returned is undefined and not
  followed. Only the test whose peer never comes lets `connect_sync` return early;
  the first two tests of the repository read the logs right after it, and that their
  assertions hold rests on its waiting for the callback.
- A test ends at rest: no session dials the FakeMediator, and no connection waits in
  its backlog, once `stop()` has closed the listening socket.
- In `KeyToIdentifierStore` each waiting handler has its own count of the time
  since its call; there is no common date. `current_time_ms` is taken to be
  steady.
- A handler that sends or receives and then logs does both in one step of
  `IntegrationTest`. `LogsAreSerial` therefore asks that no two handlers are at
  such a step at the same time.

## 3. Runs

| Run | Instance | Result |
|---|---|---|
| `contended` | 3 sessions, 2 want the same Peer; all faults, crashes, timeouts, quit points; any start order | 9 invariants, the refinement `PromiseIsKept` and 1 liveness property hold |
| `integration` | the 4 integration tests, one in which a session of an older build connects first, one in which the peer never comes; waits that end early; no faults | 5 invariants and 2 liveness properties hold |
| `any_mediator` | 2 sessions, arbitrary Mediator, 2 versions, 2 retries, at most 2 unread answers | 5 invariants and the refinement `PromiseIsKept` hold |
| `stream` | sends of 1 to 6 bytes, a buffer of 3 bytes, whole sends or any segments | 3 invariants, the refinement `StreamIsKept` and 1 liveness property hold |
| `store` | 3 handlers, 2 with one key, a timeout of 3 ms, 1 ms late, spurious wake-ups | 4 invariants and 2 liveness properties hold |
| `mutual_wait` | 2 sessions, any start order, no faults | `EveryConnectCallsBack` fails |
| `listens_late` | 2 sessions, one after the other, no faults | `PeerListensFirst` fails |
| `ack_coalesced` | 2 sessions, the Peer's callback sends at once | `PeerImpliesClient` fails |
| `callback_twice` | 2 sessions, callbacks may throw | `CalledAtMostOnce` fails |
| `segments` | one send of 2 bytes, segments only | `ReturnsWholeMessages` fails |
| `await_early` | 3 handlers, one waits while two others register; 4 ms | `GivesUpAfterMs` fails |
| `stop_hangs` | the test `ShouldCompletePeerHandshake`, no wait ends early (Linux) | `StopReturns` fails |

What the properties say:

- `Authenticated`: a returned socket leads to a holder of the wanted key.
- `ClientImpliesPeer`: when the Client returns a socket, the Peer at the other end
  has already returned the same connection. `PeerImpliesClient`: a Client that
  has been acknowledged does not report an error.
- `LockStep`: every `receive()` of the handshakes finds at most one message, of
  the type it decodes. The missing framing and the unchecked type are harmless
  because of this.
- `DisconnectSentFirst`, `OneIdentificationPerDisconnect`: what
  `_wait_for_disconnect` ensures. `PeerListensFirst`: what its comment and
  `doc/mediator.md` want of it, that the Peer already listens when the Client learns
  its address.
- `ErrorKindIsTruthful`: a reported error kind is not about a stage that the session
  did not reach or had passed.
  `CloseIsLegal`: the assertions behind `close_socket` hold.
- `AdvertisesBounded`: no more than `MAX_ADVERTISE_RETRIES` + 1 Advertises.
- `CalledAtMostOnce`: a session calls its callback once.
- `PromiseIsKept`, `StreamIsKept`: the refinements above.
- `MediatorSurvives`, `EveryConnectCallsBack`, `PairConnects`: the scenario of the
  integration tests works.
- `TestAssertions`: each assertion of the tests holds when the test thread gets
  there. `LogsAreSerial`: the unlocked vectors of the FakeMediator are never used
  by two threads together. `StopReturns`: the destructor of the FakeMediator comes to
  an end.
  `OnlyBlockingCallsWait`: a thread of a session or of a handler that cannot go on
  is in a `read` from an open connection, in `accept` or in one of the two waits of
  the FakeMediator, or sleeps before its second dial until the Peer listens
  (`Prompt`). This is what makes the end of a sleep mean that all work is done.
- `OnlyFirstReadBlocks`, `NothingDiscarded`, `ReceiveReturns`: what the `ioctl` in
  `receive()` is for. It looks at what has arrived so far, and that is enough for
  these three. `ReceiveReturns` says that `receive()` returns unless still more
  arrives; a sender that keeps a full buffer ahead of it keeps it in its loop.
- `OneOfTwoFinds`, `PeerIsFound`: `await` waits before it looks and can miss its
  notification; the look after the timeout makes up for it. `DeadlineKept`,
  `AwaitReturns`: wake-ups for other keys do not prolong the wait. `FoundStays`:
  whoever awaits a key that several sessions have registered is told of the same
  session.
- `HandshakeTerminates`: a session with a connection to another one does not
  hang.

The seven violations:

- `mutual_wait`: `get` and `put` are separate critical sections. Two peers that
  advertise together both become Clients and their handlers wait for each other
  without a timeout.
- `listens_late`: `_wait_for_disconnect` knows that the `PeerDisconnect` was sent, not
  that it was received. The Client can dial before the Peer listens; its second dial
  after 10 ms is there for this, and may also come too early.
- `ack_coalesced`: the acknowledgement and the Peer's first data can be read
  together, and the Client then gives up a connection the Peer holds.
- `callback_twice`: the success callback is called inside the `try` block.
- `segments`: the loop of `receive()` ends at the first read that does not fill the
  buffer, so half a message is returned if the other half is still on its way.
- `await_early`: `wait_ms` is reduced in every round by the time since the call, so
  two wake-ups by other registrations cut the two seconds short.

- `stop_hangs`: `stop()` closes the listening socket and joins a worker that stays in
  `accept()`, which on Linux, the platform of `.travis.yml`, the close does not end.

Observations that no run states as a property:

- Where `close()` does end `accept()`, a worker that read `_is_running` just before
  `stop()` reset it calls `accept()` on the closed socket and its assertion fails
  (`worker = "aborted"`).
- If the disconnect is recorded before `await_shutdown` waits, it waits until a
  spurious wake-up. The assertions that follow are then not reached, and
  `TestAssertions` and the liveness properties of the sessions are not affected.
- The store does not record whom a session asked for. A session that wants a
  registered peer is sent `PeerDisconnect` although that peer asked for another one,
  and waits in `accept()` for a Client that need not come.
- A session of a newer build passes the FakeMediator, which rejects older ones only.
  The Client of such a pair refuses it, since the versions differ, and the Peer waits
  in `accept()`. The older build of `integration` is turned away before that.

### Bounds

Three sessions are the least for contention for a Peer, for a stranger in the
backlog and for a Peer that is dialled twice. Every connection carries a handful
of messages, so queues need no bound except in `AnyMediator`, where `MaxInFlight`
= 2 is enough for two answers to be read together. `Terse` keeps that run small at
little cost: an answer that a session reads by itself can as well be sent while it
reads, and two answers that it reads together do not decode, whatever they are. The
theorems on `AnyMediator` hold without it. The nonces 1337 (the
Mediator's constant) and 7 make equal and different nonces possible.
`MAX_ADVERTISE_RETRIES` is 5 in the code. The FakeMediator never sends
`AdvertiseRetry`, so the value matters only in `any_mediator`, where 2 reaches
the boundary as well as 5 would. Versions are 0 and 1.

Two branches of the sessions are taken in no run. One is the refusal of a wrong
nonce in `ReceivePeerResponse` (`connection.cpp:125-127`): a dialler that follows
`_connect_as_client` decrypts the nonce or throws, so only a program that is not a
session would send another one. The other is the refusal of a challenge that was
encrypted for another key (`connection.cpp:112`): the FakeMediator gives a Client the
address of a session with the wanted key, and the two sessions of `any_mediator`
have the keys they want. A Mediator that introduces strangers reaches it. There the
theorem `AnyMediatorAuthenticated`, whose constants include such sessions, says
that no socket is returned.

`RECV_BUF_SIZE` is 1024 in the code and 3 in `stream`. The loop compares a read with
the buffer and with nothing else. The lengths lie below, at and above one buffer,
and at two. Eight bytes in all let several sends meet in one read. The timeout
of `await` is 2000 ms in the code. Three milliseconds with one of delay give
several rounds and an overdrawn `wait_ms`. `await_early` needs two wake-ups before
the timeout, for which four milliseconds leave room. The proofs in `SocketProofs`
and `StoreProofs` need none of these bounds.

Except in `stream` deadlock is not checked: a system in which all threads have ended
may stop, and a Peer that waits in `accept()` for ever is a behaviour of the code.

### Fairness

`FairSpec` has weak fairness on each session's thread, each handler and each
start: the kernel runs every thread that can run, and `read`, `send` and `accept`
return when they can. Crashes, faults and the timeout of `await` may happen where
a run allows them and are never forced.

`SessionFairSpec`, under which `contended` checks `HandshakeTerminates`, has the
fairness on the sessions' threads alone.

`IntegrationTest` adds weak fairness on the test thread, on the worker and on the
timeout of `await` where the script has one: two seconds pass. Wakes that come early
are never forced.
`Socket!FairSpec` has it on the reader's own steps and on nothing else: neither the
sender nor the network need do anything. In `KeyToIdentifierStore` time passes and
a handler runs once it can, but no handler need ever be called, and nothing is
assumed of spurious wake-ups.

## 4. Proofs

Theorems hold for every set of sessions, keys, nonces and versions and every
value of the other constants that satisfies the named assumptions
(`NoneAssumption`, `SessionAssumption`, `AbsentAssumption`, `CallerAssumption`,
`MediatorAssumption`, `DriverAssumption`, `HarnessAssumption`,
`AnyMediatorAssumption`, `SocketAssumption`, `StoreAssumption`). These give the
constants their types and say that `None` is no other value; the buffer, a message
and the timeout are not empty.

Of `P2psc` (any sessions behind the FakeMediator, any faults):

| Theorem | Property | Hypothesis |
|---|---|---|
| `TypeCorrect` | `TypeOK` | |
| `AuthenticatedHolds` | `Authenticated` | |
| `ClientHasPeer` | `ClientImpliesPeer` | |
| `PeerHasClient` | `PeerImpliesClient` | no Peer talks at once |
| `LockStepHolds` | `LockStep` | no Peer talks at once |
| `DisconnectComesFirst` | `DisconnectSentFirst` | |
| `OneClientPerDisconnect` | `OneIdentificationPerDisconnect` | |
| `ErrorKindHolds` | `ErrorKindIsTruthful` | |
| `CloseHolds` | `CloseIsLegal` | |
| `MediatorHolds` | `MediatorSurvives` | no process is killed |
| `SystemKeepsPromise` | the refinement `PromiseIsKept` | |

Of `AnyMediator`: `AnyTypeCorrect` (`AnyTypeOK`), `AnyMediatorAuthenticated`,
`AnyClientImpliesPeer`, `AnyErrorKindIsTruthful`, `AnyCloseIsLegal`,
`AdvertisesAreBounded` (`AdvertisesBounded`) and the refinement
`AnyMediatorKeepsPromise`. These promises rest on the two sessions alone.

Of `IntegrationTest`, for every test that the calls of `client_it.cpp` can make up
(any `Scripts`, any waits that end early) and any faults but a killed process:

| Theorem | Property |
|---|---|
| `HarnessTypeCorrect` | `HarnessTypeOK` |
| `HarnessMediatorHolds` | `MediatorSurvives` |
| `HarnessPromises` | `TypeOK`, `Authenticated`, `ErrorKindIsTruthful`, `CloseIsLegal`, `DisconnectSentFirst`, `OneIdentificationPerDisconnect` |

and for the four tests of the repository (`RepositoryTest`), each with any session or
pair of sessions in its place, any other sessions around, and any keys and nonces:

| Theorem | Property | Hypothesis |
|---|---|---|
| `TestsPass` | `TestAssertions` | `Undisturbed` |
| `TestsShareNoLog` | `LogsAreSerial` | `Undisturbed` |

`Undisturbed` says that no system call fails, that the callbacks do not use the
socket, and that a Peer listens before the Client dials for the second time
(`Prompt`). The callbacks of the tests only store what they are given. A failing
call makes the tests fail as they should. `RepositoryTest` asks of the sessions what
the tests choose: two sessions with different keys that want each other, of the same
version, and new enough for the FakeMediator wherever the test expects more than an
Advertise. It also asks that no handler gives up after two seconds (`Patient`) and, in
the two tests that call it, that `connect_sync` waits for its callback. The wait of
`await_shutdown` may end at any time.

Of `Socket`: `SocketTypeCorrect`, `OnlyFirstReadCanBlock`, `NothingIsDiscarded`, the
refinement `SocketKeepsStream`, and `WholeSendsAreReturned`: `ReturnsWholeMessages`
on a network that keeps sends whole. Of `KeyToIdentifierStore`:
`StoreTypeCorrect`, `OneOfTwoIsTold`, `AwaitKeepsDeadline`, `AwaitedIsRegistered`.

The hypotheses are those the code needs. `ack_coalesced` violates `PeerImpliesClient`
without its own. For `LockStep` the reason is
the one of `ack_coalesced`: data can follow the acknowledgement before it is read. A
killed session closes its connection, and the handler that reads from it throws, so
`MediatorSurvives` needs its hypothesis too. The refusals, failing system calls and
throwing callbacks of `Faults` are all allowed in `MediatorHolds`.

**The invariant of the system.** Hardly any of the properties is inductive. The
proofs strengthen them in layers, each proved with the help of those before it.

1. `SessionInv` (`ConnectionProofs`) says which of a session's variables have
   been assigned at each value of `pc`: a Client past its dial has a `dial`, a
   Peer past its accept has an `accepted`, a session that sends a decrypted nonce
   has one. Without it, `P2pEnd(s)` need not be an endpoint and a message need
   not be well formed.
2. `KeysInv` (`ConnectionProofs`) says who can know a nonce. What is in flight
   between two sessions was encrypted for the wanted key, and a decrypted nonce
   is in flight, or has been accepted, only if its sender could decrypt it
   (`InFlight`, `Verified`). A session that has returned a socket was therefore
   answered by a holder of the key. Nonces need not be distinct, because a session
   cannot send any decrypted nonce without first opening the cipher it was sent.
3. `RendezvousInv` (`ConnectionProofs`) follows two sessions through their
   handshake. `Progress` ties `pc` to the verdict, the calls of the callback, the
   role and the descriptor of the Mediator connection. `Exchange` says, for every
   position of the Peer, where its Client is and what is unread at both ends:
   `Unchallenged`, `Challenged`, `Replied`, `Responded`, `Acknowledged`, or
   `Deserted` if the Peer has failed. `Opened` and `Listeners` keep the
   descriptors open that the two still use. `ClientImpliesPeer` needs all of it:
   the Client takes what it reads for the acknowledgement, so one has to know
   that nothing else can be there, and this depends on everything that was sent
   and read before.
4. `HandlerInv` (`P2pscProofs`) types the handlers by position and says that a
   recorded disconnect, or an identification under way, belongs to a handler that
   has returned as `disconnected` (`Ordered`), and that an address that has been
   taken out of `completed` belongs to one handler.
5. `Conversation` (`P2pscProofs`) is to a session and its handler what `Exchange`
   is to a Client and its Peer. It gives the Mediator's half of `LockStep`.
6. `Live` (`P2pscProofs`), if nobody is killed: a session stays at the Mediator
   while its handler talks to it, and the nonce is encrypted with the session's own
   key. The handler took that key from the Advertise, and the session would give up
   on a cipher it cannot open. From `Conversation` and `Live` follows that no
   handler finds its connection closed or a message that it cannot decode
   (`NoHandlerThrows`).
7. `Count` (`AnyMediatorProofs`) counts the Advertises read by the Mediator and
   those still unread against `advertise_retries`.

`SystemInv` joins layers 1 to 6 and `AnyInv` layers 1, 2, 3 and 7. The lemmas on
layers 1 to 3 hold for any step of a session, whoever the Mediator is
(`SessionDefined`, `SessionKeys`, `SessionRendezvous`), and for any step that leaves
the connections between sessions alone (`OthersKeep`, `OthersRendezvous`), so both
systems use them. To keep the cases few, the actions are first sorted by what they do
to the state of a layer: `Handshakes` for the connection between two sessions,
`Converses`, `GivesUp` and `GoneOn` for a session's connection to the Mediator, `Moves`
for a handler. All invariants were model-checked on instances of the runs before they
were proved.

**The rendezvous.** `PromiseStep` proves the refinement for a step of a session:
the Peer's acknowledgement is `Verify` (`AcknowledgesVerifies`), the Client's reading of
it is `Confirm` (`ConfirmsConfirms`), a call of the callback is `Report`
(`CallbackReports`), and every other step leaves the abstract variables unchanged
(`SocketsKept`). `Confirm` demands that the Peer has verified this Client and nobody
else, which is the `Acknowledged` phase of `Exchange`. Steps of a Mediator change
nothing that the mapping uses.

**The socket.** `CallInv` says where a call of `receive()` stands: between calls
all that was read has been returned; in a call, `delivered` is where
`received_data` begins; after a full read it is not empty; and the loop goes around
only with something to read. The last clause is what the `ioctl` establishes, and
nothing can take it away, because nobody else reads from the descriptor.
`WholeInv` says that where sends are kept whole, what has arrived ends with one. A
short read takes all that has arrived, so a return ends there too, which gives the
refinement (`StreamStep`, one step per action).

**The store.** A handler that has called `put` has an entry under its key, and
entries stay (`Registered`, `StoreGrows`). A handler that gives up has just seen a
map without the other's key. If the other has given up as well, it has put its key
there before: a contradiction (`FindsStep`). `TimeInv` says that `wait_ms` never
exceeds the timeout and that only a waiting handler has a running timer, so what
`Look` sets, less than `wait_ms` by all the time since the call, ends in time.

**The tests.** A test thread sends on the sockets it was given, reads from them and
destroys them, so `ClientImpliesPeer` and the exact phases of `Exchange` end with
the callbacks. `CoreInv` (`P2pscProofs`) is what remains of the system's invariant:
`SessionInv`, `KeysInv`, `HandlerInv`, and `Progress`, `Conversation` and `Live` of
each session. `HarnessInv` adds the types of the logs. It needs all of this, because
what the FakeMediator logs as sent is a message only if its handler got as far as
sending it.

The tests with a script need more, since their assertions speak of what has happened
and not only of what may not happen. Three invariants say it, each proved with the
ones before:

1. `BaseInv`, of tests in which no handler gives up, adds `WireInv` (`P2pscProofs`) to
   `HarnessInv`. `Wire` says, for each
   place of a session, where its handler is and what exactly is under way between
   them. `Conversation` bounds what may be there; `Wire` says what is there, down to
   the nonce. `Stored` ties the two tables of the FakeMediator to the places of the
   handlers. A session at rest is therefore at a known place (`AtRest`).
2. `Solo` (`IntegrationTestProofs`), of the tests with one session: the other
   sessions are idle, the logs follow from the place of the handler (`SoloLogs`),
   and the test thread passes `connect_sync` only with the callback called.
3. `Pair` (`PairTestProofs`; the handlers' part is in `IntegrationTestProofs`), of
   the tests with two: `Handled` says that the second session starts when the
   handler of the first waits for it, so the second is the Peer (`FirstWaits` gets
   this from `Quiescent`, which ends the sleep between the two calls). `Beside` is a
   table of the places of both and of what is unread on their connection, `Joined`
   gives their sockets, `Sent` and `Logged` the lengths of the logs and what the
   assertions look at, `Lines` the place of the test thread. `NoLoss` shows that
   neither loses the other, `PairAtRest` that two sessions at rest have both called
   back, and `PairStep` joins the cases.

`Quiescent` is written without `ENABLED`, as the list of the calls in which threads
block, so the proofs can use it. That the list is complete is
`OnlyBlockingCallsWait`, which TLC checks. `BaseInv`, `Solo` and `Pair` were
model-checked on the instance of `integration` first.

**Only model-checked.** Liveness (`EveryConnectCallsBack`, `PairConnects`,
`HandshakeTerminates`, `ReceiveReturns`, `PeerIsFound`, `AwaitReturns`) and
`OnlyBlockingCallsWait`, because TLAPS treats neither fairness nor `ENABLED`. The two
tests of `integration` with an older build and with a peer that never comes are not
the repository's: `HarnessTypeCorrect`, `HarnessMediatorHolds` and `HarnessPromises`
include them, the last two theorems do not.

## 5. Not modelled, and the plan

Not modelled:

- JSON text, base64 and OpenSSL: external or vendored code. The handshakes depend
  only on which fields are there and on who can open a cipher.
- Key generation, PEM files and serialisation in `rsa.cpp`, `keypair.cpp` and
  `public_key.cpp`: each is one call into OpenSSL on behalf of one caller. Nothing
  interleaves with it and no state outlives it but a file.
- `log.h`: output only.
- Interleavings of the byte stream with the handshakes. `Socket` implements the
  stream under the assumption that sends arrive whole, and `Network` starts from
  there; the product of the two is beyond TLC for a full handshake.

Next: `TestAssertions` without `Prompt` in the tests whose assertions do not depend on
the second dial, and the abstract `Rendezvous` for sessions whose sockets a test
thread goes on to use.
