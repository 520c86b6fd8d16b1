---------------------------- MODULE SocketProofs ----------------------------
(***************************************************************************)
(* Proofs about module Socket, for every buffer size, every set of message *)
(* lengths and every way in which the network cuts the stream.             *)
(***************************************************************************)
EXTENDS Socket, TLAPS

(***************************************************************************)
(* Where a receive() stands.  Between two calls everything that was read   *)
(* has been returned; inside a call, received_data starts where the last   *)
(* returned data ended, a full read has put something into it, and the     *)
(* loop goes around only with something to read.                           *)
(***************************************************************************)
CallInv ==
  /\ reader \in {"idle", "closed"} => delivered = taken
  /\ reader \in {"read", "ask"} => delivered = start
  /\ reader = "ask" => start < taken
  /\ reader = "read" /\ start < taken => taken < arrived

(* Where the network keeps the sends whole, what has arrived ends with one. *)
WholeInv == whole => arrived \in ends

SocketInv == TypeOK /\ CallInv /\ WholeInv

(* Chunk is what one read() of the loop returns: at least a byte, no more  *)
(* than has arrived, and all of it if it is shorter than the buffer.       *)
LEMMA ChunkBounds ==
  ASSUME NEW n \in Nat, n > 0
  PROVE  /\ Chunk(n) \in 1 .. n
         /\ Chunk(n) # RECV_BUF_SIZE => Chunk(n) = n
  BY SocketAssumption DEF Chunk

(* The invariant holds when the connection has been made. *)
LEMMA SocketInvInit == Init => SocketInv
  <1> SUFFICES ASSUME Init PROVE SocketInv
    OBVIOUS
  <1>1. whole \in BOOLEAN
    BY SocketAssumption, Zenon DEF Init
  <1>2. ends \subseteq 0 .. total /\ {0, total} \subseteq ends
    BY DEF Init
  <1>3. TypeOK
    BY <1>1, <1>2 DEF Init, TypeOK
  <1>4. CallInv /\ WholeInv
    BY DEF Init, CallInv, WholeInv
  <1> QED BY <1>3, <1>4 DEF SocketInv

(* ::send takes n bytes of the message; if it takes none, send() throws. *)
Accepts(n) ==
  /\ total' = total + n
  /\ ends' = ends \cup {total'}
  /\ sender = "open" /\ sender' \in {"open", "threw"}
  /\ n = 0 => sender' = "threw"

(* Whatever ::send does with a message, it accepts a number of bytes. *)
LEMMA SendAccepts == Send => \E n \in Nat : Accepts(n)
  <1> SUFFICES ASSUME Send PROVE \E n \in Nat : Accepts(n)
    OBVIOUS
  <1>1. PICK length \in Lengths :
          \E accepted \in 0 .. length :
            /\ total' = total + accepted
            /\ ends' = ends \cup {total'}
            /\ sender' = IF accepted = length THEN "open" ELSE "threw"
    BY DEF Send
  <1>2. PICK accepted \in 0 .. length :
            /\ total' = total + accepted
            /\ ends' = ends \cup {total'}
            /\ sender' = IF accepted = length THEN "open" ELSE "threw"
    BY <1>1
  <1>3. length \in Nat /\ length # 0
    BY SocketAssumption
  <1>4. accepted \in Nat /\ Accepts(accepted)
    BY <1>2, <1>3 DEF Accepts, Send
  <1> QED BY <1>4

(* send(), the kernel, receive() and close() keep the types. *)
LEMMA TypeStep == SocketInv /\ [Next]_vars => TypeOK'
  <1> SUFFICES ASSUME SocketInv, [Next]_vars PROVE TypeOK'
    OBVIOUS
  <1> USE DEF SocketInv, TypeOK
  <1>1. CASE Send
    <2>1. PICK n \in Nat : Accepts(n)
      BY <1>1, SendAccepts
    <2>2. total' \in Nat /\ total <= total'
      BY <2>1 DEF Accepts
    <2>3. ends' \subseteq 0 .. total' /\ {0, total'} \subseteq ends'
      BY <2>1, <2>2 DEF Accepts
    <2>4. arrived \in 0 .. total'
      BY <2>2
    <2> QED BY <1>1, <2>1, <2>2, <2>3, <2>4 DEF Send, Accepts, readerVars
  <1>2. CASE Hangup
    BY <1>2 DEF Hangup, readerVars
  <1>3. CASE Arrive
    BY <1>3 DEF Arrive, senderVars, readerVars
  <1>4. CASE Reset
    BY <1>4 DEF Reset, senderVars, readerVars
  <1>5. CASE ReceiveCalled
    BY <1>5 DEF ReceiveCalled, senderVars
  <1>6. CASE Read
    <2>1. Chunk(arrived - taken) \in 1 .. arrived - taken
      BY <1>6, ChunkBounds DEF Read
    <2>2. taken' \in 0 .. arrived /\ taken < taken'
      BY <1>6, <2>1 DEF Read
    <2> QED BY <1>6, <2>2 DEF Read, Return, senderVars
  <1>7. CASE ReadFails
    BY <1>7 DEF ReadFails, senderVars
  <1>8. CASE Ask
    BY <1>8 DEF Ask, Return, senderVars
  <1>9. CASE Close
    BY <1>9 DEF Close, senderVars
  <1>10. CASE UNCHANGED vars
    BY <1>10 DEF vars
  <1> QED BY <1>1, <1>2, <1>3, <1>4, <1>5, <1>6, <1>7, <1>8, <1>9, <1>10
          DEF Next, Receive

(***************************************************************************)
(* The invariant is inductive.  What send() and the kernel do leaves a     *)
(* call where it is; the steps of receive() move it on as CallInv says.    *)
(***************************************************************************)
LEMMA CallStep == SocketInv /\ [Next]_vars => CallInv'
  <1> SUFFICES ASSUME SocketInv, [Next]_vars PROVE CallInv'
    OBVIOUS
  <1> USE DEF SocketInv, TypeOK, CallInv
  <1>1. CASE Send
    BY <1>1 DEF Send, readerVars
  <1>2. CASE Hangup
    BY <1>2 DEF Hangup, readerVars
  <1>3. CASE Arrive
    BY <1>3 DEF Arrive, readerVars
  <1>4. CASE Reset
    BY <1>4 DEF Reset, readerVars
  <1>5. CASE ReceiveCalled
    BY <1>5 DEF ReceiveCalled, IsOpen
  <1>6. CASE Read
    <2>1. taken' \in Nat /\ taken < taken'
      <3>1. Chunk(arrived - taken) \in 1 .. arrived - taken
        BY <1>6, ChunkBounds DEF Read
      <3> QED BY <1>6, <3>1 DEF Read
    <2> QED BY <1>6, <2>1 DEF Read, Return
  <1>7. CASE ReadFails
    BY <1>7 DEF ReadFails
  <1>8. CASE Ask
    BY <1>8 DEF Ask, Return
  <1>9. CASE Close
    BY <1>9 DEF Close
  <1>10. CASE UNCHANGED vars
    BY <1>10 DEF vars
  <1> QED BY <1>1, <1>2, <1>3, <1>4, <1>5, <1>6, <1>7, <1>8, <1>9, <1>10
          DEF Next, Receive

(* Only the kernel moves `arrived', and the ends of sends are kept. *)
LEMMA WholeStep == SocketInv /\ [Next]_vars => WholeInv'
  <1> SUFFICES ASSUME SocketInv, [Next]_vars, whole' PROVE arrived' \in ends'
    BY DEF WholeInv
  <1>1. whole' = whole
    BY DEF Next, Receive, Send, Hangup, Arrive, Reset, ReceiveCalled, Read,
           ReadFails, Ask, Close, vars
  <1>2. arrived \in ends
    BY <1>1 DEF SocketInv, WholeInv
  <1>3. CASE Arrive
    BY <1>1, <1>3 DEF Arrive, senderVars
  <1>4. CASE Send
    BY <1>2, <1>4, SendAccepts DEF Accepts, Send
  <1>5. CASE ~Arrive /\ ~Send
    <2>1. UNCHANGED <<arrived, ends>>
      BY <1>5 DEF Next, Receive, Hangup, Reset, ReceiveCalled, Read,
                  ReadFails, Ask, Close, vars, senderVars
    <2> QED BY <1>2, <2>1
  <1> QED BY <1>3, <1>4, <1>5

(* The invariant holds in every state that a connection reaches. *)
THEOREM SocketInvariant == Spec => []SocketInv
  <1>1. SocketInv /\ [Next]_vars => SocketInv'
    BY TypeStep, CallStep, WholeStep DEF SocketInv
  <1> QED BY <1>1, SocketInvInit, PTL DEF Spec

(***************************************************************************)
(* The positions in the stream stay ordered: receive() never returns what  *)
(* it has not read, nor reads what has not arrived.                        *)
(***************************************************************************)
THEOREM SocketTypeCorrect == Spec => []TypeOK
  <1>1. SocketInv => TypeOK
    BY DEF SocketInv
  <1> QED BY <1>1, SocketInvariant, PTL

(***************************************************************************)
(* Where the network keeps the sends whole, receive() returns whole sends, *)
(* for every size of the buffer: a short read has taken all that arrived,  *)
(* and after a full one receive() asks until nothing is left.  Module      *)
(* Network relies on this; without it the property fails.                  *)
(***************************************************************************)
THEOREM WholeSendsAreReturned == Spec => [](whole => ReturnsWholeMessages)
  <1> DEFINE Returned == whole => delivered \in ends
  <1>1. Init => Returned
    BY DEF Init
  <1>2. SocketInv /\ Returned /\ [Next]_vars => Returned'
    <2> SUFFICES ASSUME SocketInv, Returned, [Next]_vars, whole'
                 PROVE  delivered' \in ends'
      OBVIOUS
    <2>1. whole' = whole /\ arrived \in ends /\ delivered \in ends
      BY DEF Next, Receive, Send, Hangup, Arrive, Reset, ReceiveCalled, Read,
             ReadFails, Ask, Close, vars, SocketInv, WholeInv
    <2>2. ends \subseteq ends'
      BY DEF Next, Receive, Send, Hangup, Arrive, Reset, ReceiveCalled, Read,
             ReadFails, Ask, Close, vars, senderVars
    <2>3. CASE Read
      <3>1. /\ arrived - taken \in Nat /\ arrived - taken > 0
            /\ arrived \in Nat /\ taken \in Nat
        BY <2>3 DEF Read, SocketInv, TypeOK
      <3>2. Chunk(arrived - taken) \in Nat
            /\ (Chunk(arrived - taken) # RECV_BUF_SIZE =>
                 Chunk(arrived - taken) = arrived - taken)
        BY <3>1, ChunkBounds
      <3>3. taken' = taken + Chunk(arrived - taken)
            /\ \/ delivered' = delivered
               \/ delivered' = taken' /\ taken' - taken # RECV_BUF_SIZE
        BY <2>3 DEF Read, Return
      <3>4. delivered' \in {delivered, arrived}
        BY <3>1, <3>2, <3>3
      <3> QED BY <2>1, <2>2, <3>4
    <2>4. CASE Ask
      <3>1. delivered' = delivered \/ (arrived - taken = 0 /\ delivered' = taken)
        BY <2>4 DEF Ask, Return
      <3>2. delivered' \in {delivered, arrived}
        BY <3>1 DEF SocketInv, TypeOK
      <3> QED BY <2>1, <2>2, <3>2
    <2>5. CASE ~Read /\ ~Ask
      <3>1. UNCHANGED delivered
        BY <2>5 DEF Next, Receive, Send, Hangup, Arrive, Reset, ReceiveCalled,
                    ReadFails, Close, vars, readerVars
      <3> QED BY <2>1, <2>2, <3>1
    <2> QED BY <2>3, <2>4, <2>5
  <1>3. Returned => (whole => ReturnsWholeMessages)
    BY DEF ReturnsWholeMessages
  <1> HIDE DEF Returned
  <1> QED BY <1>1, <1>2, <1>3, SocketInvariant, PTL DEF Spec

(***************************************************************************)
(* Only the first read() of a receive() can block, for every size of the   *)
(* buffer: the ioctl has seen what the next one reads.                     *)
(***************************************************************************)
THEOREM OnlyFirstReadCanBlock == Spec => []OnlyFirstReadBlocks
  <1>1. SocketInv => OnlyFirstReadBlocks
    BY DEF SocketInv, CallInv, OnlyFirstReadBlocks
  <1> QED BY <1>1, SocketInvariant, PTL

(***************************************************************************)
(* No byte that read() has copied out is thrown away: receive() throws     *)
(* only when received_data is empty.                                       *)
(***************************************************************************)
THEOREM NothingIsDiscarded == Spec => []NothingDiscarded
  <1>1. SocketInv => NothingDiscarded
    BY DEF SocketInv, CallInv, NothingDiscarded
  <1> QED BY <1>1, SocketInvariant, PTL

(* A step of the socket is a step of the stream it promises, or no step. *)
LEMMA StreamStep ==
  SocketInv /\ [Next]_vars => [Stream!StreamNext]_(Stream!streamVars)
  <1> SUFFICES ASSUME SocketInv, [Next]_vars
               PROVE  Stream!StreamNext \/ UNCHANGED Stream!streamVars
    OBVIOUS
  <1> USE DEF SocketInv, TypeOK
  <1>1. CASE Send
    <2>1. PICK n \in Nat : Accepts(n)
      BY <1>1, SendAccepts
    <2>2. UNCHANGED <<whole, reset, delivered, outcome>>
      BY <1>1 DEF Send, readerVars
    <2>3. CASE n = 0
      <3>1. total' = total /\ ends' = ends
        BY <2>1, <2>3 DEF Accepts
      <3> QED BY <2>1, <2>2, <2>3, <3>1
              DEF Accepts, Stream!StreamNext, Stream!Finished
    <2>4. CASE n # 0
      <3>1. total' \in Nat /\ total' > total
        BY <2>1, <2>4 DEF Accepts
      <3> QED BY <2>1, <2>2, <3>1 DEF Accepts, Stream!StreamNext, Stream!Sent
    <2> QED BY <2>3, <2>4
  <1>2. CASE Hangup
    BY <1>2 DEF Hangup, readerVars, Stream!StreamNext, Stream!Finished,
                Stream!streamVars
  <1>3. CASE Arrive
    BY <1>3 DEF Arrive, senderVars, readerVars, Stream!streamVars
  <1>4. CASE Reset
    BY <1>4 DEF Reset, senderVars, readerVars, Stream!StreamNext,
                Stream!Broken
  <1>5. CASE ReceiveCalled
    BY <1>5 DEF ReceiveCalled, senderVars, Stream!StreamNext, Stream!Failed,
                Stream!streamVars
  <1>6. CASE Read
    <2>1. Chunk(arrived - taken) \in 1 .. arrived - taken
          /\ (Chunk(arrived - taken) # RECV_BUF_SIZE
               => Chunk(arrived - taken) = arrived - taken)
      BY <1>6, ChunkBounds DEF Read
    <2>2. CASE taken' - taken = RECV_BUF_SIZE
      BY <1>6, <2>2 DEF Read, senderVars, Stream!streamVars
    <2>3. CASE taken' - taken # RECV_BUF_SIZE
      <3>1. taken' = arrived /\ taken < taken'
        BY <1>6, <2>1, <2>3 DEF Read
      <3>2. delivered = start
        BY <1>6 DEF Read, CallInv
      <3>3. delivered' = taken' /\ outcome' = "data"
        BY <1>6, <2>3 DEF Read, Return
      <3>4. delivered' \in delivered + 1 .. total
        BY <3>1, <3>2, <3>3
      <3>5. whole => delivered' \in ends
        BY <3>1, <3>3 DEF WholeInv
      <3> QED BY <1>6, <3>3, <3>4, <3>5
              DEF Read, senderVars, Stream!StreamNext, Stream!Delivered
    <2> QED BY <2>2, <2>3
  <1>7. CASE ReadFails
    <2>1. delivered = taken /\ taken = arrived
      BY <1>7 DEF ReadFails, CallInv
    <2> QED BY <1>7, <2>1 DEF ReadFails, AtEof, senderVars,
                              Stream!StreamNext, Stream!Failed
  <1>8. CASE Ask
    <2>1. CASE arrived - taken = 0
      <3>1. taken = arrived /\ delivered < taken
        BY <1>8, <2>1 DEF Ask, CallInv
      <3>2. delivered' = taken /\ outcome' = "data"
        BY <1>8, <2>1 DEF Ask, Return
      <3>3. delivered' \in delivered + 1 .. total
        BY <3>1, <3>2
      <3>4. whole => delivered' \in ends
        BY <3>1, <3>2 DEF WholeInv
      <3> QED BY <1>8, <3>2, <3>3, <3>4
              DEF Ask, senderVars, Stream!StreamNext, Stream!Delivered
    <2>2. CASE arrived - taken # 0
      BY <1>8, <2>2 DEF Ask, senderVars, Stream!streamVars
    <2> QED BY <2>1, <2>2
  <1>9. CASE Close
    BY <1>9 DEF Close, senderVars, Stream!streamVars
  <1>10. CASE UNCHANGED vars
    BY <1>10 DEF vars, Stream!streamVars
  <1> QED BY <1>1, <1>2, <1>3, <1>4, <1>5, <1>6, <1>7, <1>8, <1>9, <1>10
          DEF Next, Receive

(***************************************************************************)
(* receive() implements the stream of module MessageStream: bytes in       *)
(* order, none lost, the end of the stream only at its end, and whole      *)
(* sends where the network keeps them whole.                               *)
(***************************************************************************)
THEOREM SocketKeepsStream == Spec => StreamIsKept
  <1>1. Init => Stream!StreamInit
    BY SocketAssumption DEF Init, Stream!StreamInit
  <1> QED BY <1>1, StreamStep, SocketInvariant, PTL
          DEF Spec, StreamIsKept, Stream!StreamSpec
=============================================================================
