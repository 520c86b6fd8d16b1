-------------------------------- MODULE Socket --------------------------------
(***************************************************************************)
(* Socket (src/socket/socket.cpp) over a byte stream: one direction of a   *)
(* TCP connection, with the Socket that sends, the kernel that transports, *)
(* and the Socket that receives through a buffer of RECV_BUF_SIZE bytes.   *)
(*                                                                         *)
(* Bytes are numbered in the order in which they are sent.  The kernel has *)
(* received the bytes up to `arrived' and read() has copied out those up   *)
(* to `taken'; received_data holds the bytes from start + 1 to taken.      *)
(***************************************************************************)
EXTENDS Integers

CONSTANTS RECV_BUF_SIZE,
          Lengths,    \* lengths of the messages given to send()
          MaxBytes,   \* bound on the bytes sent
          Regimes     \* whether the network may cut a send, or may not

ASSUME SocketAssumption ==
  /\ RECV_BUF_SIZE \in Nat \ {0}
  /\ Lengths \subseteq Nat \ {0}
  /\ MaxBytes \in Nat
  /\ Regimes \subseteq BOOLEAN

VARIABLES whole,      \* the network keeps every send in one piece
          sender,     \* the sending Socket: "open", "threw", "closed"
          ends,       \* the positions at which a ::send ended, and 0
          total,      \* the last byte sent
          reset,      \* the connection was reset and the reader knows
          arrived, taken, start,
          reader,     \* where receive() is
          delivered,  \* the last byte returned to the caller
          outcome     \* how the last receive() ended

vars == <<whole, sender, ends, total, reset, arrived, taken, start, reader,
          delivered, outcome>>

senderVars == <<sender, ends, total>>
readerVars == <<taken, start, reader, delivered, outcome>>

TypeOK ==
  /\ whole \in BOOLEAN
  /\ sender \in {"open", "threw", "closed"}
  /\ total \in Nat /\ ends \subseteq 0 .. total /\ {0, total} \subseteq ends
  /\ reset \in BOOLEAN
  /\ arrived \in 0 .. total /\ taken \in 0 .. arrived /\ start \in 0 .. taken
  /\ reader \in {"idle", "read", "ask", "closed"}
  /\ delivered \in 0 .. taken
  /\ outcome \in {"none", "data", "eof", "error", "notOpen"}

Init ==
  /\ whole \in Regimes
  /\ sender = "open" /\ ends = {0} /\ total = 0 /\ reset = FALSE
  /\ arrived = 0 /\ taken = 0 /\ start = 0
  /\ reader = "idle" /\ delivered = 0 /\ outcome = "none"
-----------------------------------------------------------------------------
(* The sending Socket *)

(***************************************************************************)
(* send(): ::send accepts all bytes, or fewer, or fails; in the last two   *)
(* cases the size it returns is not the length and send() throws.  The     *)
(* caller's unwinding then destroys the Socket (Hangup).                   *)
(***************************************************************************)
Send ==
  /\ sender = "open"
  /\ \E length \in Lengths :
       /\ total + length <= MaxBytes
       /\ \E accepted \in 0 .. length :
            /\ accepted = 0 => reader = "closed" \/ reset
            /\ total' = total + accepted
            /\ ends' = ends \cup {total'}
            /\ sender' = IF accepted = length THEN "open" ELSE "threw"
  /\ UNCHANGED <<whole, reset, arrived, readerVars>>

(* close() and the destructor *)
Hangup ==
  /\ sender \in {"open", "threw"}
  /\ sender' = "closed"
  /\ UNCHANGED <<whole, ends, total, reset, arrived, readerVars>>
-----------------------------------------------------------------------------
(* The kernel *)

(***************************************************************************)
(* Bytes arrive in order.  Where the network keeps the sends whole, what   *)
(* has arrived ends with a send.                                           *)
(***************************************************************************)
Arrive ==
  /\ ~reset
  /\ arrived' \in arrived + 1 .. total
  /\ whole => arrived' \in ends
  /\ UNCHANGED <<whole, senderVars, reset, readerVars>>

(* The other process has died, or its machine: what is in flight is lost. *)
Reset ==
  /\ ~reset /\ reset' = TRUE
  /\ UNCHANGED <<whole, senderVars, arrived, readerVars>>

(* The FIN comes after the last byte. *)
AtEof == sender = "closed" /\ arrived = total
-----------------------------------------------------------------------------
(* The receiving Socket *)

(* _check_is_open *)
IsOpen == reader # "closed"

ReceiveCalled ==
  /\ \/ /\ IsOpen /\ reader = "idle"
        /\ reader' = "read" /\ start' = taken
        /\ UNCHANGED outcome
     \/ /\ ~IsOpen
        /\ outcome' = "notOpen"
        /\ UNCHANGED <<reader, start>>
  /\ UNCHANGED <<whole, senderVars, reset, arrived, taken, delivered>>

(* mutant: received_data takes the whole buffer *)
WholeBuffer(available) == RECV_BUF_SIZE

(* What read() returns when there is something to read. *)
Chunk(available) ==
  IF available < RECV_BUF_SIZE THEN available ELSE RECV_BUF_SIZE

(* receive() returns received_data, which ends at `last'. *)
Return(last) ==
  /\ reader' = "idle" /\ outcome' = "data" /\ delivered' = last

(* mutant: the loop is left after the first read *)
ReadOnce ==
  /\ reader = "read"
  /\ taken < arrived
  /\ taken' = taken + Chunk(arrived - taken)
  /\ Return(taken')
  /\ UNCHANGED <<whole, senderVars, reset, arrived, start>>

(***************************************************************************)
(* One read() of the loop, with bytes to read.  A read shorter than the    *)
(* buffer ends the loop; after a full one receive() asks for the rest.     *)
(***************************************************************************)
Read ==
  /\ reader = "read"
  /\ taken < arrived
  /\ taken' = taken + Chunk(arrived - taken)
  /\ IF taken' - taken = RECV_BUF_SIZE
       THEN reader' = "ask" /\ UNCHANGED <<outcome, delivered>>
       ELSE Return(taken')
  /\ UNCHANGED <<whole, senderVars, reset, arrived, start>>

(***************************************************************************)
(* read() returns 0 at the end of the stream and -1 on a connection that   *)
(* was reset, once nothing is left to read.  Both throw, and received_data *)
(* is gone.                                                                *)
(***************************************************************************)
ReadFails ==
  /\ reader = "read"
  /\ taken = arrived
  /\ \/ reset /\ outcome' = "error"
     \/ ~reset /\ AtEof /\ outcome' = "eof"
  /\ reader' = "idle"
  /\ UNCHANGED <<whole, senderVars, reset, arrived, taken, start, delivered>>

(* mutant: no ioctl after a full read *)
AskNothing ==
  /\ reader = "ask"
  /\ reader' = "read"
  /\ UNCHANGED <<whole, senderVars, reset, arrived, taken, start, delivered,
                 outcome>>

(* ioctl(FIONREAD): what has arrived and has not been read. *)
Ask ==
  /\ reader = "ask"
  /\ \/ arrived - taken = 0 /\ Return(taken)
     \/ /\ arrived - taken # 0
        /\ reader' = "read"
        /\ UNCHANGED <<outcome, delivered>>
  /\ UNCHANGED <<whole, senderVars, reset, arrived, taken, start>>

(* close() or the destructor, between two calls of receive() *)
Close ==
  /\ reader = "idle"
  /\ reader' = "closed"
  /\ UNCHANGED <<whole, senderVars, reset, arrived, taken, start, delivered,
                 outcome>>

Receive == Read \/ ReadFails \/ Ask

Next == Send \/ Hangup \/ Arrive \/ Reset \/ ReceiveCalled \/ Receive \/ Close

Spec == Init /\ [][Next]_vars

(* The receiving thread runs; nothing is assumed of the sender. *)
FairSpec == Spec /\ WF_vars(Receive)
-----------------------------------------------------------------------------
(***************************************************************************)
(* Only the first read() of a receive() can block: when the loop goes      *)
(* around again there is something to read, even if it is the end of the   *)
(* stream that comes next.                                                 *)
(***************************************************************************)
OnlyFirstReadBlocks == reader = "read" /\ start < taken => taken < arrived

(***************************************************************************)
(* Every byte that read() has copied out is returned to the caller before  *)
(* receive() is called again: no exception throws away received_data.      *)
(***************************************************************************)
NothingDiscarded == reader \in {"idle", "closed"} => delivered = taken

(***************************************************************************)
(* A receive() for which something has arrived returns unless still more   *)
(* arrives: the loop never waits for what the other side may send.  That   *)
(* it returns at all cannot be promised, since each read() that fills the  *)
(* buffer makes it look for more, and a sender that keeps RECV_BUF_SIZE    *)
(* bytes ahead of it keeps it in the loop.                                 *)
(***************************************************************************)
ReceiveReturns ==
  \A n \in 1 .. MaxBytes :
    reader \in {"read", "ask"} /\ start < arrived /\ arrived = n
      ~> reader = "idle" \/ arrived # n

(***************************************************************************)
(* receive() returns whole messages, so that the layer above need not call *)
(* it again for the rest of one, as the comment on its loop says and the   *)
(* tests of Socket assert.                                                 *)
(***************************************************************************)
ReturnsWholeMessages == outcome = "data" => delivered \in ends

(***************************************************************************)
(* receive() gives its caller the stream of module MessageStream.          *)
(***************************************************************************)
Stream == INSTANCE MessageStream
            WITH closed <- sender # "open", broken <- reset

StreamIsKept == Stream!StreamSpec
=============================================================================
