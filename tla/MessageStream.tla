---------------------------- MODULE MessageStream ----------------------------
(***************************************************************************)
(* What a reader may expect of one direction of a connection: bytes arrive *)
(* in order, none is lost between two calls of receive(), the end of the   *)
(* stream is reported after the last byte, and, where the network keeps    *)
(* the sends whole, receive() returns whole sends.  This is the view that  *)
(* module Network takes of a connection.                                   *)
(*                                                                         *)
(* Bytes are numbered from 1 in the order in which they are sent, so a     *)
(* position stands for everything up to that byte.                         *)
(***************************************************************************)
EXTENDS Integers

VARIABLES whole,      \* every send arrives in one piece
          ends,       \* the positions at which a send ended, and 0
          total,      \* the last byte sent
          closed,     \* nothing more will be sent
          broken,     \* the connection was reset
          delivered,  \* the last byte that receive() has returned
          outcome     \* how the last receive() ended

streamVars == <<whole, ends, total, closed, broken, delivered, outcome>>

StreamInit ==
  /\ whole \in BOOLEAN
  /\ ends = {0} /\ total = 0 /\ closed = FALSE /\ broken = FALSE
  /\ delivered = 0 /\ outcome = "none"

Sent ==
  /\ ~closed
  /\ total' \in Nat /\ total' > total
  /\ ends' = ends \cup {total'}
  /\ closed' \in BOOLEAN
  /\ UNCHANGED <<whole, broken, delivered, outcome>>

Finished ==
  /\ ~closed /\ closed' = TRUE
  /\ UNCHANGED <<whole, ends, total, broken, delivered, outcome>>

Broken ==
  /\ ~broken /\ broken' = TRUE
  /\ UNCHANGED <<whole, ends, total, closed, delivered, outcome>>

Delivered ==
  /\ delivered' \in delivered + 1 .. total
  /\ whole => delivered' \in ends
  /\ outcome' = "data"
  /\ UNCHANGED <<whole, ends, total, closed, broken>>

Failed ==
  /\ \/ outcome' = "eof" /\ closed /\ delivered = total
     \/ outcome' = "error" /\ broken
     \/ outcome' = "notOpen"
  /\ UNCHANGED <<whole, ends, total, closed, broken, delivered>>

StreamNext == Sent \/ Finished \/ Broken \/ Delivered \/ Failed

StreamSpec == StreamInit /\ [][StreamNext]_streamVars
=============================================================================
