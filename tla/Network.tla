------------------------------- MODULE Network -------------------------------
(***************************************************************************)
(* TCP connections as Socket (src/socket/socket.cpp) uses them.            *)
(*                                                                         *)
(* A session dials at most two connections: "med" to the Mediator and      *)
(* "p2p" to the other peer.  A connection has two ends, and inbox[e] holds *)
(* what has been sent to end e and not been read there.  Nothing is lost   *)
(* or reordered inside a connection, and one send() arrives whole (the     *)
(* messages are shorter than a segment), but TCP keeps no message          *)
(* boundaries: read() may return several sends at once.                    *)
(***************************************************************************)
EXTENDS Messages

VARIABLES inbox,   \* inbox[e]: what read() on end e can return
          open     \* open[e]: the descriptor of end e is open

netVars == <<inbox, open>>

Endpoint == {"med", "p2p"} \X Session \X {"dialer", "acceptor"}

MedEnd(s)     == <<"med", s, "dialer">>      \* s's socket to the Mediator
HandlerEnd(s) == <<"med", s, "acceptor">>    \* the Mediator's socket to s
ClientEnd(c)  == <<"p2p", c, "dialer">>      \* c's socket to its Peer
PeerEnd(c)    == <<"p2p", c, "acceptor">>    \* the Peer's socket to c

Far(e) == <<e[1], e[2], IF e[3] = "dialer" THEN "acceptor" ELSE "dialer">>

(* The messages an end has been sent and has not read. *)
Unread(e) == {inbox[e][i] : i \in DOMAIN inbox[e]}

NetTypeOK == /\ inbox \in [Endpoint -> Seq(Message)]
             /\ open \in [Endpoint -> BOOLEAN]

NetInit == /\ inbox = [e \in Endpoint |-> <<>>]
           /\ open = [e \in Endpoint |-> FALSE]
-----------------------------------------------------------------------------
(***************************************************************************)
(* Socket::_connect.  The kernel completes the connection on both sides;   *)
(* the accepting program need not have called accept() yet.                *)
(***************************************************************************)
Establish(e) == open' = [open EXCEPT ![e] = TRUE, ![Far(e)] = TRUE]

(***************************************************************************)
(* Socket::send.  What is sent to an end that has been closed is lost, and *)
(* once the reset that it causes is back, send() throws: SendMayThrow.     *)
(***************************************************************************)
Send(e, m) ==
  inbox' = IF open[Far(e)] THEN [inbox EXCEPT ![Far(e)] = Append(@, m)]
                           ELSE inbox

SendMayThrow(e) == ~open[Far(e)]

(***************************************************************************)
(* Socket::receive followed by decode<T>.  The next send can be read alone *)
(* and decoded (Readable); or the decoder refuses what was read, which is  *)
(* one send of the wrong shape or more than one (Undecodable); or the      *)
(* other end has closed and nothing is left to read (AtEof).  In all other *)
(* cases read() blocks (Blocks).                                           *)
(***************************************************************************)
Readable(e, T) == inbox[e] # <<>> /\ Decodes(T, Head(inbox[e]))

ReadableAnyType(e) == inbox[e] # <<>> /\ DecodesType(Head(inbox[e]))

Undecodable(e, T) == \/ Len(inbox[e]) > 1
                     \/ inbox[e] # <<>> /\ ~Decodes(T, Head(inbox[e]))

UndecodableType(e) == \/ Len(inbox[e]) > 1
                      \/ inbox[e] # <<>> /\ ~DecodesType(Head(inbox[e]))

AtEof(e) == inbox[e] = <<>> /\ ~open[Far(e)]

Blocks(e) == inbox[e] = <<>> /\ open[Far(e)]

(* receive() on e finds at most one message, of one of these types. *)
Finds(e, types) ==
  Len(inbox[e]) <= 1 /\ (inbox[e] # <<>> => Head(inbox[e]).type \in types)

(* mutant: a read that leaves the data in the buffer *)
ReceivePeek(e) == UNCHANGED inbox

Receive(e) == inbox' = [inbox EXCEPT ![e] = Tail(@)]
=============================================================================
