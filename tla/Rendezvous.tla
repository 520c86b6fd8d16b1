------------------------------ MODULE Rendezvous ------------------------------
(***************************************************************************)
(* What p2psc::connect promises its callers: the abstract specification    *)
(* that module Connection implements, whoever plays the Mediator.          *)
(*                                                                         *)
(* A session takes one of two sides.  As Peer it verifies one Client; as   *)
(* Client it confirms the Peer that has verified it.  A session reports a  *)
(* socket only after it has done so, and it reports once, except that a    *)
(* callback that throws when it is given its socket is called again.       *)
(***************************************************************************)
EXTENDS Sequences

CONSTANTS Session, KeyOf, Wants, ErrorKind, None

VARIABLES verified,   \* verified[p]: the Client that p has verified
          confirmed,  \* confirmed[c]: the Peer that c has confirmed
          reports     \* the calls of a session's callback

rendezvousVars == <<verified, confirmed, reports>>

RendezvousInit ==
  /\ verified = [s \in Session |-> None]
  /\ confirmed = [s \in Session |-> None]
  /\ reports = [s \in Session |-> <<>>]

Paired(s) == verified[s] # None \/ confirmed[s] # None

Mutual(p, c) == KeyOf[p] = Wants[c] /\ KeyOf[c] = Wants[p]

(* p has checked that c is who it wants, and c that p is; c is p's alone. *)
Verify(p, c) ==
  /\ p # c /\ Mutual(p, c)
  /\ ~Paired(p) /\ ~Paired(c) /\ reports[p] = <<>>
  /\ \A q \in Session : verified[q] # c
  /\ verified' = [verified EXCEPT ![p] = c]
  /\ UNCHANGED <<confirmed, reports>>

(* c has learnt that p has verified it. *)
Confirm(c, p) ==
  /\ verified[p] = c
  /\ ~Paired(c) /\ reports[c] = <<>>
  /\ confirmed' = [confirmed EXCEPT ![c] = p]
  /\ UNCHANGED <<verified, reports>>

Report(s, outcome) ==
  /\ \/ reports[s] = <<>> /\ (outcome = "socket" <=> Paired(s))
     \/ reports[s] = <<"socket">> /\ outcome = "kErrorUnknown"
  /\ reports' = [reports EXCEPT ![s] = Append(@, outcome)]
  /\ UNCHANGED <<verified, confirmed>>

RendezvousNext ==
  \E s \in Session :
    \/ \E t \in Session : Verify(s, t) \/ Confirm(s, t)
    \/ \E outcome \in ErrorKind \cup {"socket"} : Report(s, outcome)

RendezvousSpec == RendezvousInit /\ [][RendezvousNext]_rendezvousVars
=============================================================================
