------------------------------- MODULE MCP2psc -------------------------------
(* Instances of P2psc for TLC. *)
EXTENDS P2psc, TLC

CONSTANTS s1, s2, s3, k1, k2, k3

\* two peers that want each other
PairKeys  == s1 :> k1 @@ s2 :> k2
PairWants == s1 :> k2 @@ s2 :> k1

\* a third peer that wants s2, which wants s1
ContendedKeys  == s1 :> k1 @@ s2 :> k2 @@ s3 :> k3
ContendedWants == s1 :> k2 @@ s2 :> k1 @@ s3 :> k2

SameVersions == [s \in Session |-> 0]
=============================================================================
