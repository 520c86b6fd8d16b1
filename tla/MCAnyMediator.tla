---------------------------- MODULE MCAnyMediator ----------------------------
(* Instances of AnyMediator for TLC. *)
EXTENDS AnyMediator, TLC

CONSTANTS s1, s2, k1, k2

PairKeys  == s1 :> k1 @@ s2 :> k2
PairWants == s1 :> k2 @@ s2 :> k1

SameVersions == [s \in Session |-> 0]
=============================================================================
