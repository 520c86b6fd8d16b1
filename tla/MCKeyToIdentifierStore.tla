------------------------ MODULE MCKeyToIdentifierStore ------------------------
(* Instances of KeyToIdentifierStore for TLC. *)
EXTENDS KeyToIdentifierStore, TLC

CONSTANTS h1, h2, h3, k1, k2, k3, k4

\* h2 and h3 are sessions with one key; they want h1, which wants them
SharedKeys  == h1 :> k1 @@ h2 :> k2 @@ h3 :> k2
SharedWants == h1 :> k2 @@ h2 :> k1 @@ h3 :> k1

\* h1 waits while h2 and h3 register for each other
OtherKeys  == h1 :> k1 @@ h2 :> k2 @@ h3 :> k3
OtherWants == h1 :> k4 @@ h2 :> k3 @@ h3 :> k2
=============================================================================
