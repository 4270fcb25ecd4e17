------------------------------ MODULE MCService ------------------------------
(* Instances of Service for TLC. *)
EXTENDS Service, TLC

CONSTANTS r1, r2, e1, e2

\* Two calls for two egresses, or twice the same call.
Distinct == r1 :> e1 @@ r2 :> e2
Duplicate == r1 :> e1 @@ r2 :> e1
=============================================================================
