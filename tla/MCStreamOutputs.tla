--------------------------- MODULE MCStreamOutputs ---------------------------
(* Instances of StreamOutputs for TLC. *)
EXTENDS StreamOutputs, TLC

CONSTANTS a, b, c, u, v, w

\* Three streams to three urls; c may be added.
Urls == a :> u @@ b :> v @@ c :> w
=============================================================================
