------------------------------ MODULE MCStreams ------------------------------
(* An instance of Streams for TLC. *)
EXTENDS Streams, TLC

CONSTANTS a, b, c, u, v, w

\* Three streams to three urls; c may be added.
Urls == a :> u @@ b :> v @@ c :> w
=============================================================================
