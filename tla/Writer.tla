-------------------------------- MODULE Writer --------------------------------
(***************************************************************************)
(* What the source relies on of the writer of a track: once it ends, for   *)
(* whatever reason, it finishes, and when it does it has ended the stream  *)
(* of its appsrc exactly if the pipeline had been given the appsrc.        *)
(***************************************************************************)
VARIABLES
    life,    \* "live", "ending" or "finished"
    linked,  \* the appsrc is part of the pipeline, or will be
    eos      \* the stream was ended

vars == <<life, linked, eos>>

Init == life = "live" /\ linked = FALSE /\ eos = FALSE

Link ==
    /\ linked' = TRUE
    /\ UNCHANGED <<life, eos>>

\* The track ended, its samples cannot be pushed, or the worker drains the writer.
End ==
    /\ life = "live"
    /\ life' = "ending"
    /\ UNCHANGED <<linked, eos>>

Finish ==
    /\ life = "ending"
    /\ life' = "finished"
    /\ eos' = linked
    /\ UNCHANGED linked

Next == Link \/ End \/ Finish

\* What it may do, and that it gets there.
Safety == Init /\ [][Next]_vars

Spec == Safety /\ WF_vars(Finish)
=============================================================================
