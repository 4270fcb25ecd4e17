---------------------------- MODULE MCVideoBin ----------------------------
EXTENDS VideoBin

CONSTANTS t1, t2

\* A canvas on which the speaker layout has two places.
MCCanvas == [w |-> 256, h |-> 144]

\* The tracks are alike, so it is enough to mute one of them.
MCPlan(mode, layout, tracks, ns, ms, us) ==
    [mode |-> mode, layout |-> layout, tracks |-> tracks, names |-> ns,
     mutes |-> t1 :> ms @@ t2 :> 0, updates |-> us]

MCPlans ==
    {MCPlan("live", "grid", {t1, t2}, 2, 1, 0), MCPlan("live", "grid", {t1}, 2, 2, 0), MCPlan("nonlive", "grid", {t1}, 2, 1, 0)}
    \cup {MCPlan("compositing", "single-speaker", {t1, t2}, 2, 1, 2)}
=============================================================================
