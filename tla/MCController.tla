---------------------------- MODULE MCController ----------------------------
(* Instances of Controller for TLC. *)
EXTENDS Controller

File(isLive, which) ==
    [live |-> isLive, finalize |-> TRUE, trackOnly |-> FALSE, limits |-> which,
     events |-> {}]
Stream(which) == [File(TRUE, which) EXCEPT !.finalize = FALSE]
Track(isLive) == [File(isLive, {}) EXCEPT !.trackOnly = TRUE]
With(config, which) == [config EXCEPT !.events = which]

\* Recordings that are stopped, killed or fail outside the bus, one with a storage
\* limit, a stream with a session limit, and the replay of a single video track.
AllConfigs ==
    {With(File(TRUE, {}), {"stop", "bus"}), With(File(TRUE, {}), {"kill", "bus"}),
     With(File(TRUE, {}), {"error"}), File(TRUE, {"storage"}), Stream({"session"}),
     With(Track(FALSE), {"stop", "bus"})}
=============================================================================
