----------------------------- MODULE MCSegments -----------------------------
(* Instances of Segments for TLC. *)
EXTENDS Segments

Conf(fmp4, backup, isLive, n) ==
    [fmp4 |-> fmp4, backup |-> backup, live |-> isLive, segments |-> n]

\* fmp4 segments and TS segments with a live playlist: three segments on one storage,
\* two on a storage with a backup.
MostConfigs ==
    {Conf(TRUE, FALSE, FALSE, 3), Conf(TRUE, TRUE, FALSE, 2),
     Conf(FALSE, FALSE, TRUE, 3), Conf(FALSE, TRUE, TRUE, 2)}
=============================================================================
