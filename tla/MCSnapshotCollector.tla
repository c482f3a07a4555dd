------------------------ MODULE MCSnapshotCollector ------------------------
(* Two interfaces, each up or down with counters of zero or one, CPU times *)
(* between which the load is 0, 50 or 100 percent or no time passed at all, *)
(* histories of two samples and up to two drives: a volume half full, an   *)
(* empty one, a share three quarters full, a drive that is not ready and   *)
(* one that throws.                                                        *)
EXTENDS SnapshotCollector, TLC

CONSTANTS i1, i2

MCInterfaces == {i1, i2}
MCSymmetry == Permutations(MCInterfaces)

MCCpuTimes == {[idle |-> 0, total |-> 0], [idle |-> 0, total |-> 1], [idle |-> 1, total |-> 2]}

MCStatistics ==
    {[up |-> TRUE, sent |-> 0, received |-> 0],
     [up |-> TRUE, sent |-> 1, received |-> 0],
     [up |-> TRUE, sent |-> 1, received |-> 1],
     [up |-> FALSE, sent |-> 0, received |-> 0],
     [up |-> FALSE, sent |-> 1, received |-> 1]}

MCDrives ==
    {[state |-> "ready", network |-> FALSE, total |-> 2, free |-> 1],
     [state |-> "ready", network |-> FALSE, total |-> 2, free |-> 2],
     [state |-> "ready", network |-> TRUE, total |-> 4, free |-> 1],
     [state |-> "notReady", network |-> FALSE, total |-> 2, free |-> 1],
     [state |-> "throws", network |-> FALSE, total |-> 2, free |-> 1]}
=============================================================================
