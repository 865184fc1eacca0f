---------------------------- MODULE PoolChunkSpec ----------------------------
(***************************************************************************)
(* What a chunk promises of its pages: the runs in use never overlap, a    *)
(* run is taken from the start of the best fitting gap between them, and a *)
(* run that is given back widens the gap it lies in at once, whatever the  *)
(* order of the calls has been.                                            *)
(***************************************************************************)
EXTENDS Runs

VARIABLE inUse   \* the runs handed out

Init == inUse = {}

Allocate == \E pages \in 1..nPages : \E g \in BestFits(inUse, pages) :
    inUse' = inUse \cup {RunAt(g.off, pages)}

Free == \E r \in inUse : inUse' = inUse \ {r}

Spec == Init /\ [][Allocate \/ Free]_inUse
=============================================================================
