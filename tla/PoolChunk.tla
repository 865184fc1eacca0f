------------------------------ MODULE PoolChunk ------------------------------
(***************************************************************************)
(* src/buffer/PoolChunk.cpp: the runs of pages of one chunk.  A free run   *)
(* is held twice, in the priority queue of its size class (BestFitQueue.h) *)
(* and under its first and its last page in m_runsAvailMap, by which a run *)
(* that is given back finds its free neighbours.                           *)
(***************************************************************************)
EXTENDS Runs

CONSTANT Requests   \* the sizes asked for, in bytes: small or normal classes

(* A request is for a run of the chunk: calculateRunSize() asserts it.     *)
ASSUME RequestsAssumption ==
    /\ Requests \subseteq 1..m_chunkSize
    /\ \A size \in Requests : runPages(size) \in 1..nPages

(* The run of a request is as long as a class of whole pages: the elements *)
(* of a small class fill at most seven pages.                             *)
ASSUME ClassAssumption ==
    \A size \in Requests : page2pageIdx(runPages(size)) = page2pageIdxFloor(runPages(size))

VARIABLES
    m_runsAvail,     \* for each class of whole pages, its queue of free runs
    m_runsAvailMap,  \* page -> the free run that begins or ends there
    m_freeBytes,     \* counted in pages
    inUse,           \* the runs whose handles are out
    freeing          \* free(), which holds m_runAvailMtx: where it is and its run

vars == <<m_runsAvail, m_runsAvailMap, m_freeBytes, inUse, freeing>>

NoRun == RunAt(-1, 0)     \* handle -1
Idle == [pc |-> "idle", handle |-> NoRun, run |-> NoRun]

(* A page to look at may be the one before or the one after the chunk. *)
Offsets == -1..nPages

Avail == UNION {m_runsAvail[i] : i \in 0..(m_nPSizes - 1)}

TypeOK ==
    /\ m_runsAvail \in [0..(m_nPSizes - 1) -> SUBSET Run]
    /\ m_runsAvailMap \in [Offsets -> Run \cup {NoRun}]
    /\ m_freeBytes \in 0..nPages
    /\ inUse \subseteq Run
    /\ \/ freeing = Idle
       \/ freeing \in [pc : {"prev", "next", "insert"}, handle : Run, run : Run]

(* Mutant of MapInserted: the last page of the run is left out. *)
MapInsertedFirst(map, r) == [o \in Offsets |->
    IF o = r.off /\ map[o] = NoRun THEN r ELSE map[o]]

(* insertAvailRun(): a run into its queue and, by insert(), which keeps an *)
(* entry that is there, into the map.                                      *)
Inserted(queues, r) ==
    [queues EXCEPT ![page2pageIdxFloor(r.pages)] = @ \cup {r}]

MapInserted(map, r) == [o \in Offsets |->
    IF o \in {r.off, end(r) - 1} /\ map[o] = NoRun THEN r ELSE map[o]]

(* Mutant of Removed: the run stays in its queue. *)
RemovedNot(queues, r) == [queues EXCEPT ![page2pageIdxFloor(r.pages)] = @ \cup {r}]

(* removeAvailRun(): the run out of its queue, its two pages out of the map. *)
Removed(queues, r) ==
    [queues EXCEPT ![page2pageIdxFloor(r.pages)] = @ \ {r}]

MapRemoved(map, r) == [o \in Offsets |->
    IF o \in {r.off, end(r) - 1} THEN NoRun ELSE map[o]]

(* The chunk as it is built: one run, insertAvailRun(0, pages, ...). *)
Init ==
    /\ m_runsAvail = Inserted([i \in 0..(m_nPSizes - 1) |-> {}], RunAt(0, nPages))
    /\ m_runsAvailMap = MapInserted([o \in Offsets |-> NoRun], RunAt(0, nPages))
    /\ m_freeBytes = nPages
    /\ inUse = {}
    /\ freeing = Idle

-----------------------------------------------------------------------------
AllRequestPages == {runPages(size) : size \in Requests}

(* Mutants of FitQueues: the search starts one queue too high; it takes    *)
(* the last queue that is not empty.                                       *)
FitQueuesAbove(pageIdx) ==
    IF m_freeBytes = nPages THEN {m_nPSizes - 1}
    ELSE {i \in (pageIdx + 1)..(m_nPSizes - 1) : m_runsAvail[i] # {}}

FitQueuesLast(pageIdx) ==
    {i \in pageIdx..(m_nPSizes - 1) :
        m_runsAvail[i] # {} /\ \A j \in (i + 1)..(m_nPSizes - 1) : m_runsAvail[j] = {}}

(* runBestFit(): the queues that may serve a class; an untouched chunk is  *)
(* served from the last one without looking at it.                         *)
FitQueues(pageIdx) ==
    IF m_freeBytes = nPages THEN {m_nPSizes - 1}
    ELSE {i \in pageIdx..(m_nPSizes - 1) : m_runsAvail[i] # {}}

(* allocateRun(), under m_runAvailMtx: pops the run at the lowest offset   *)
(* of the first queue that fits, and splitLargeRun() puts back its rest.   *)
AllocateRun(pages) ==
    /\ freeing = Idle
    /\ \E i \in FitQueues(page2pageIdx(pages)) :
          /\ \A j \in FitQueues(page2pageIdx(pages)) : i <= j
          /\ \E r \in m_runsAvail[i] :
                /\ \A s \in m_runsAvail[i] : r.off <= s.off
                /\ LET rest == RunAt(r.off + pages, r.pages - pages)
                       queues == Removed(m_runsAvail, r)
                       map == MapRemoved(m_runsAvailMap, r)
                   IN IF r.pages = pages
                      THEN m_runsAvail' = queues /\ m_runsAvailMap' = map
                      ELSE /\ m_runsAvail' = Inserted(queues, rest)
                           /\ m_runsAvailMap' = MapInserted(map, rest)
                /\ m_freeBytes' = m_freeBytes - pages
                /\ inUse' = inUse \cup {RunAt(r.off, pages)}
    /\ UNCHANGED freeing

(* free() of a run: takes m_runAvailMtx. *)
FreeRun(r) ==
    /\ freeing = Idle
    /\ r \in inUse
    /\ freeing' = [pc |-> "prev", handle |-> r, run |-> r]
    /\ UNCHANGED <<m_runsAvail, m_runsAvailMap, m_freeBytes, inUse>>

(* One turn of the loop of collapsePrev(). *)
CollapsePrev ==
    LET run == freeing.run
        prev == m_runsAvailMap[run.off - 1]
    IN /\ freeing.pc = "prev"
       /\ IF prev # NoRun /\ prev # run /\ end(prev) = run.off
          THEN /\ m_runsAvail' = Removed(m_runsAvail, prev)
               /\ m_runsAvailMap' = MapRemoved(m_runsAvailMap, prev)
               /\ freeing' = [freeing EXCEPT !.run = RunAt(prev.off, prev.pages + run.pages)]
          ELSE /\ freeing' = [freeing EXCEPT !.pc = "next"]
               /\ UNCHANGED <<m_runsAvail, m_runsAvailMap>>
       /\ UNCHANGED <<m_freeBytes, inUse>>

(* One turn of the loop of collapseNext(). *)
CollapseNext ==
    LET run == freeing.run
        next == m_runsAvailMap[end(run)]
    IN /\ freeing.pc = "next"
       /\ IF next # NoRun /\ next # run /\ end(run) = next.off
          THEN /\ m_runsAvail' = Removed(m_runsAvail, next)
               /\ m_runsAvailMap' = MapRemoved(m_runsAvailMap, next)
               /\ freeing' = [freeing EXCEPT !.run = RunAt(run.off, next.pages + run.pages)]
          ELSE /\ freeing' = [freeing EXCEPT !.pc = "insert"]
               /\ UNCHANGED <<m_runsAvail, m_runsAvailMap>>
       /\ UNCHANGED <<m_freeBytes, inUse>>

(* The end of free(): the merged run is available, the lock released. *)
InsertFreed ==
    /\ freeing.pc = "insert"
    /\ m_runsAvail' = Inserted(m_runsAvail, freeing.run)
    /\ m_runsAvailMap' = MapInserted(m_runsAvailMap, freeing.run)
    /\ m_freeBytes' = m_freeBytes + freeing.handle.pages
    /\ inUse' = inUse \ {freeing.handle}
    /\ freeing' = Idle

Next ==
    \/ \E pages \in AllRequestPages : AllocateRun(pages)
    \/ \E r \in Run : FreeRun(r)
    \/ CollapsePrev
    \/ CollapseNext
    \/ InsertFreed

Spec == Init /\ [][Next]_vars

-----------------------------------------------------------------------------
(* The runs that pages belong to; free()'s counts with what it has merged. *)
Held == Avail \cup (inUse \ {freeing.handle})
        \cup (IF freeing = Idle THEN {} ELSE {freeing.run})

(* No page belongs to two runs, free or not, at any moment of a split or   *)
(* of a merge, and none is lost (allocateRun, splitLargeRun, collapseRuns).*)
PagesPartitioned ==
    /\ \A r, s \in Held : r # s => ~Overlap(r, s)
    /\ Covered(Held) = 0..(nPages - 1)
    /\ Avail \cap inUse = {} /\ freeing.run \notin Avail

(* The map and the queues tell the same: a page is in the map exactly when *)
(* a free run begins or ends there, and each free run lies in the one      *)
(* queue of its class, where removeAvailRun() will look for it.            *)
MapMatchesQueues ==
    /\ \A i \in 0..(m_nPSizes - 1) : \A r \in m_runsAvail[i] :
          /\ i = page2pageIdxFloor(r.pages)
          /\ m_runsAvailMap[r.off] = r /\ m_runsAvailMap[end(r) - 1] = r
    /\ \A o \in Offsets : m_runsAvailMap[o] # NoRun =>
          m_runsAvailMap[o] \in Avail
          /\ o \in {m_runsAvailMap[o].off, end(m_runsAvailMap[o]) - 1}

(* Between calls the free runs are the gaps between the runs in use: every *)
(* free has merged all it could, in any order of frees.                    *)
AvailAreGaps == freeing = Idle => Avail = Gaps(inUse)

(* m_freeBytes, by which the arena moves and destroys chunks, is exact,    *)
(* and says untouched only of a chunk whose last queue holds it whole:     *)
(* runBestFit() and the assertion after it rely on that (PoolChunk.cpp:184,*)
(* 226).                                                                   *)
FreeBytesExact == freeing = Idle =>
    /\ m_freeBytes = nPages - Cardinality(Covered(inUse))
    /\ m_freeBytes = nPages => m_runsAvail[m_nPSizes - 1] = {RunAt(0, nPages)}

(* A request is refused, and the arena then adds a chunk, only when no gap *)
(* is long enough: the classes of runBestFit() never hide one that is.     *)
RefusedOnlyWithoutRoom == freeing = Idle =>
    \A pages \in AllRequestPages :
        FitQueues(page2pageIdx(pages)) = {} =>
            \A g \in Gaps(inUse) : g.pages < pages

(* The lookups of the size classes agree with their references.  They are  *)
(* constant: the untouched chunk stands for every state.                   *)
SizesLookedUp == inUse = {} => LookupsExact

(* The chunk implements the abstract one. *)
Abstract == INSTANCE PoolChunkSpec
Refinement == Abstract!Spec
=============================================================================
