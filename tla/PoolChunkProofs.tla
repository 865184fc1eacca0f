---------------------------- MODULE PoolChunkProofs ----------------------------
(***************************************************************************)
(* Proofs about PoolChunk, for every chunk whose size tables meet the      *)
(* assumptions on them: its pages are always partitioned, the map and the  *)
(* queues agree, the free runs are the gaps between the runs in use, no    *)
(* request is refused that has room, and the chunk implements              *)
(* PoolChunkSpec.                                                          *)
(***************************************************************************)
EXTENDS PoolChunk, FiniteSetTheorems, TLAPS

Classes == 0..(m_nPSizes - 1)

Disjoint(S) == \A r, s \in S : r # s => ~Overlap(r, s)

(* The queues and the map of a set of free runs. *)
QueuesOf(A, queues) ==
    /\ queues \in [Classes -> SUBSET Run]
    /\ \A i \in Classes : \A r \in queues[i] : i = page2pageIdxFloor(r.pages)
    /\ A = UNION {queues[i] : i \in Classes}

MapOf(A, map) ==
    /\ map \in [Offsets -> Run \cup {NoRun}]
    /\ \A r \in A : map[r.off] = r /\ map[end(r) - 1] = r
    /\ \A o \in Offsets : map[o] # NoRun =>
          map[o] \in A /\ o \in {map[o].off, end(map[o]) - 1}

-----------------------------------------------------------------------------
(* Runs. *)
LEMMA RunFacts ==
    ASSUME NEW r \in Run
    PROVE  /\ r.off \in Nat /\ r.pages \in Nat \ {0} /\ r.pages \in 1..nPages
           /\ end(r) \in Nat /\ end(r) = r.off + r.pages /\ end(r) <= nPages
           /\ r.off < end(r) /\ nPages \in Nat \ {0}
           /\ r.off \in Offsets /\ end(r) - 1 \in Offsets /\ end(r) \in Offsets
           /\ r.off - 1 \in Offsets
           /\ page2pageIdxFloor(r.pages) \in Classes
           /\ r = RunAt(r.off, r.pages) /\ r # NoRun
  BY PagesAssumption DEF Run, end, Offsets, Classes, RunAt, NoRun

LEMMA RunMade ==
    ASSUME NEW o \in Int, NEW p \in Int, o >= 0, p >= 1, o + p <= nPages
    PROVE  /\ RunAt(o, p) \in Run
           /\ RunAt(o, p).off = o /\ RunAt(o, p).pages = p /\ end(RunAt(o, p)) = o + p
  BY PagesAssumption DEF Run, RunAt, end

LEMMA RunEqual ==
    ASSUME NEW r \in Run, NEW s \in Run, r.off = s.off, r.pages = s.pages
    PROVE  r = s
  BY RunFacts

LEMMA NoRunFacts == NoRun.off = -1 /\ NoRun.pages = 0 /\ NoRun \notin Run
  BY RunFacts DEF NoRun, RunAt

(* Disjoint runs share no page, and so neither their first nor their last. *)
LEMMA DisjointEnds ==
    ASSUME NEW r \in Run, NEW s \in Run, ~Overlap(r, s)
    PROVE  /\ r.off # s.off /\ end(r) # end(s)
           /\ r.off # end(s) - 1 /\ s.off # end(r) - 1
           /\ end(r) <= s.off \/ end(s) <= r.off
  BY RunFacts DEF Overlap

LEMMA Pages ==
    ASSUME NEW r \in Run, NEW x
    PROVE  x \in pagesOf(r) <=> x \in Int /\ r.off <= x /\ x < end(r)
  BY RunFacts DEF pagesOf

-----------------------------------------------------------------------------
(* insertAvailRun() and removeAvailRun() keep the queues and the map.      *)
LEMMA QueueInsert ==
    ASSUME NEW A, NEW queues, QueuesOf(A, queues), NEW r \in Run
    PROVE  QueuesOf(A \cup {r}, Inserted(queues, r))
<1> DEFINE c == page2pageIdxFloor(r.pages)
<1>1. c \in Classes
  BY RunFacts
<1>2. \A i \in Classes : Inserted(queues, r)[i] = IF i = c THEN queues[i] \cup {r} ELSE queues[i]
  BY <1>1 DEF Inserted, QueuesOf
<1>3. Inserted(queues, r) \in [Classes -> SUBSET Run]
  BY <1>1 DEF Inserted, QueuesOf
<1>4. \A i \in Classes : \A s \in Inserted(queues, r)[i] : i = page2pageIdxFloor(s.pages)
  BY <1>2 DEF QueuesOf
<1>5. A \cup {r} = UNION {Inserted(queues, r)[i] : i \in Classes}
  <2>1. ASSUME NEW s \in A PROVE \E i \in Classes : s \in Inserted(queues, r)[i]
    <3>1. PICK i \in Classes : s \in queues[i]
      BY DEF QueuesOf
    <3> QED
      BY <1>2, <3>1
  <2>2. r \in Inserted(queues, r)[c]
    BY <1>1, <1>2
  <2>3. ASSUME NEW i \in Classes, NEW s \in Inserted(queues, r)[i] PROVE s \in A \cup {r}
    BY <1>2 DEF QueuesOf
  <2> QED
    BY <1>1, <2>1, <2>2, <2>3
<1> QED
  BY <1>3, <1>4, <1>5 DEF QueuesOf

LEMMA QueueRemove ==
    ASSUME NEW A, NEW queues, QueuesOf(A, queues), NEW r \in A
    PROVE  QueuesOf(A \ {r}, Removed(queues, r))
<1> DEFINE c == page2pageIdxFloor(r.pages)
<1>1. r \in Run /\ c \in Classes
  BY RunFacts DEF QueuesOf
<1>2. \A i \in Classes : Removed(queues, r)[i] = IF i = c THEN queues[i] \ {r} ELSE queues[i]
  BY <1>1 DEF Removed, QueuesOf
<1>3. Removed(queues, r) \in [Classes -> SUBSET Run]
  BY <1>1 DEF Removed, QueuesOf
<1>4. \A i \in Classes : \A s \in Removed(queues, r)[i] : i = page2pageIdxFloor(s.pages)
  BY <1>2 DEF QueuesOf
<1>5. \A i \in Classes : r \in queues[i] => i = c
  BY DEF QueuesOf
<1>6. A \ {r} = UNION {Removed(queues, r)[i] : i \in Classes}
  <2>1. ASSUME NEW s \in A \ {r} PROVE \E i \in Classes : s \in Removed(queues, r)[i]
    <3>1. PICK i \in Classes : s \in queues[i]
      BY DEF QueuesOf
    <3> QED
      BY <1>2, <3>1
  <2>2. ASSUME NEW i \in Classes, NEW s \in Removed(queues, r)[i] PROVE s \in A \ {r}
    BY <1>2, <1>5 DEF QueuesOf
  <2> QED
    BY <2>1, <2>2
<1> QED
  BY <1>3, <1>4, <1>6 DEF QueuesOf

LEMMA MapInsert ==
    ASSUME NEW A \in SUBSET Run, NEW map, MapOf(A, map), NEW r \in Run,
           \A s \in A : ~Overlap(r, s)
    PROVE  MapOf(A \cup {r}, MapInserted(map, r))
<1> DEFINE m == MapInserted(map, r)
<1>1. \A o \in Offsets : m[o] = IF o \in {r.off, end(r) - 1} /\ map[o] = NoRun THEN r ELSE map[o]
  BY DEF MapInserted
<1>2. m \in [Offsets -> Run \cup {NoRun}]
  BY <1>1 DEF MapOf, MapInserted
<1>3. r.off \in Offsets /\ end(r) - 1 \in Offsets /\ r # NoRun
  BY RunFacts
<1>4. map[r.off] = NoRun /\ map[end(r) - 1] = NoRun
  <2>1. ASSUME NEW s \in A, r.off \in {s.off, end(s) - 1} \/ end(r) - 1 \in {s.off, end(s) - 1}
        PROVE  FALSE
    BY <2>1, RunFacts DEF Overlap
  <2> QED
    BY <2>1, <1>3 DEF MapOf
<1>5. m[r.off] = r /\ m[end(r) - 1] = r
  BY <1>1, <1>3, <1>4
<1>6. ASSUME NEW s \in A PROVE m[s.off] = s /\ m[end(s) - 1] = s
  BY <1>1, RunFacts DEF MapOf
<1>7. ASSUME NEW o \in Offsets, m[o] # NoRun
      PROVE  m[o] \in A \cup {r} /\ o \in {m[o].off, end(m[o]) - 1}
  BY <1>1, <1>7 DEF MapOf
<1> QED
  BY <1>2, <1>5, <1>6, <1>7 DEF MapOf

LEMMA MapRemove ==
    ASSUME NEW A \in SUBSET Run, NEW map, MapOf(A, map), NEW r \in A, Disjoint(A)
    PROVE  MapOf(A \ {r}, MapRemoved(map, r))
<1> DEFINE m == MapRemoved(map, r)
<1>1. \A o \in Offsets : m[o] = IF o \in {r.off, end(r) - 1} THEN NoRun ELSE map[o]
  BY DEF MapRemoved
<1>2. m \in [Offsets -> Run \cup {NoRun}]
  BY <1>1 DEF MapOf, MapRemoved
<1>3. ASSUME NEW s \in A \ {r} PROVE m[s.off] = s /\ m[end(s) - 1] = s
  <2>1. ~Overlap(r, s)
    BY DEF Disjoint
  <2>2. s.off \notin {r.off, end(r) - 1} /\ end(s) - 1 \notin {r.off, end(r) - 1}
    BY <2>1, RunFacts DEF Overlap
  <2> QED
    BY <1>1, <2>2, RunFacts DEF MapOf
<1>4. ASSUME NEW o \in Offsets, m[o] # NoRun
      PROVE  m[o] \in A \ {r} /\ o \in {m[o].off, end(m[o]) - 1}
  BY <1>1, <1>4 DEF MapOf
<1> QED
  BY <1>2, <1>3, <1>4 DEF MapOf

-----------------------------------------------------------------------------
(* Splitting a run and joining two keep a set of runs a partition.         *)
LEMMA SplitPartition ==
    ASSUME NEW S \in SUBSET Run, Disjoint(S), NEW r \in S, NEW p \in 1..(r.pages - 1),
           NEW used, used = RunAt(r.off, p), NEW rest, rest = RunAt(r.off + p, r.pages - p)
    PROVE  /\ used \in Run /\ rest \in Run
           /\ used \notin S /\ rest \notin S /\ used # rest
           /\ Disjoint((S \ {r}) \cup {used, rest})
           /\ Covered((S \ {r}) \cup {used, rest}) = Covered(S)
           /\ rest.off = r.off + p /\ end(rest) = end(r) /\ end(used) = r.off + p
<1> DEFINE T == (S \ {r}) \cup {used, rest}
<1>1. r \in Run /\ r.off \in Nat /\ r.pages \in Nat /\ end(r) = r.off + r.pages /\ end(r) <= nPages
  BY RunFacts
<1>2. /\ used \in Run /\ used.off = r.off /\ used.pages = p /\ end(used) = r.off + p
  BY <1>1, RunMade, PagesAssumption DEF RunAt
<1>3. /\ rest \in Run /\ rest.off = r.off + p /\ rest.pages = r.pages - p /\ end(rest) = end(r)
  <2>1. /\ r.off + p \in Int /\ r.off + p >= 0 /\ r.pages - p \in Int /\ r.pages - p >= 1
        /\ (r.off + p) + (r.pages - p) = end(r)
    BY <1>1
  <2> QED
    BY <1>1, <2>1, RunMade
<1>4. ASSUME NEW s \in S \ {r}
      PROVE  ~Overlap(s, used) /\ ~Overlap(used, s) /\ ~Overlap(s, rest) /\ ~Overlap(rest, s)
  <2>1. ~Overlap(r, s) /\ s \in Run
    BY DEF Disjoint
  <2> QED
    BY <1>1, <1>2, <1>3, <2>1, RunFacts DEF Overlap
<1>5. ~Overlap(used, rest) /\ ~Overlap(rest, used) /\ used # rest
  BY <1>1, <1>2, <1>3 DEF Overlap
<1>6. ASSUME NEW s \in Run
      PROVE  Overlap(s, s)
  BY RunFacts DEF Overlap
<1>7. used \notin S /\ rest \notin S
  <2>1. used # r /\ rest # r
    BY <1>1, <1>2, <1>3
  <2> QED
    BY <2>1, <1>2, <1>3, <1>4, <1>6
<1>8. Disjoint(T)
  BY <1>4, <1>5 DEF Disjoint
<1>9. \A x : x \in pagesOf(r) <=> x \in pagesOf(used) \/ x \in pagesOf(rest)
  <2> TAKE x
  <2>1. x \in pagesOf(r) <=> x \in Int /\ r.off <= x /\ x < end(r)
    BY <1>1, Pages
  <2>2. x \in pagesOf(used) <=> x \in Int /\ r.off <= x /\ x < r.off + p
    BY <1>2, Pages
  <2>3. x \in pagesOf(rest) <=> x \in Int /\ r.off + p <= x /\ x < end(r)
    BY <1>3, Pages
  <2> QED
    BY <1>1, <2>1, <2>2, <2>3
<1>10. Covered(T) = Covered(S)
  <2>1. ASSUME NEW x \in Covered(S) PROVE x \in Covered(T)
    BY <1>9 DEF Covered
  <2>2. ASSUME NEW x \in Covered(T) PROVE x \in Covered(S)
    BY <1>9 DEF Covered
  <2> QED
    BY <2>1, <2>2
<1> QED
  BY <1>2, <1>3, <1>5, <1>7, <1>8, <1>10

LEMMA JoinPartition ==
    ASSUME NEW S \in SUBSET Run, Disjoint(S), NEW r \in S, NEW s \in S, end(r) = s.off,
           NEW both, both = RunAt(r.off, r.pages + s.pages)
    PROVE  /\ both \in Run /\ r # s /\ both \notin S
           /\ both.off = r.off /\ end(both) = end(s)
           /\ Disjoint((S \ {r, s}) \cup {both})
           /\ Covered((S \ {r, s}) \cup {both}) = Covered(S)
<1> DEFINE T == (S \ {r, s}) \cup {both}
<1>1. /\ r \in Run /\ r.off \in Nat /\ r.pages \in Nat \ {0} /\ end(r) = r.off + r.pages
      /\ s \in Run /\ s.off \in Nat /\ s.pages \in Nat \ {0} /\ end(s) = s.off + s.pages
      /\ end(s) <= nPages /\ s.off = end(r)
  BY RunFacts
<1>2. /\ both \in Run /\ both.off = r.off /\ both.pages = r.pages + s.pages /\ end(both) = end(s)
  <2>1. /\ r.pages + s.pages \in Int /\ r.pages + s.pages >= 1
        /\ r.off + (r.pages + s.pages) = end(s)
    BY <1>1
  <2> QED
    BY <1>1, <2>1, RunMade
<1>3. ASSUME NEW q \in S \ {r, s}
      PROVE  ~Overlap(q, both) /\ ~Overlap(both, q)
  <2>1. ~Overlap(q, r) /\ ~Overlap(q, s) /\ q \in Run
    BY DEF Disjoint
  <2> QED
    BY <1>1, <1>2, <2>1, RunFacts DEF Overlap
<1>4. Overlap(both, both) /\ both # r /\ both # s
  BY <1>1, <1>2, RunFacts DEF Overlap
<1>5. Disjoint(T)
  BY <1>3 DEF Disjoint
<1>6. \A x : x \in pagesOf(both) <=> x \in pagesOf(r) \/ x \in pagesOf(s)
  <2> TAKE x
  <2>1. x \in pagesOf(both) <=> x \in Int /\ r.off <= x /\ x < end(s)
    BY <1>2, Pages
  <2>2. x \in pagesOf(r) <=> x \in Int /\ r.off <= x /\ x < end(r)
    BY <1>1, Pages
  <2>3. x \in pagesOf(s) <=> x \in Int /\ end(r) <= x /\ x < end(s)
    BY <1>1, Pages
  <2>4. end(r) \in Int /\ end(s) \in Int /\ r.off \in Int /\ r.off < end(r) /\ end(r) < end(s)
    BY <1>1
  <2>5. CASE x \in Int
    BY <2>1, <2>2, <2>3, <2>4, <2>5
  <2> QED
    BY <2>1, <2>2, <2>3, <2>5
<1>7. Covered(T) = Covered(S)
  <2>1. ASSUME NEW x \in Covered(S) PROVE x \in Covered(T)
    BY <1>6 DEF Covered
  <2>2. ASSUME NEW x \in Covered(T) PROVE x \in Covered(S)
    BY <1>6 DEF Covered
  <2> QED
    BY <2>1, <2>2
<1> QED
  BY <1>1, <1>2, <1>3, <1>4, <1>5, <1>7

-----------------------------------------------------------------------------
(* The inductive invariant. *)

FreeingOK ==
    \/ freeing = Idle
    \/ /\ freeing \in [pc : {"prev", "next", "insert"}, handle : Run, run : Run]
       /\ freeing.handle \in inUse
       /\ freeing.run.off <= freeing.handle.off
       /\ end(freeing.handle) <= end(freeing.run)

(* No two free runs touch, and the run being freed touches none on the     *)
(* sides that have been merged.                                            *)
Merged ==
    /\ \A r, s \in Avail : end(r) # s.off
    /\ freeing.pc \in {"next", "insert"} => \A r \in Avail : end(r) # freeing.run.off
    /\ freeing.pc = "insert" => \A r \in Avail : r.off # end(freeing.run)

InvPages ==
    /\ QueuesOf(Avail, m_runsAvail)
    /\ MapOf(Avail, m_runsAvailMap)
    /\ inUse \subseteq Run /\ Disjoint(inUse)
    /\ FreeingOK
    /\ PagesPartitioned
    /\ Merged

LEMMA AvailIs ==
    ASSUME NEW A, QueuesOf(A, m_runsAvail) PROVE Avail = A
  BY DEF QueuesOf, Avail, Classes

LEMMA AvailBecomes ==
    ASSUME NEW A, QueuesOf(A, m_runsAvail') PROVE Avail' = A
  BY DEF QueuesOf, Avail, Classes

LEMMA HeldRuns ==
    ASSUME InvPages
    PROVE  /\ Avail \subseteq Run /\ Held \subseteq Run /\ Disjoint(Held)
           /\ Disjoint(Avail)
           /\ freeing = Idle => Held = Avail \cup inUse
           /\ freeing # Idle => /\ freeing.run \in Run /\ freeing.handle \in inUse
                                /\ freeing.run \notin inUse \ {freeing.handle}
                                /\ Held = Avail \cup (inUse \ {freeing.handle}) \cup {freeing.run}
<1>1. Avail \subseteq Run
  BY DEF InvPages, QueuesOf
<1>2. inUse \subseteq Run
  BY DEF InvPages
<1>3. freeing = Idle => Held = Avail \cup inUse
  BY <1>2, NoRunFacts DEF Held, Idle
<1>4. CASE freeing = Idle
  BY <1>1, <1>2, <1>3, <1>4 DEF InvPages, PagesPartitioned, Disjoint
<1>5. CASE freeing # Idle
  <2>1. freeing.run \in Run /\ freeing.handle \in inUse
    BY <1>5 DEF InvPages, FreeingOK
  <2>2. Held = Avail \cup (inUse \ {freeing.handle}) \cup {freeing.run}
    BY <1>5 DEF Held
  <2>3. freeing.run \notin inUse \ {freeing.handle}
    <3>1. SUFFICES ASSUME freeing.run \in inUse, freeing.run # freeing.handle PROVE FALSE
      OBVIOUS
    <3>2. ~Overlap(freeing.run, freeing.handle)
      BY <3>1, <2>1 DEF InvPages, Disjoint
    <3> QED
      BY <1>5, <2>1, <3>2, RunFacts DEF InvPages, FreeingOK, Overlap
  <2> QED
    BY <1>1, <1>2, <1>5, <2>1, <2>2, <2>3 DEF InvPages, PagesPartitioned, Disjoint
<1> QED
  BY <1>4, <1>5

LEMMA InvPagesInit == Init => InvPages
<1> SUFFICES ASSUME Init PROVE InvPages
  OBVIOUS
<1> DEFINE all == RunAt(0, nPages)
<1>1. all \in Run /\ all.off = 0 /\ end(all) = nPages /\ nPages \in Nat \ {0}
  BY RunMade, PagesAssumption
<1>2. QueuesOf({}, [i \in 0..(m_nPSizes - 1) |-> {}])
  BY DEF QueuesOf, Classes
<1>3. MapOf({}, [o \in Offsets |-> NoRun])
  BY DEF MapOf
<1>4. QueuesOf({all}, m_runsAvail) /\ Avail = {all}
  <2>1. QueuesOf({} \cup {all}, m_runsAvail)
    BY <1>1, <1>2, QueueInsert DEF Init
  <2> QED
    BY <2>1, AvailIs
<1>5. MapOf({all}, m_runsAvailMap)
  BY <1>1, <1>3, MapInsert DEF Init
<1>6. freeing = Idle /\ inUse = {} /\ Idle.pc = "idle" /\ Idle.run = NoRun
  BY DEF Init, Idle
<1>7. Held = {all}
  BY <1>4, <1>6 DEF Held
<1>8. PagesPartitioned
  <2>1. Covered(Held) = 0..(nPages - 1)
    BY <1>1, <1>7 DEF Covered, pagesOf
  <2> QED
    BY <2>1, <1>1, <1>4, <1>6, <1>7, NoRunFacts DEF PagesPartitioned
<1>9. Merged
  BY <1>1, <1>4, <1>6 DEF Merged
<1> QED
  BY <1>4, <1>5, <1>6, <1>8, <1>9 DEF InvPages, FreeingOK, Disjoint

-----------------------------------------------------------------------------
(* Each action preserves it. *)

LEMMA IdleFacts == Idle.pc = "idle" /\ Idle.run = NoRun /\ Idle.handle = NoRun
  BY DEF Idle

(* The run that allocateRun() pops is long enough for the request.         *)
LEMMA PoppedFits ==
    ASSUME InvPages, NEW pages \in 1..nPages, NEW i \in FitQueues(page2pageIdx(pages)),
           NEW r \in m_runsAvail[i]
    PROVE  r \in Avail /\ r \in Run /\ pages <= r.pages /\ i \in Classes
<1>1. page2pageIdx(pages) \in Classes /\ m_nPSizes \in Nat \ {0}
  BY PagesAssumption DEF Classes
<1>2. i \in Classes /\ page2pageIdx(pages) <= i
  BY <1>1 DEF FitQueues, Classes
<1>3. r \in Avail /\ r \in Run /\ i = page2pageIdxFloor(r.pages)
  BY <1>2 DEF InvPages, QueuesOf, Avail, Classes
<1> QED
  BY <1>2, <1>3, RunFacts, PagesAssumption

LEMMA AllocatePages ==
    ASSUME InvPages, NEW pages \in AllRequestPages, AllocateRun(pages)
    PROVE  InvPages'
<1>1. pages \in 1..nPages
  BY RequestsAssumption DEF AllRequestPages
<1>2. freeing = Idle /\ freeing' = freeing
  BY DEF AllocateRun
<1>3. PICK i \in FitQueues(page2pageIdx(pages)) : \E r \in m_runsAvail[i] :
         /\ LET rest == RunAt(r.off + pages, r.pages - pages)
                queues == Removed(m_runsAvail, r)
                map == MapRemoved(m_runsAvailMap, r)
            IN IF r.pages = pages
               THEN m_runsAvail' = queues /\ m_runsAvailMap' = map
               ELSE /\ m_runsAvail' = Inserted(queues, rest)
                    /\ m_runsAvailMap' = MapInserted(map, rest)
         /\ inUse' = inUse \cup {RunAt(r.off, pages)}
  BY DEF AllocateRun
<1>4. PICK r \in m_runsAvail[i] :
         /\ LET rest == RunAt(r.off + pages, r.pages - pages)
                queues == Removed(m_runsAvail, r)
                map == MapRemoved(m_runsAvailMap, r)
            IN IF r.pages = pages
               THEN m_runsAvail' = queues /\ m_runsAvailMap' = map
               ELSE /\ m_runsAvail' = Inserted(queues, rest)
                    /\ m_runsAvailMap' = MapInserted(map, rest)
         /\ inUse' = inUse \cup {RunAt(r.off, pages)}
  BY <1>3
<1> DEFINE used == RunAt(r.off, pages)
           rest == RunAt(r.off + pages, r.pages - pages)
<1>5. r \in Avail /\ r \in Run /\ pages <= r.pages
  BY <1>1, PoppedFits
<1>6. /\ Held = Avail \cup inUse /\ Held \subseteq Run /\ Disjoint(Held) /\ Disjoint(Avail)
      /\ Avail \subseteq Run /\ inUse \subseteq Run /\ Avail \cap inUse = {}
      /\ Covered(Held) = 0..(nPages - 1)
      /\ QueuesOf(Avail, m_runsAvail) /\ MapOf(Avail, m_runsAvailMap)
  BY <1>2, HeldRuns DEF InvPages, PagesPartitioned
<1>7. /\ QueuesOf(Avail \ {r}, Removed(m_runsAvail, r))
      /\ MapOf(Avail \ {r}, MapRemoved(m_runsAvailMap, r))
  BY <1>5, <1>6, QueueRemove, MapRemove
<1>8. FreeingOK' /\ Held' = Avail' \cup (inUse' \ {NoRun}) /\ freeing'.run = NoRun
      /\ freeing'.pc = "idle"
  BY <1>2, IdleFacts DEF FreeingOK, Held
<1>9. CASE r.pages = pages
  <2>1. used = r
    BY <1>5, <1>9, RunFacts
  <2>2. /\ QueuesOf(Avail \ {r}, m_runsAvail') /\ MapOf(Avail \ {r}, m_runsAvailMap')
        /\ inUse' = inUse \cup {r}
    BY <1>4, <1>7, <1>9, <2>1
  <2>3. Avail' = Avail \ {r}
    BY <2>2, AvailBecomes
  <2>4. Held' = Held
    BY <1>5, <1>6, <1>8, <2>2, <2>3, NoRunFacts
  <2>5. inUse' \subseteq Run /\ Disjoint(inUse)' /\ (Avail \cap inUse = {})'
    BY <1>5, <1>6, <2>2, <2>3 DEF Disjoint
  <2>6. PagesPartitioned'
    BY <1>6, <1>8, <2>3, <2>4, <2>5, NoRunFacts DEF PagesPartitioned, Disjoint
  <2>7. Merged'
    BY <1>8, <2>3 DEF InvPages, Merged
  <2> QED
    BY <1>8, <2>2, <2>3, <2>5, <2>6, <2>7 DEF InvPages
<1>10. CASE r.pages # pages
  <2>1. pages \in 1..(r.pages - 1)
    BY <1>1, <1>5, <1>10, RunFacts
  <2>2. /\ used \in Run /\ rest \in Run
        /\ used \notin Held /\ rest \notin Held /\ used # rest
        /\ Disjoint((Held \ {r}) \cup {used, rest})
        /\ Covered((Held \ {r}) \cup {used, rest}) = Covered(Held)
        /\ rest.off = r.off + pages /\ end(rest) = end(r) /\ end(used) = r.off + pages
    <3>1. r \in Held
      BY <1>5, <1>6
    <3>2. Held \in SUBSET Run
      BY <1>6
    <3> QED
      BY <1>6, <2>1, <3>1, <3>2, SplitPartition
  <2> HIDE DEF used, rest
  <2>3. \A s \in Avail \ {r} : ~Overlap(rest, s)
    BY <1>6, <2>2 DEF Disjoint
  <2>4. /\ QueuesOf((Avail \ {r}) \cup {rest}, m_runsAvail')
        /\ MapOf((Avail \ {r}) \cup {rest}, m_runsAvailMap')
        /\ inUse' = inUse \cup {used}
    BY <1>4, <1>6, <1>7, <1>10, <2>2, <2>3, QueueInsert, MapInsert DEF used, rest
  <2>5. Avail' = (Avail \ {r}) \cup {rest}
    BY <2>4, AvailBecomes
  <2>6. Held' = (Held \ {r}) \cup {used, rest}
    BY <1>5, <1>6, <1>8, <2>2, <2>4, <2>5, NoRunFacts
  <2>7. inUse' \subseteq Run /\ Disjoint(inUse)' /\ (Avail \cap inUse = {})'
    <3>1. \A s \in inUse : s # r /\ s \in (Held \ {r}) \cup {used, rest}
      BY <1>5, <1>6
    <3>2. used \in (Held \ {r}) \cup {used, rest}
      OBVIOUS
    <3>3. Disjoint(inUse')
      BY <2>2, <2>4, <3>1, <3>2 DEF Disjoint
    <3> QED
      BY <1>6, <2>2, <2>4, <2>5, <3>3 DEF Disjoint
  <2>8. PagesPartitioned'
    BY <1>6, <1>8, <2>2, <2>5, <2>6, <2>7, NoRunFacts DEF PagesPartitioned, Disjoint
  <2>9. \A p, q \in Avail' : end(p) # q.off
    <3>1. \A q \in Avail \ {r} : end(rest) # q.off
      BY <1>5, <2>2 DEF InvPages, Merged
    <3>2. ASSUME NEW q \in Avail \ {r} PROVE end(q) # rest.off
      <4>1. ~Overlap(q, r) /\ q \in Run
        BY <1>5, <1>6 DEF Disjoint
      <4> QED
        BY <1>1, <1>5, <2>1, <2>2, <4>1, RunFacts DEF Overlap
    <3>3. end(rest) # rest.off
      BY <2>2, RunFacts
    <3> QED
      BY <2>5, <3>1, <3>2, <3>3 DEF InvPages, Merged
  <2>10. Merged'
    BY <1>8, <2>9 DEF Merged
  <2> QED
    BY <1>8, <2>4, <2>5, <2>7, <2>8, <2>10 DEF InvPages
<1> QED
  BY <1>9, <1>10

LEMMA FreeRunPages ==
    ASSUME InvPages, NEW h \in Run, FreeRun(h)
    PROVE  InvPages'
<1>1. /\ freeing = Idle /\ h \in inUse
      /\ freeing' = [pc |-> "prev", handle |-> h, run |-> h]
      /\ UNCHANGED <<m_runsAvail, m_runsAvailMap, m_freeBytes, inUse>>
  BY DEF FreeRun
<1>2. Avail' = Avail
  BY <1>1 DEF Avail
<1>3. /\ freeing'.pc = "prev" /\ freeing'.handle = h /\ freeing'.run = h
      /\ freeing' \in [pc : {"prev", "next", "insert"}, handle : Run, run : Run]
  BY <1>1
<1>4. FreeingOK'
  BY <1>1, <1>3, RunFacts DEF FreeingOK
<1>5. freeing' # Idle
  BY <1>3, IdleFacts
<1>6. Held' = Held
  BY <1>1, <1>2, <1>3, <1>5, HeldRuns DEF Held
<1>7. PagesPartitioned'
  BY <1>1, <1>2, <1>3, <1>6 DEF PagesPartitioned, InvPages
<1>8. Merged'
  BY <1>2, <1>3 DEF Merged, InvPages
<1>9. /\ QueuesOf(Avail, m_runsAvail)' /\ MapOf(Avail, m_runsAvailMap)'
      /\ (inUse \subseteq Run)' /\ Disjoint(inUse)'
  BY <1>1, <1>2 DEF InvPages
<1> QED
  BY <1>4, <1>7, <1>8, <1>9 DEF InvPages

LEMMA CollapsePrevPages ==
    ASSUME InvPages, CollapsePrev
    PROVE  InvPages'
<1> DEFINE run == freeing.run
           h == freeing.handle
           prev == m_runsAvailMap[run.off - 1]
<1>1. freeing.pc = "prev" /\ freeing # Idle /\ inUse' = inUse
  BY IdleFacts DEF CollapsePrev
<1>2. /\ freeing \in [pc : {"prev", "next", "insert"}, handle : Run, run : Run]
      /\ h \in inUse /\ run.off <= h.off /\ end(h) <= end(run)
  BY <1>1 DEF InvPages, FreeingOK
<1>3. /\ Held \subseteq Run /\ Disjoint(Held) /\ Disjoint(Avail)
      /\ Avail \subseteq Run /\ inUse \subseteq Run /\ Avail \cap inUse = {}
      /\ Covered(Held) = 0..(nPages - 1) /\ run \in Run /\ h \in Run
      /\ Held = Avail \cup (inUse \ {h}) \cup {run} /\ run \notin Avail /\ run \notin inUse \ {h}
      /\ QueuesOf(Avail, m_runsAvail) /\ MapOf(Avail, m_runsAvailMap)
  BY <1>1, <1>2, HeldRuns DEF InvPages, PagesPartitioned
<1>4. CASE prev # NoRun /\ prev # run /\ end(prev) = run.off
  <2> DEFINE both == RunAt(prev.off, prev.pages + run.pages)
  <2>1. prev \in Avail /\ prev \in Run
    BY <1>3, <1>4, RunFacts DEF MapOf
  <2>2. /\ QueuesOf(Avail \ {prev}, m_runsAvail') /\ MapOf(Avail \ {prev}, m_runsAvailMap')
        /\ freeing' = [freeing EXCEPT !.run = both]
    BY <1>3, <1>4, <2>1, QueueRemove, MapRemove DEF CollapsePrev
  <2>3. /\ both \in Run /\ prev # run /\ both \notin Held
        /\ both.off = prev.off /\ end(both) = end(run)
        /\ Disjoint((Held \ {prev, run}) \cup {both})
        /\ Covered((Held \ {prev, run}) \cup {both}) = Covered(Held)
    <3>1. prev \in Held /\ run \in Held /\ end(prev) = run.off
      BY <1>3, <1>4, <2>1
    <3>2. Held \in SUBSET Run /\ Disjoint(Held)
      BY <1>3
    <3> HIDE DEF prev, run
    <3> QED
      BY <3>1, <3>2, JoinPartition
  <2> HIDE DEF both
  <2>4. /\ freeing' \in [pc : {"prev", "next", "insert"}, handle : Run, run : Run]
        /\ freeing'.pc = "prev" /\ freeing'.run = both /\ freeing'.handle = h
    BY <1>1, <1>2, <2>2, <2>3
  <2>5. Avail' = Avail \ {prev}
    BY <2>2, AvailBecomes
  <2>6. FreeingOK'
    <3>1. both.off <= h.off /\ end(h) <= end(both)
      BY <1>2, <1>3, <1>4, <2>1, <2>3, RunFacts
    <3> QED
      BY <1>1, <1>2, <2>4, <3>1 DEF FreeingOK
  <2>7. Held' = (Held \ {prev, run}) \cup {both}
    <3>1. freeing' # Idle
      BY <2>4, IdleFacts
    <3> QED
      BY <1>1, <1>3, <2>1, <2>4, <2>5, <3>1 DEF Held
  <2>8. PagesPartitioned'
    BY <1>1, <1>3, <2>3, <2>4, <2>5, <2>7 DEF PagesPartitioned, Disjoint
  <2>9. Merged'
    BY <2>4, <2>5 DEF InvPages, Merged
  <2> QED
    BY <1>1, <1>3, <2>2, <2>5, <2>6, <2>8, <2>9 DEF InvPages
<1>5. CASE ~(prev # NoRun /\ prev # run /\ end(prev) = run.off)
  <2>1. UNCHANGED <<m_runsAvail, m_runsAvailMap>> /\ freeing' = [freeing EXCEPT !.pc = "next"]
    BY <1>5 DEF CollapsePrev
  <2>2. /\ freeing' \in [pc : {"prev", "next", "insert"}, handle : Run, run : Run]
        /\ freeing'.pc = "next" /\ freeing'.run = run /\ freeing'.handle = h
    BY <1>2, <2>1
  <2>3. Avail' = Avail
    BY <2>1 DEF Avail
  <2>4. FreeingOK'
    BY <1>1, <1>2, <2>2 DEF FreeingOK
  <2>5. Held' = Held
    <3>1. freeing' # Idle
      BY <2>2, IdleFacts
    <3> QED
      BY <1>1, <1>3, <2>2, <2>3, <3>1 DEF Held
  <2>6. PagesPartitioned'
    BY <1>1, <2>2, <2>3, <2>5 DEF InvPages, PagesPartitioned
  <2>7. \A r \in Avail : end(r) # run.off
    <3>1. SUFFICES ASSUME NEW r \in Avail, end(r) = run.off PROVE FALSE
      OBVIOUS
    <3>2. prev = r
      BY <1>3, <3>1 DEF MapOf
    <3> QED
      BY <1>3, <1>5, <3>1, <3>2, RunFacts
  <2>8. Merged'
    BY <2>2, <2>3, <2>7 DEF InvPages, Merged
  <2> QED
    BY <1>1, <1>3, <2>1, <2>3, <2>4, <2>6, <2>8 DEF InvPages
<1> QED
  BY <1>4, <1>5

LEMMA CollapseNextPages ==
    ASSUME InvPages, CollapseNext
    PROVE  InvPages'
<1> DEFINE run == freeing.run
           h == freeing.handle
           next == m_runsAvailMap[end(run)]
<1>1. freeing.pc = "next" /\ freeing # Idle /\ inUse' = inUse
  BY IdleFacts DEF CollapseNext
<1>2. /\ freeing \in [pc : {"prev", "next", "insert"}, handle : Run, run : Run]
      /\ h \in inUse /\ run.off <= h.off /\ end(h) <= end(run)
  BY <1>1 DEF InvPages, FreeingOK
<1>3. /\ Held \subseteq Run /\ Disjoint(Held) /\ Disjoint(Avail)
      /\ Avail \subseteq Run /\ inUse \subseteq Run /\ Avail \cap inUse = {}
      /\ Covered(Held) = 0..(nPages - 1) /\ run \in Run /\ h \in Run
      /\ Held = Avail \cup (inUse \ {h}) \cup {run} /\ run \notin Avail /\ run \notin inUse \ {h}
      /\ QueuesOf(Avail, m_runsAvail) /\ MapOf(Avail, m_runsAvailMap)
  BY <1>1, <1>2, HeldRuns DEF InvPages, PagesPartitioned
<1>4. CASE next # NoRun /\ next # run /\ end(run) = next.off
  <2> DEFINE both == RunAt(run.off, run.pages + next.pages)
  <2>1. next \in Avail /\ next \in Run
    BY <1>3, <1>4, RunFacts DEF MapOf
  <2>2. run.pages + next.pages = next.pages + run.pages
    BY <1>3, <2>1, RunFacts
  <2>3. /\ QueuesOf(Avail \ {next}, m_runsAvail') /\ MapOf(Avail \ {next}, m_runsAvailMap')
        /\ freeing' = [freeing EXCEPT !.run = both]
    BY <1>3, <1>4, <2>1, <2>2, QueueRemove, MapRemove DEF CollapseNext
  <2>4. /\ both \in Run /\ next # run /\ both \notin Held
        /\ both.off = run.off /\ end(both) = end(next)
        /\ Disjoint((Held \ {run, next}) \cup {both})
        /\ Covered((Held \ {run, next}) \cup {both}) = Covered(Held)
    <3>1. next \in Held /\ run \in Held /\ end(run) = next.off
      BY <1>3, <1>4, <2>1
    <3>2. Held \in SUBSET Run /\ Disjoint(Held)
      BY <1>3
    <3> HIDE DEF next, run
    <3> QED
      BY <3>1, <3>2, JoinPartition
  <2> HIDE DEF both
  <2>5. /\ freeing' \in [pc : {"prev", "next", "insert"}, handle : Run, run : Run]
        /\ freeing'.pc = "next" /\ freeing'.run = both /\ freeing'.handle = h
    BY <1>1, <1>2, <2>3, <2>4
  <2>6. Avail' = Avail \ {next}
    BY <2>3, AvailBecomes
  <2>7. FreeingOK'
    <3>1. both.off <= h.off /\ end(h) <= end(both)
      BY <1>2, <1>3, <1>4, <2>1, <2>4, RunFacts
    <3> QED
      BY <1>1, <1>2, <2>5, <3>1 DEF FreeingOK
  <2>8. Held' = (Held \ {run, next}) \cup {both}
    <3>1. freeing' # Idle
      BY <2>5, IdleFacts
    <3> QED
      BY <1>1, <1>3, <2>1, <2>5, <2>6, <3>1 DEF Held
  <2>9. PagesPartitioned'
    BY <1>1, <1>3, <2>4, <2>5, <2>6, <2>8 DEF PagesPartitioned, Disjoint
  <2>10. Merged'
    BY <1>1, <2>4, <2>5, <2>6 DEF InvPages, Merged
  <2> QED
    BY <1>1, <1>3, <2>3, <2>6, <2>7, <2>9, <2>10 DEF InvPages
<1>5. CASE ~(next # NoRun /\ next # run /\ end(run) = next.off)
  <2>1. UNCHANGED <<m_runsAvail, m_runsAvailMap>> /\ freeing' = [freeing EXCEPT !.pc = "insert"]
    BY <1>5 DEF CollapseNext
  <2>2. /\ freeing' \in [pc : {"prev", "next", "insert"}, handle : Run, run : Run]
        /\ freeing'.pc = "insert" /\ freeing'.run = run /\ freeing'.handle = h
    BY <1>2, <2>1
  <2>3. Avail' = Avail
    BY <2>1 DEF Avail
  <2>4. FreeingOK'
    BY <1>1, <1>2, <2>2 DEF FreeingOK
  <2>5. Held' = Held
    <3>1. freeing' # Idle
      BY <2>2, IdleFacts
    <3> QED
      BY <1>1, <1>3, <2>2, <2>3, <3>1 DEF Held
  <2>6. PagesPartitioned'
    BY <1>1, <2>2, <2>3, <2>5 DEF InvPages, PagesPartitioned
  <2>7. \A r \in Avail : r.off # end(run)
    <3>1. SUFFICES ASSUME NEW r \in Avail, r.off = end(run) PROVE FALSE
      OBVIOUS
    <3>2. next = r
      BY <1>3, <3>1 DEF MapOf
    <3> QED
      BY <1>3, <1>5, <3>1, <3>2, RunFacts
  <2>8. Merged'
    BY <1>1, <2>2, <2>3, <2>7 DEF InvPages, Merged
  <2> QED
    BY <1>1, <1>3, <2>1, <2>3, <2>4, <2>6, <2>8 DEF InvPages
<1> QED
  BY <1>4, <1>5

LEMMA InsertFreedPages ==
    ASSUME InvPages, InsertFreed
    PROVE  InvPages'
<1> DEFINE run == freeing.run
           h == freeing.handle
<1>1. /\ freeing.pc = "insert" /\ freeing # Idle /\ inUse' = inUse \ {h} /\ freeing' = Idle
      /\ m_runsAvail' = Inserted(m_runsAvail, run)
      /\ m_runsAvailMap' = MapInserted(m_runsAvailMap, run)
  BY IdleFacts DEF InsertFreed
<1>2. /\ Held \subseteq Run /\ Disjoint(Held)
      /\ Avail \subseteq Run /\ inUse \subseteq Run /\ Avail \cap inUse = {}
      /\ Covered(Held) = 0..(nPages - 1) /\ run \in Run
      /\ Held = Avail \cup (inUse \ {h}) \cup {run} /\ run \notin Avail /\ run \notin inUse \ {h}
      /\ QueuesOf(Avail, m_runsAvail) /\ MapOf(Avail, m_runsAvailMap)
  BY <1>1, HeldRuns DEF InvPages, PagesPartitioned
<1>3. \A s \in Avail : ~Overlap(run, s)
  BY <1>2 DEF Disjoint
<1>4. QueuesOf(Avail \cup {run}, m_runsAvail') /\ MapOf(Avail \cup {run}, m_runsAvailMap')
  BY <1>1, <1>2, <1>3, QueueInsert, MapInsert
<1>5. Avail' = Avail \cup {run}
  BY <1>4, AvailBecomes
<1>6. FreeingOK' /\ freeing'.pc = "idle" /\ freeing'.run = NoRun
  BY <1>1, IdleFacts DEF FreeingOK
<1>7. Held' = Held
  BY <1>1, <1>2, <1>5, IdleFacts, NoRunFacts DEF Held
<1>8. inUse' \subseteq Run /\ Disjoint(inUse)'
  BY <1>1, <1>2 DEF InvPages, Disjoint
<1>9. PagesPartitioned'
  <2>1. NoRun \notin Avail'
    BY <1>2, <1>5, NoRunFacts
  <2>2. (Avail \cap inUse = {})'
    BY <1>1, <1>2, <1>5
  <2>3. (\A r, s \in Held : r # s => ~Overlap(r, s))'
    BY <1>2, <1>7 DEF Disjoint
  <2> QED
    BY <1>2, <1>6, <1>7, <2>1, <2>2, <2>3 DEF PagesPartitioned
<1>10. Merged'
  <2>1. end(run) # run.off
    BY <1>2, RunFacts
  <2> QED
    BY <1>1, <1>5, <1>6, <2>1 DEF InvPages, Merged
<1> QED
  BY <1>4, <1>5, <1>6, <1>8, <1>9, <1>10 DEF InvPages

LEMMA InvPagesStep == InvPages /\ [Next]_vars => InvPages'
<1> SUFFICES ASSUME InvPages, [Next]_vars PROVE InvPages'
  OBVIOUS
<1>1. ASSUME NEW pages \in AllRequestPages, AllocateRun(pages) PROVE InvPages'
  BY <1>1, AllocatePages
<1>2. ASSUME NEW r \in Run, FreeRun(r) PROVE InvPages'
  BY <1>2, FreeRunPages
<1>3. CASE CollapsePrev
  BY <1>3, CollapsePrevPages
<1>4. CASE CollapseNext
  BY <1>4, CollapseNextPages
<1>5. CASE InsertFreed
  BY <1>5, InsertFreedPages
<1>6. CASE UNCHANGED vars
  <2>1. /\ m_runsAvail' = m_runsAvail /\ m_runsAvailMap' = m_runsAvailMap
        /\ inUse' = inUse /\ freeing' = freeing
    BY <1>6 DEF vars
  <2>2. Avail' = Avail
    BY <2>1 DEF Avail
  <2>3. Held' = Held
    BY <2>1, <2>2 DEF Held
  <2> QED
    BY <2>1, <2>2, <2>3 DEF InvPages, FreeingOK, PagesPartitioned, Merged
<1> QED
  BY <1>1, <1>2, <1>3, <1>4, <1>5, <1>6 DEF Next

LEMMA InvPagesAlways == Spec => []InvPages
  BY InvPagesInit, InvPagesStep, PTL DEF Spec

(* No page is in two runs and none is lost, at any moment of a split or of *)
(* a merge (PoolChunk::allocateRun, splitLargeRun, collapseRuns, free).    *)
THEOREM ChunkPartitioned == Spec => []PagesPartitioned
<1>1. InvPages => PagesPartitioned
  BY DEF InvPages
<1> QED
  BY <1>1, InvPagesAlways, PTL

(* m_runsAvailMap and the queues of m_runsAvail always tell the same, so   *)
(* that a merge finds the run it removes in the queue it looks in.         *)
THEOREM ChunkMapMatches == Spec => []MapMatchesQueues
<1>1. InvPages => MapMatchesQueues
  BY DEF InvPages, QueuesOf, MapOf, MapMatchesQueues, Avail, Classes
<1> QED
  BY <1>1, InvPagesAlways, PTL

-----------------------------------------------------------------------------
(* The free runs are the gaps. *)

(* A run that holds the last page before, or the first page after, a run   *)
(* that it does not overlap ends, or begins, there.                        *)
LEMMA PageBefore ==
    ASSUME NEW r \in Run, NEW s \in Run, ~Overlap(r, s), r.off - 1 \in pagesOf(s)
    PROVE  end(s) = r.off
  BY RunFacts DEF Overlap, pagesOf

LEMMA PageAfter ==
    ASSUME NEW r \in Run, NEW s \in Run, ~Overlap(r, s), end(r) \in pagesOf(s)
    PROVE  s.off = end(r)
  BY RunFacts DEF Overlap, pagesOf

LEMMA HolderOf ==
    ASSUME InvPages, freeing = Idle, NEW x \in 0..(nPages - 1)
    PROVE  \E s \in Avail \cup inUse : s \in Run /\ x \in pagesOf(s)
<1>1. Covered(Held) = 0..(nPages - 1) /\ Held = Avail \cup inUse /\ Held \subseteq Run
  BY HeldRuns DEF InvPages, PagesPartitioned
<1>2. x \in UNION {pagesOf(r) : r \in Avail \cup inUse}
  BY <1>1 DEF Covered
<1> QED
  BY <1>1, <1>2

LEMMA AvailIsGap ==
    ASSUME InvPages, freeing = Idle, NEW r \in Avail
    PROVE  r \in Gaps(inUse)
<1>1. /\ r \in Run /\ Avail \subseteq Run /\ inUse \subseteq Run
      /\ \A s \in Avail \cup inUse : s # r => ~Overlap(r, s)
      /\ r \notin inUse
      /\ \A s \in Avail : end(s) # r.off /\ end(r) # s.off
  BY HeldRuns DEF InvPages, PagesPartitioned, Disjoint, Merged
<1>2. \A s \in inUse : ~Overlap(r, s)
  BY <1>1
<1>3. ASSUME r.off # 0 PROVE \E s \in inUse : end(s) = r.off
  <2>1. r.off - 1 \in 0..(nPages - 1) /\ r.off - 1 \notin pagesOf(r)
    BY <1>1, <1>3, RunFacts, Pages
  <2>2. PICK s \in Avail \cup inUse : s \in Run /\ r.off - 1 \in pagesOf(s)
    BY <2>1, HolderOf
  <2>3. s # r
    BY <2>1, <2>2
  <2>4. end(s) = r.off
    BY <1>1, <2>2, <2>3, PageBefore
  <2> QED
    BY <1>1, <2>2, <2>4
<1>4. ASSUME end(r) # nPages PROVE \E s \in inUse : s.off = end(r)
  <2>1. end(r) \in 0..(nPages - 1) /\ end(r) \notin pagesOf(r)
    BY <1>1, <1>4, RunFacts, Pages
  <2>2. PICK s \in Avail \cup inUse : s \in Run /\ end(r) \in pagesOf(s)
    BY <2>1, HolderOf
  <2>3. s # r
    BY <2>1, <2>2
  <2>4. s.off = end(r)
    BY <1>1, <2>2, <2>3, PageAfter
  <2> QED
    BY <1>1, <2>2, <2>4
<1> QED
  BY <1>1, <1>2, <1>3, <1>4 DEF Gaps

(* Two gaps that share a page are one. *)
LEMMA GapsApart ==
    ASSUME NEW S \in SUBSET Run, NEW g \in Gaps(S), NEW h \in Gaps(S), Overlap(g, h)
    PROVE  g = h
<1>1. /\ g \in Run /\ h \in Run
      /\ \A r \in S : r \in Run /\ ~Overlap(g, r) /\ ~Overlap(h, r)
      /\ g.off = 0 \/ \E r \in S : end(r) = g.off
      /\ h.off = 0 \/ \E r \in S : end(r) = h.off
      /\ end(g) = nPages \/ \E r \in S : r.off = end(g)
      /\ end(h) = nPages \/ \E r \in S : r.off = end(h)
  BY DEF Gaps
<1>2. ~(g.off < h.off)
  BY <1>1, RunFacts DEF Overlap
<1>3. ~(h.off < g.off)
  BY <1>1, RunFacts DEF Overlap
<1>4. ~(end(g) < end(h))
  BY <1>1, RunFacts DEF Overlap
<1>5. ~(end(h) < end(g))
  BY <1>1, RunFacts DEF Overlap
<1>6. g.off = h.off /\ g.pages = h.pages
  BY <1>1, <1>2, <1>3, <1>4, <1>5, RunFacts
<1> QED
  BY <1>1, <1>6, RunEqual

LEMMA GapsAre == InvPages => AvailAreGaps
<1> SUFFICES ASSUME InvPages, freeing = Idle PROVE Avail = Gaps(inUse)
  BY DEF AvailAreGaps
<1>1. ASSUME NEW g \in Gaps(inUse) PROVE g \in Avail
  <2>1. /\ g \in Run /\ g.off \in 0..(nPages - 1) /\ g.off \in pagesOf(g)
        /\ \A r \in inUse : ~Overlap(g, r)
    BY RunFacts DEF Gaps, pagesOf
  <2>2. PICK s \in Avail \cup inUse : s \in Run /\ g.off \in pagesOf(s)
    BY <2>1, HolderOf
  <2>3. Overlap(g, s)
    BY <2>1, <2>2, RunFacts, Pages DEF Overlap
  <2>4. s \in Avail
    BY <2>1, <2>2, <2>3
  <2>5. s \in Gaps(inUse) /\ inUse \in SUBSET Run
    BY <2>4, AvailIsGap DEF InvPages
  <2>6. g = s
    BY <2>3, <2>5, GapsApart
  <2> QED
    BY <2>4, <2>6
<1> QED
  BY <1>1, AvailIsGap

(* Between calls the free runs are exactly the gaps between the runs in    *)
(* use: collapsePrev and collapseNext have merged all there was.           *)
THEOREM ChunkMerged == Spec => []AvailAreGaps
  BY GapsAre, InvPagesAlways, PTL

(* A request is refused only when every gap is too short: a gap that is    *)
(* long enough lies in a queue at or above the class of the request, which *)
(* is where runBestFit() looks (PoolChunk.cpp:223).                        *)
THEOREM RefusedSafety == Spec => []RefusedOnlyWithoutRoom
<1>1. InvPages => RefusedOnlyWithoutRoom
  <2> SUFFICES ASSUME InvPages, freeing = Idle, NEW pages \in AllRequestPages,
                      FitQueues(page2pageIdx(pages)) = {}, NEW g \in Gaps(inUse), ~(g.pages < pages)
               PROVE  FALSE
    BY DEF RefusedOnlyWithoutRoom
  <2> DEFINE i == page2pageIdxFloor(g.pages)
  <2>1. g \in Run /\ g.pages \in 1..nPages /\ g \in Avail
    BY GapsAre, RunFacts DEF AvailAreGaps, Gaps
  <2>2. PICK j \in Classes : g \in m_runsAvail[j] /\ j = i
    BY <2>1 DEF InvPages, QueuesOf, Avail, Classes
  <2>3. pages \in 1..nPages /\ page2pageIdx(pages) = page2pageIdxFloor(pages)
    BY RequestsAssumption, ClassAssumption DEF AllRequestPages
  <2>4. page2pageIdx(pages) \in Classes
    BY <2>3, PagesAssumption DEF Classes
  <2>5. pages <= g.pages
    BY <2>1, <2>3
  <2>6. page2pageIdx(pages) <= j
    BY <2>1, <2>2, <2>3, <2>5, FloorAssumption
  <2> HIDE DEF i
  <2>7. j \in page2pageIdx(pages)..(m_nPSizes - 1)
    BY <2>2, <2>4, <2>6 DEF Classes
  <2>8. m_freeBytes # nPages
    BY DEF FitQueues
  <2> QED
    BY <2>2, <2>7, <2>8 DEF FitQueues
<1> QED
  BY <1>1, InvPagesAlways, PTL

-----------------------------------------------------------------------------
(* m_freeBytes, counted in pages.                                          *)

InvBytes == m_freeBytes = nPages - Cardinality(Covered(inUse))

LEMMA CoveredFinite ==
    ASSUME NEW S \in SUBSET Run
    PROVE  /\ Covered(S) \subseteq 0..(nPages - 1)
           /\ IsFiniteSet(Covered(S))
           /\ Cardinality(Covered(S)) \in 0..nPages
<1>1. \A r \in S : pagesOf(r) \subseteq 0..(nPages - 1)
  BY RunFacts DEF pagesOf
<1>2. Covered(S) \subseteq 0..(nPages - 1)
  BY <1>1 DEF Covered
<1>3. nPages \in Nat \ {0}
  BY PagesAssumption
<1>4. IsFiniteSet(0..(nPages - 1)) /\ Cardinality(0..(nPages - 1)) = nPages
  BY <1>3, FS_Interval
<1>5. IsFiniteSet(Covered(S)) /\ Cardinality(Covered(S)) <= nPages
  BY <1>2, <1>4, FS_Subset
<1>6. Cardinality(Covered(S)) \in Nat
  BY <1>5, FS_CardinalityType
<1> QED
  BY <1>2, <1>3, <1>5, <1>6

(* A run more covers its pages more. *)
LEMMA CoveredMore ==
    ASSUME NEW S \in SUBSET Run, NEW r \in Run, \A s \in S : ~Overlap(r, s)
    PROVE  Cardinality(Covered(S \cup {r})) = Cardinality(Covered(S)) + r.pages
<1>1. Covered(S \cup {r}) = Covered(S) \cup pagesOf(r)
  BY DEF Covered
<1>2. Covered(S) \cap pagesOf(r) = {}
  <2>1. ASSUME NEW s \in S, NEW x \in pagesOf(s), x \in pagesOf(r) PROVE FALSE
    BY <2>1, RunFacts, Pages DEF Overlap
  <2> QED
    BY <2>1 DEF Covered
<1>3. IsFiniteSet(pagesOf(r)) /\ Cardinality(pagesOf(r)) = r.pages
  <2>1. r.off \in Int /\ end(r) - 1 \in Int /\ ~(r.off > end(r) - 1) /\ end(r) - 1 - r.off + 1 = r.pages
    BY RunFacts
  <2> QED
    BY <2>1, FS_Interval DEF pagesOf
<1>4. Cardinality(Covered(S) \cup pagesOf(r))
        = Cardinality(Covered(S)) + r.pages - Cardinality({})
  BY <1>2, <1>3, CoveredFinite, FS_Union
<1>5. Cardinality({}) = 0
  BY FS_EmptySet
<1>6. Cardinality(Covered(S)) \in Int /\ r.pages \in Int
  <2>1. Cardinality(Covered(S)) \in 0..nPages /\ r.pages \in Nat
    BY CoveredFinite, RunFacts
  <2> QED
    BY <2>1
<1>7. Cardinality(Covered(S) \cup pagesOf(r)) = Cardinality(Covered(S)) + r.pages
  BY <1>4, <1>5, <1>6
<1> QED
  BY <1>1, <1>7

LEMMA BytesInit == Init => InvBytes
<1> SUFFICES ASSUME Init PROVE InvBytes
  OBVIOUS
<1>1. Covered(inUse) = {}
  BY DEF Init, Covered
<1>2. Cardinality(Covered(inUse)) = 0
  BY <1>1, FS_EmptySet
<1>3. m_freeBytes = nPages /\ nPages \in Nat
  BY PagesAssumption DEF Init
<1> QED
  BY <1>2, <1>3 DEF InvBytes

(* The run that allocateRun() returns overlaps none in use. *)
LEMMA AllocatedApart ==
    ASSUME InvPages, NEW pages \in AllRequestPages, AllocateRun(pages)
    PROVE  \E r \in Avail :
              /\ RunAt(r.off, pages) \in Run /\ RunAt(r.off, pages).pages = pages
              /\ pages \in 1..nPages
              /\ \A s \in inUse : ~Overlap(RunAt(r.off, pages), s)
              /\ inUse' = inUse \cup {RunAt(r.off, pages)}
              /\ m_freeBytes' = m_freeBytes - pages
<1>1. pages \in 1..nPages
  BY RequestsAssumption DEF AllRequestPages
<1>2. PICK i \in FitQueues(page2pageIdx(pages)) : \E r \in m_runsAvail[i] :
         inUse' = inUse \cup {RunAt(r.off, pages)} /\ m_freeBytes' = m_freeBytes - pages
  BY DEF AllocateRun
<1>3. PICK r \in m_runsAvail[i] :
         inUse' = inUse \cup {RunAt(r.off, pages)} /\ m_freeBytes' = m_freeBytes - pages
  BY <1>2
<1>4. r \in Avail /\ r \in Run /\ pages <= r.pages
  BY <1>1, PoppedFits
<1> DEFINE used == RunAt(r.off, pages)
<1>5. used \in Run /\ used.off = r.off /\ used.pages = pages /\ end(used) = r.off + pages
  <2>1. r.off \in Int /\ r.off >= 0 /\ pages \in Int /\ pages >= 1 /\ r.off + pages <= nPages
    BY <1>1, <1>4, RunFacts
  <2> QED
    BY <2>1, RunMade
<1> HIDE DEF used
<1>6. freeing = Idle
  BY DEF AllocateRun
<1>7. ASSUME NEW s \in inUse PROVE ~Overlap(used, s)
  <2>1. s # r /\ s \in Run /\ r \in Held /\ s \in Held /\ Disjoint(Held)
    BY <1>4, <1>6, HeldRuns DEF InvPages, PagesPartitioned
  <2>2. ~Overlap(r, s)
    BY <2>1 DEF Disjoint
  <2> QED
    BY <1>1, <1>4, <1>5, <2>1, <2>2, RunFacts DEF Overlap
<1> QED
  BY <1>1, <1>3, <1>4, <1>5, <1>7 DEF used

LEMMA BytesStep == InvPages /\ InvBytes /\ [Next]_vars => InvBytes'
<1> SUFFICES ASSUME InvPages, InvBytes, [Next]_vars PROVE InvBytes'
  OBVIOUS
<1>1. inUse \in SUBSET Run /\ nPages \in Nat
  BY PagesAssumption DEF InvPages
<1>2. Cardinality(Covered(inUse)) \in Int
  BY <1>1, CoveredFinite
<1>3. ASSUME NEW pages \in AllRequestPages, AllocateRun(pages) PROVE InvBytes'
  <2>1. PICK r \in Avail :
           /\ RunAt(r.off, pages) \in Run /\ RunAt(r.off, pages).pages = pages
           /\ pages \in 1..nPages
           /\ \A s \in inUse : ~Overlap(RunAt(r.off, pages), s)
           /\ inUse' = inUse \cup {RunAt(r.off, pages)}
           /\ m_freeBytes' = m_freeBytes - pages
    BY <1>3, AllocatedApart
  <2>2. Cardinality(Covered(inUse)') = Cardinality(Covered(inUse)) + pages
    <3>1. Covered(inUse)' = Covered(inUse \cup {RunAt(r.off, pages)})
      BY <2>1 DEF Covered
    <3> QED
      BY <1>1, <2>1, <3>1, CoveredMore
  <2> QED
    BY <1>1, <1>2, <2>1, <2>2 DEF InvBytes
<1>4. CASE InsertFreed
  <2> DEFINE h == freeing.handle
             S == inUse \ {h}
  <2>1. /\ freeing # Idle /\ inUse' = S /\ m_freeBytes' = m_freeBytes + h.pages
    BY <1>4, IdleFacts DEF InsertFreed
  <2>2. h \in inUse /\ h \in Run /\ inUse = S \cup {h} /\ \A s \in S : ~Overlap(h, s)
    BY <1>1, <2>1 DEF InvPages, FreeingOK, Disjoint
  <2>3. Cardinality(Covered(S \cup {h})) = Cardinality(Covered(S)) + h.pages
    BY <1>1, <2>2, CoveredMore
  <2>4. Cardinality(Covered(S)) \in Int /\ h.pages \in Int
    BY <1>1, <2>2, CoveredFinite, RunFacts
  <2>5. Covered(inUse)' = Covered(S)
    BY <2>1 DEF Covered
  <2>6. Cardinality(Covered(inUse)) = Cardinality(Covered(S)) + h.pages
    BY <2>2, <2>3
  <2> QED
    BY <1>1, <2>1, <2>4, <2>5, <2>6 DEF InvBytes
<1>5. CASE UNCHANGED <<inUse, m_freeBytes>>
  BY <1>5 DEF InvBytes, Covered
<1> QED
  BY <1>3, <1>4, <1>5 DEF Next, FreeRun, CollapsePrev, CollapseNext, vars

LEMMA BytesAlways == Spec => [](InvPages /\ InvBytes)
<1>1. Init => InvPages /\ InvBytes
  BY InvPagesInit, BytesInit
<1>2. InvPages /\ InvBytes /\ [Next]_vars => (InvPages /\ InvBytes)'
  BY InvPagesStep, BytesStep
<1> QED
  BY <1>1, <1>2, PTL DEF Spec

(* Type correctness: the arithmetic of handles never leaves the chunk, and *)
(* m_freeBytes is never negative.                                          *)
THEOREM ChunkTyped == Spec => []TypeOK
<1>1. InvPages /\ InvBytes => TypeOK
  <2> SUFFICES ASSUME InvPages, InvBytes PROVE TypeOK
    OBVIOUS
  <2>1. m_freeBytes \in 0..nPages
    <3>1. Cardinality(Covered(inUse)) \in 0..nPages /\ nPages \in Nat
      BY CoveredFinite, PagesAssumption DEF InvPages
    <3> QED
      BY <3>1 DEF InvBytes
  <2> QED
    BY <2>1 DEF InvPages, QueuesOf, MapOf, FreeingOK, TypeOK, Classes
<1> QED
  BY <1>1, BytesAlways, PTL

LEMMA UntouchedChunk ==
    ASSUME InvPages, InvBytes, freeing = Idle, m_freeBytes = nPages
    PROVE  /\ inUse = {} /\ Avail = {RunAt(0, nPages)}
           /\ m_runsAvail[m_nPSizes - 1] = {RunAt(0, nPages)}
<1>1. inUse \in SUBSET Run /\ nPages \in Nat
  BY PagesAssumption DEF InvPages
<1>2. Cardinality(Covered(inUse)) = 0
  BY <1>1, CoveredFinite DEF InvBytes
<1>3. Covered(inUse) = {}
  BY <1>1, <1>2, CoveredFinite, FS_EmptySet
<1>4. inUse = {}
  <2>1. \A r \in inUse : r.off \in pagesOf(r)
    BY <1>1, RunFacts, Pages
  <2> QED
    BY <1>3, <2>1 DEF Covered
<1> DEFINE all == RunAt(0, nPages)
<1>5. all \in Run /\ all.off = 0 /\ end(all) = nPages /\ all.pages = nPages
  BY RunMade, PagesAssumption
<1>6. Gaps({}) = {all}
  <2>1. all \in Gaps({})
    BY <1>5 DEF Gaps
  <2>2. \A g \in Gaps({}) : Overlap(g, all)
    BY <1>5, RunFacts DEF Gaps, Overlap
  <2> QED
    BY <2>1, <2>2, GapsApart
<1>7. Avail = {all}
  BY <1>4, <1>6, GapsAre DEF AvailAreGaps
<1>8. m_nPSizes - 1 \in Classes /\ page2pageIdxFloor(nPages) = m_nPSizes - 1
  BY PagesAssumption DEF Classes
<1>9. \A r : r \in m_runsAvail[m_nPSizes - 1] <=> r = all
  <2>1. \A i \in Classes : \A r \in m_runsAvail[i] : r = all
    BY <1>7 DEF Avail, Classes
  <2>2. PICK i \in Classes : all \in m_runsAvail[i]
    BY <1>7 DEF Avail, Classes
  <2>3. i = m_nPSizes - 1
    BY <1>5, <1>8, <2>2 DEF InvPages, QueuesOf
  <2> QED
    BY <1>8, <2>1, <2>2, <2>3
<1> QED
  BY <1>4, <1>7, <1>9

(* m_freeBytes is exact between calls, and says untouched only of a chunk  *)
(* whose last queue holds it whole (PoolChunk.cpp:224).                    *)
THEOREM ChunkBytesExact == Spec => []FreeBytesExact
<1>1. InvPages /\ InvBytes => FreeBytesExact
  BY UntouchedChunk DEF FreeBytesExact, InvBytes
<1> QED
  BY <1>1, BytesAlways, PTL

-----------------------------------------------------------------------------
(* The chunk implements PoolChunkSpec.                                     *)

(* The definitions of Runs as the abstract specification has them. *)
LEMMA AbstractIdx ==
    ASSUME NEW p
    PROVE  /\ Abstract!page2pageIdx(p) = page2pageIdx(p)
           /\ Abstract!page2pageIdxFloor(p) = page2pageIdxFloor(p)
<1>1. Abstract!pageSize = pageSize /\ Abstract!ndeltaLimit = ndeltaLimit
  BY DEF Abstract!pageSize, pageSize, Abstract!ndeltaLimit, ndeltaLimit
<1>2. \A v : Abstract!log2(v) = log2(v)
  BY DEF Abstract!log2, log2
<1>3. Abstract!m_sizeIdx2sizeTab = m_sizeIdx2sizeTab /\ Abstract!m_nSizes = m_nSizes
  BY DEF Abstract!m_sizeIdx2sizeTab, m_sizeIdx2sizeTab, Abstract!m_nSizes, m_nSizes,
         Abstract!rowSize, rowSize, Abstract!log2Group, log2Group, Abstract!log2Delta, log2Delta,
         Abstract!nDelta, nDelta, Abstract!ndeltaLimit, ndeltaLimit
<1>4. \A i : Abstract!isMultiPageSize(i) = isMultiPageSize(i)
  BY <1>1, <1>3 DEF Abstract!isMultiPageSize, isMultiPageSize, Abstract!sizeIdx2size, sizeIdx2size,
         Abstract!log2Delta, log2Delta
<1>5. Abstract!multiPageRows = multiPageRows
  BY <1>3, <1>4 DEF Abstract!multiPageRows, multiPageRows
<1>5a. \A S : Abstract!Cardinality(S) = Cardinality(S)
  BY DEF Abstract!Cardinality, Cardinality
<1>6. Abstract!m_nPSizes = m_nPSizes
  BY <1>5, <1>5a DEF Abstract!m_nPSizes, m_nPSizes
<1>7. Abstract!m_pageIdx2sizeTab = m_pageIdx2sizeTab
  <2> DEFINE nth(k) == CHOOSE i \in multiPageRows :
                          Cardinality({j \in multiPageRows : j < i}) = k
             nthA(k) == CHOOSE i \in Abstract!multiPageRows :
                          Abstract!Cardinality({j \in Abstract!multiPageRows : j < i}) = k
  <2>1. ASSUME NEW k PROVE nthA(k) = nth(k)
    <3>1. \A i : i \in Abstract!multiPageRows <=> i \in multiPageRows
      BY <1>5
    <3>2. \A i : Abstract!Cardinality({j \in Abstract!multiPageRows : j < i}) = k
                 <=> Cardinality({j \in multiPageRows : j < i}) = k
      BY <1>5, <1>5a
    <3> QED
      BY <1>5, <1>5a, <3>1, <3>2
  <2> HIDE DEF nth, nthA
  <2>2. m_pageIdx2sizeTab = [k \in 0..(m_nPSizes - 1) |-> m_sizeIdx2sizeTab[nth(k)]]
    BY DEF m_pageIdx2sizeTab, sizeIdx2size, nth
  <2>3. Abstract!m_pageIdx2sizeTab
          = [k \in 0..(Abstract!m_nPSizes - 1) |-> Abstract!m_sizeIdx2sizeTab[nthA(k)]]
    BY DEF Abstract!m_pageIdx2sizeTab, Abstract!sizeIdx2size, nthA
  <2> QED
    BY <1>3, <1>6, <2>1, <2>2, <2>3
<1> QED
  BY <1>1, <1>2, <1>6, <1>7 DEF Abstract!page2pageIdx, page2pageIdx, Abstract!page2pageIdxFloor,
         page2pageIdxFloor, Abstract!pages2pageIdxCompute, pages2pageIdxCompute

LEMMA AbstractRuns ==
    /\ Abstract!nPages = nPages
    /\ \A S : Abstract!Gaps(S) = Gaps(S)
    /\ \A o, p : Abstract!RunAt(o, p) = RunAt(o, p)
  BY DEF Abstract!nPages, nPages, Abstract!pageSize, pageSize, Abstract!Gaps, Gaps, Abstract!Run,
         Run, Abstract!Overlap, Overlap, Abstract!end, end, Abstract!RunAt, RunAt

LEMMA AbstractFits ==
    ASSUME NEW S, NEW pages
    PROVE  Abstract!BestFits(S, pages) = BestFits(S, pages)
  BY AbstractIdx, AbstractRuns DEF Abstract!BestFits, BestFits

(* runBestFit() and the order of a queue choose the best fitting gap.      *)
LEMMA AllocateRefines ==
    ASSUME InvPages, InvBytes, NEW pages \in AllRequestPages, AllocateRun(pages)
    PROVE  /\ pages \in 1..nPages
           /\ \E g \in BestFits(inUse, pages) : inUse' = inUse \cup {RunAt(g.off, pages)}
<1> DEFINE c == page2pageIdx(pages)
<1>1. pages \in 1..nPages
  BY RequestsAssumption DEF AllRequestPages
<1>2. PICK i \in FitQueues(c) :
         /\ \A j \in FitQueues(c) : i <= j
         /\ \E r \in m_runsAvail[i] :
               /\ \A s \in m_runsAvail[i] : r.off <= s.off
               /\ inUse' = inUse \cup {RunAt(r.off, pages)}
  BY DEF AllocateRun
<1>3. PICK r \in m_runsAvail[i] :
         /\ \A s \in m_runsAvail[i] : r.off <= s.off
         /\ inUse' = inUse \cup {RunAt(r.off, pages)}
  BY <1>2
<1>4. r \in Avail /\ r \in Run /\ i \in Classes /\ freeing = Idle
  BY <1>1, PoppedFits DEF AllocateRun
<1>5. c \in Classes /\ m_nPSizes \in Nat \ {0}
  BY <1>1, PagesAssumption DEF Classes
<1>6. Avail = Gaps(inUse) /\ Avail \subseteq Run
  BY <1>4, GapsAre, HeldRuns DEF AvailAreGaps
<1>7. page2pageIdxFloor(r.pages) = i /\ c <= i
  <2>1. page2pageIdxFloor(r.pages) = i
    BY <1>4 DEF InvPages, QueuesOf
  <2> QED
    BY <1>5, <2>1 DEF FitQueues, Classes
<1>8. ASSUME NEW h \in Gaps(inUse), c <= page2pageIdxFloor(h.pages)
      PROVE  \/ i < page2pageIdxFloor(h.pages)
             \/ i = page2pageIdxFloor(h.pages) /\ r.off <= h.off
  <2> DEFINE j == page2pageIdxFloor(h.pages)
  <2>1. h \in Avail /\ h \in Run /\ j \in Classes
    BY <1>6, RunFacts
  <2>2. h \in m_runsAvail[j]
    BY <2>1 DEF InvPages, QueuesOf, Avail, Classes
  <2>3. CASE m_freeBytes = nPages
    <3>1. h = r
      BY <1>4, <2>1, <2>3, UntouchedChunk
    <3> QED
      BY <1>4, <1>7, <3>1, RunFacts
  <2>4. CASE m_freeBytes # nPages
    <3>1. j \in FitQueues(c)
      BY <1>5, <1>8, <2>1, <2>2, <2>4 DEF FitQueues, Classes
    <3>2. i <= j
      BY <1>2, <3>1
    <3>3. i \in Int /\ j \in Int
      BY <1>4, <2>1, <1>5 DEF Classes
    <3>4. CASE i = j
      BY <1>3, <2>2, <3>4
    <3> QED
      BY <3>2, <3>3, <3>4
  <2> QED
    BY <2>3, <2>4
<1>9. r \in BestFits(inUse, pages)
  BY <1>4, <1>6, <1>7, <1>8 DEF BestFits
<1> QED
  BY <1>1, <1>3, <1>9

(* Whatever the order of the calls has been, an allocation takes the start *)
(* of the best fitting gap between the runs in use (PoolChunk.cpp:176-235), *)
(* and a free gives the pages back to it.                                  *)
THEOREM ChunkRefines == Spec => Refinement
<1>1. Init => Abstract!Init
  BY DEF Init, Abstract!Init
<1>2. InvPages /\ InvBytes /\ [Next]_vars => [Abstract!Allocate \/ Abstract!Free]_inUse
  <2> SUFFICES ASSUME InvPages, InvBytes, [Next]_vars
               PROVE  Abstract!Allocate \/ Abstract!Free \/ UNCHANGED inUse
    OBVIOUS
  <2>1. ASSUME NEW pages \in AllRequestPages, AllocateRun(pages) PROVE Abstract!Allocate
    <3>1. PICK g \in BestFits(inUse, pages) :
             pages \in 1..nPages /\ inUse' = inUse \cup {RunAt(g.off, pages)}
      BY <2>1, AllocateRefines
    <3> QED
      BY <3>1, AbstractFits, AbstractRuns DEF Abstract!Allocate
  <2>2. CASE InsertFreed
    <3>1. freeing.handle \in inUse /\ inUse' = inUse \ {freeing.handle}
      BY <2>2, IdleFacts DEF InsertFreed, InvPages, FreeingOK
    <3> QED
      BY <3>1 DEF Abstract!Free
  <2> QED
    BY <2>1, <2>2 DEF Next, FreeRun, CollapsePrev, CollapseNext, vars
<1> QED
  BY <1>1, <1>2, BytesAlways, PTL DEF Spec, Refinement, Abstract!Spec
=============================================================================
