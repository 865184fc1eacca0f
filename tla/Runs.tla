-------------------------------- MODULE Runs ---------------------------------
(***************************************************************************)
(* Runs of pages of a chunk: what a handle of PoolChunk says of them       *)
(* (PoolChunk.h:71, PoolChunk.cpp:267 and 379).  A handle packs the offset *)
(* and the length of a run; a run is the pair of the two.                  *)
(***************************************************************************)
EXTENDS SizeClass

nPages == m_chunkSize \div pageSize

(* What PoolChunk relies on of the size tables: the chunk is the largest   *)
(* class of whole pages, and a queue at or above the class asked for holds *)
(* only runs that are large enough.                                        *)
ASSUME PagesAssumption ==
    /\ nPages \in Nat \ {0}
    /\ m_nPSizes \in Nat \ {0}
    /\ \A p \in 1..nPages :
          /\ page2pageIdx(p) \in 0..(m_nPSizes - 1)
          /\ page2pageIdxFloor(p) \in 0..(m_nPSizes - 1)
    /\ \A p, q \in 1..nPages : page2pageIdx(p) <= page2pageIdxFloor(q) => p <= q
    /\ page2pageIdxFloor(nPages) = m_nPSizes - 1

(* A longer run does not go to a lower queue. *)
ASSUME FloorAssumption ==
    \A p, q \in 1..nPages : p <= q => page2pageIdxFloor(p) <= page2pageIdxFloor(q)

RunAt(off, pages) == [off |-> off, pages |-> pages]

Run == {r \in [off : 0..(nPages - 1), pages : 1..nPages] : r.off + r.pages <= nPages}

end(r) == r.off + r.pages          \* one past the last page
pagesOf(r) == r.off..(end(r) - 1)
Overlap(r, s) == r.off < end(s) /\ s.off < end(r)
Covered(runs) == UNION {pagesOf(r) : r \in runs}

(* The maximal intervals of pages that no run of the set covers. *)
Gaps(runs) == {g \in Run :
    /\ \A r \in runs : ~Overlap(g, r)
    /\ g.off = 0 \/ \E r \in runs : end(r) = g.off
    /\ end(g) = nPages \/ \E r \in runs : r.off = end(g)}

(* The gap from which best fit takes a run: of the least class at or above *)
(* the class asked for, the one at the lowest offset.                      *)
BestFits(runs, pages) == {g \in Gaps(runs) :
    /\ page2pageIdx(pages) <= page2pageIdxFloor(g.pages)
    /\ \A h \in Gaps(runs) : page2pageIdx(pages) <= page2pageIdxFloor(h.pages) =>
          \/ page2pageIdxFloor(g.pages) < page2pageIdxFloor(h.pages)
          \/ page2pageIdxFloor(g.pages) = page2pageIdxFloor(h.pages) /\ g.off <= h.off}

(* The pages of a run whose elements have the size of a small class: whole *)
(* elements without a remainder, or as many as a page holds of the least.  *)
calculateRunSize(sizeIdx) ==
    LET maxElements == 2^(m_pageShifts - LOG2_QUANTUM)
        nElements(k) == (k * pageSize) \div sizeIdx2size(sizeIdx)
        stops(k) == nElements(k) >= maxElements
                    \/ k * pageSize = nElements(k) * sizeIdx2size(sizeIdx)
        last == CHOOSE k \in 1..nPages : stops(k) /\ \A j \in 1..(k - 1) : ~stops(j)
    IN CHOOSE k \in 1..last :
          nElements(k) <= maxElements /\ \A j \in (k + 1)..last : nElements(j) > maxElements

(* allocate(): the pages of the run for a request. *)
runPages(size) ==
    LET sizeIdx == size2sizeIdx(size)
    IN IF sizeIdx <= m_smallMaxSizeIdx THEN calculateRunSize(sizeIdx)
       ELSE sizeIdx2size(sizeIdx) \div pageSize
=============================================================================
