------------------------------ MODULE SizeClass ------------------------------
(***************************************************************************)
(* src/buffer/SizeClass.cpp, MathUtils.h: the size classes of the pooled   *)
(* allocator.  A class is a row of m_sizeClasses; the constructor lays the *)
(* rows out in groups of 2^LOG2_SIZE_CLASS_GROUP, and every lookup is by   *)
(* shifts and masks or by a table filled from the rows.  A shift is        *)
(* modelled by the division or the multiplication it performs.             *)
(***************************************************************************)
EXTENDS Integers, FiniteSets

CONSTANTS
    LOG2_QUANTUM,          \* SizeClass.h:157, 4 in the code
    LOG2_SIZE_CLASS_GROUP, \* SizeClass.h:94, 2 in the code
    LOG2_MAX_SEARCH_SIZE,  \* SizeClass.h:96, 12 in the code
    m_pageShifts,          \* 13 in the code: pages of 8192 bytes
    m_chunkSize            \* 8192 << 11 in the code

(* sizeClasses() asserts that the last class is the chunk: the chunk is a  *)
(* power of two (validateAndCalculateChunkSize doubles a page).            *)
ASSUME SizeAssumption ==
    /\ LOG2_QUANTUM \in Nat \ {0} /\ LOG2_SIZE_CLASS_GROUP \in Nat \ {0}
    /\ LOG2_MAX_SEARCH_SIZE \in Nat
    /\ m_pageShifts \in Nat /\ m_pageShifts >= LOG2_QUANTUM
    /\ m_chunkSize \in Nat \ {0}

pageSize == 2^m_pageShifts
ndeltaLimit == 2^LOG2_SIZE_CLASS_GROUP

(* MathUtils::log2 of a positive int, by the number of leading zeros. *)
log2(val) == CHOOSE k \in 0..30 : 2^k <= val /\ val < 2^(k + 1)

-----------------------------------------------------------------------------
(* The rows: the first group grows by the quantum from the quantum, every  *)
(* later one by a delta twice that of the group before.                    *)

log2Group(i) ==
    IF i < ndeltaLimit THEN LOG2_QUANTUM
    ELSE LOG2_QUANTUM + LOG2_SIZE_CLASS_GROUP + i \div ndeltaLimit - 1

log2Delta(i) ==
    IF i < ndeltaLimit THEN LOG2_QUANTUM ELSE LOG2_QUANTUM + i \div ndeltaLimit - 1

nDelta(i) == IF i < ndeltaLimit THEN i ELSE (i % ndeltaLimit) + 1

rowSize(i) == 2^log2Group(i) + 2^log2Delta(i) * nDelta(i)

(* sizeClasses() adds rows until one has the size of the chunk. *)
m_nSizes == 1 + CHOOSE i \in 0..127 : rowSize(i) = m_chunkSize

m_sizeIdx2sizeTab == [i \in 0..(m_nSizes - 1) |-> rowSize(i)]

sizeIdx2size(sizeIdx) == m_sizeIdx2sizeTab[sizeIdx]

isMultiPageSize(i) == log2Delta(i) >= m_pageShifts \/ sizeIdx2size(i) % pageSize = 0

log2nDelta(i) == IF nDelta(i) = 0 THEN 0 ELSE log2(nDelta(i))

log2size(i) ==
    IF log2nDelta(i) + log2Delta(i) = log2Group(i) THEN log2Group(i) + 1 ELSE log2Group(i)

isSubPage(i) == log2size(i) < m_pageShifts + LOG2_SIZE_CLASS_GROUP

(* mark is no exactly for the row that ends its group. *)
isSearched(i) ==
    \/ log2size(i) < LOG2_MAX_SEARCH_SIZE
    \/ log2size(i) = LOG2_MAX_SEARCH_SIZE
       /\ 2^log2nDelta(i) = nDelta(i) /\ log2size(i) # log2Group(i)

subPageRows == {i \in 0..(m_nSizes - 1) : isSubPage(i)}
searchedRows == {i \in 0..(m_nSizes - 1) : isSearched(i)}
multiPageRows == {i \in 0..(m_nSizes - 1) : isMultiPageSize(i)}
m_nPSizes == Cardinality(multiPageRows)
m_nSubpages == Cardinality(subPageRows)
m_smallMaxSizeIdx == CHOOSE i \in subPageRows : \A j \in subPageRows : j <= i
m_searchMaxSize == sizeIdx2size(CHOOSE i \in searchedRows : \A j \in searchedRows : j <= i)

(* idx2SizeTab: the sizes of the rows of whole pages, in order. *)
m_pageIdx2sizeTab == [p \in 0..(m_nPSizes - 1) |->
    sizeIdx2size(CHOOSE i \in multiPageRows :
        Cardinality({j \in multiPageRows : j < i}) = p)]

(* size2idxTab: one slot per quantum; row i fills 2^(delta - quantum) of   *)
(* them after those of the rows before it.                                 *)
firstSlot[i \in 0..m_nSizes] ==
    IF i = 0 THEN 0 ELSE firstSlot[i - 1] + 2^(log2Delta(i - 1) - LOG2_QUANTUM)

m_size2idxTab == [k \in 0..(m_searchMaxSize \div 2^LOG2_QUANTUM - 1) |->
    CHOOSE i \in 0..(m_nSizes - 1) : firstSlot[i] <= k /\ k < firstSlot[i + 1]]

-----------------------------------------------------------------------------
(* The lookups. *)

size2sizeIdx(size) ==
    IF size = 0 THEN 0
    ELSE IF size > m_chunkSize THEN m_nSizes
    ELSE IF size <= m_searchMaxSize THEN m_size2idxTab[(size - 1) \div 2^LOG2_QUANTUM]
    ELSE LET x == log2(2 * size - 1)
             first == LOG2_SIZE_CLASS_GROUP + LOG2_QUANTUM
             shift == IF x < first + 1 THEN 0 ELSE x - first
             delta == IF x < first + 1 THEN LOG2_QUANTUM ELSE x - LOG2_SIZE_CLASS_GROUP - 1
         IN shift * ndeltaLimit + (((size - 1) \div 2^delta) % ndeltaLimit)

(* Mutant of normalizeSizeCompute: a size on a boundary is rounded up too. *)
normalizeSizeUp(size) ==
    LET x == log2(2 * size - 1)
        delta == 2^(x - LOG2_SIZE_CLASS_GROUP - 1)
    IN (size \div delta + 1) * delta

normalizeSizeCompute(size) ==
    LET x == log2(2 * size - 1)
        first == LOG2_SIZE_CLASS_GROUP + LOG2_QUANTUM
        delta == 2^(IF x < first + 1 THEN LOG2_QUANTUM ELSE x - LOG2_SIZE_CLASS_GROUP - 1)
    IN ((size + delta - 1) \div delta) * delta

normalizeSize(size) ==
    IF size = 0 THEN sizeIdx2size(0)
    ELSE IF size <= m_searchMaxSize
         THEN sizeIdx2size(m_size2idxTab[(size - 1) \div 2^LOG2_QUANTUM])
    ELSE normalizeSizeCompute(size)

pages2pageIdxCompute(pages, floor) ==
    LET bytes == pages * pageSize
        x == log2(2 * bytes - 1)
        first == LOG2_SIZE_CLASS_GROUP + m_pageShifts
        shift == IF x < first THEN 0 ELSE x - first
        delta == IF x < first + 1 THEN m_pageShifts ELSE x - LOG2_SIZE_CLASS_GROUP - 1
        pageIdx == shift * ndeltaLimit + (((bytes - 1) \div 2^delta) % ndeltaLimit)
    IN IF bytes > m_chunkSize THEN m_nPSizes
       ELSE IF floor /\ m_pageIdx2sizeTab[pageIdx] > bytes THEN pageIdx - 1
       ELSE pageIdx

page2pageIdx(pages) == pages2pageIdxCompute(pages, FALSE)
page2pageIdxFloor(pages) == pages2pageIdxCompute(pages, TRUE)

(* The two functions that compute a size without a table. *)
classSize(idx, log2Unit) ==
    LET group == idx \div ndeltaLimit
        groupSize == IF group = 0 THEN 0
                     ELSE 2^(log2Unit + LOG2_SIZE_CLASS_GROUP - 1 + group)
        shift == IF group = 0 THEN 1 ELSE group
    IN groupSize + ((idx % ndeltaLimit) + 1) * 2^(shift + log2Unit - 1)

sizeIdx2sizeCompute(sizeIdx) == classSize(sizeIdx, LOG2_QUANTUM)
pageIdx2sizeCompute(pageIdx) == classSize(pageIdx, m_pageShifts)

-----------------------------------------------------------------------------
(* Reference definitions: the least class that is large enough, the        *)
(* largest class of whole pages that is not too large.                     *)

(* Every lookup of SizeClass.cpp agrees with its reference on every size   *)
(* up to one past the chunk: the table and the formula meet at             *)
(* m_searchMaxSize, a class boundary belongs to the class it ends, and the *)
(* floor of a number of pages is the class below unless it is exact.       *)
LookupsExact ==
    /\ \A size \in 1..m_chunkSize :
          LET i == size2sizeIdx(size)
          IN /\ i \in 0..(m_nSizes - 1) /\ size <= sizeIdx2size(i)
             /\ i > 0 => sizeIdx2size(i - 1) < size
             /\ normalizeSize(size) = sizeIdx2size(i)
    /\ size2sizeIdx(m_chunkSize + 1) = m_nSizes
    /\ \A i \in 0..(m_nSizes - 1) :
          /\ sizeIdx2sizeCompute(i) = sizeIdx2size(i)
          /\ isSubPage(i) <=> i <= m_smallMaxSizeIdx
    /\ \A pages \in 1..(m_chunkSize \div pageSize) :
          LET up == page2pageIdx(pages)
              down == page2pageIdxFloor(pages)
          IN /\ pages * pageSize <= m_pageIdx2sizeTab[up]
             /\ up > 0 => m_pageIdx2sizeTab[up - 1] < pages * pageSize
             /\ m_pageIdx2sizeTab[down] <= pages * pageSize
             /\ down < m_nPSizes - 1 => pages * pageSize < m_pageIdx2sizeTab[down + 1]
    /\ \A p \in 0..(m_nPSizes - 1) : pageIdx2sizeCompute(p) = m_pageIdx2sizeTab[p]
=============================================================================
