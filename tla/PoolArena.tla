------------------------------ MODULE PoolArena ------------------------------
(***************************************************************************)
(* src/buffer: one PoolArena and the threads that use it.  PoolByteBufs    *)
(* are allocated, grown, shrunk and given back, each by any thread (those  *)
(* of a TcpConnection are allocated by the base loop and grown by the I/O  *)
(* loop); their memory comes from the thread's cache, from a pool of       *)
(* subpages, from a chunk of the lists by usage, or from a chunk of its    *)
(* own.  A chunk is modelled by the runs in use of PoolChunkSpec, which    *)
(* PoolChunk implements.                                                   *)
(*                                                                         *)
(* A step is a critical section of m_mtx of the arena or of the head of a  *)
(* pool, or what a thread does with a cache, which has no lock: two        *)
(* threads that work on one cache at the same time are left out.  A new    *)
(* subpage is in its pool before its first slot is taken, with m_mtx held  *)
(* but not the lock of the pool: these are steps of their own, and when    *)
(* another thread is at work on that pool meanwhile their outcome may be   *)
(* anything (Torn).  A failed assertion ends the process, and of what      *)
(* follows such a meeting nothing is said.                                 *)
(***************************************************************************)
EXTENDS Runs, SequencesExt

CONSTANTS
    Chunks,          \* numbers of the chunks that may live at once
    Threads, None,
    Bufs,            \* PoolByteBuf objects
    Sizes,           \* capacities asked for when a buffer is allocated
    Capacities,      \* and of one that is
    WriteSize, MaxWritten,    \* bytes per write, and the most in one buffer
    MaxCacheCapacity,         \* DEFAULT_MAX_CACHED_BUFFER_CAPACITY
    CacheSize,                \* m_size of a MemoryRegionCache
    TrimInterval              \* DEFAULT_CACHE_TRIM_INTERVAL

VARIABLES
    inUse,        \* chunk -> its runs in use
    subpages,     \* chunk -> m_subpages: first page of a run -> its subpage
    buffers,      \* chunk -> m_cachedBuffers, as offsets in its memory
    parent,       \* chunk -> m_parent
    lists,        \* the chunks of each PoolChunkList, from m_head
    pools,        \* m_smallSubpagePools: the subpages of each class, from the head
    m_poolTheadCache,   \* the threads that have one
    queues,       \* thread -> its MemoryRegionCaches
    hits,         \* thread -> their m_allocations
    sweep,        \* thread -> PoolThreadCache::m_allocations
    block,        \* buffer -> the memory it holds
    m_cache,      \* buffer -> the thread whose cache its memory will go to
    m_length, m_readerIndex, m_writerIndex,
    call,         \* thread -> the call it is in
    failed        \* the assertions that have failed, and "race" when steps have met

arenaVars == <<inUse, subpages, buffers, parent, lists, pools>>
cacheVars == <<m_poolTheadCache, queues, hits, sweep>>
bufVars == <<block, m_cache, m_length, m_readerIndex, m_writerIndex>>
vars == <<arenaVars, cacheVars, bufVars, call, failed>>

Classes == 0..(m_nSizes - 1)
classPages == [i \in Classes |-> runPages(sizeIdx2size(i))]   \* of a run of the class
Lists == 0..5              \* qInit, q00, q25, q50, q75, q100
NoList == -1
NoSubpage == [class |-> -1, bits |-> {}, nextAvail |-> -1]
Handle(run, slot) == [run |-> run, slot |-> slot]   \* slot -1: not a subpage
NoBlock == [chunk |-> 0, handle |-> Handle(RunAt(0, 0), -1), tmp |-> 0, norm |-> 0]
Huge == -1                 \* the chunk of a huge block: its own, unpooled
Quiet == [pc |-> "idle"]

live == {c \in Chunks : parent[c] # NoList}

(* A chunk has a number of its own (0 and Huge are none), and consists of  *)
(* whole pages.                                                            *)
ASSUME ChunksAssumption ==
    /\ Chunks \subseteq Nat \ {0}
    /\ pageSize \in Nat \ {0} /\ m_chunkSize = nPages * pageSize

-----------------------------------------------------------------------------
(* PoolChunkList: the bounds of a list, in bytes.  0.99999999 of a percent *)
(* more is the next percent less one byte.                                 *)

minUsage(l) == <<0, 1, 25, 50, 75, 100>>[l + 1]
maxUsage(l) == <<25, 50, 75, 100, 100, 2147483647>>[l + 1]

percentBytes(p) == (m_chunkSize * (101 - p) - 1) \div 100

freeMinThreshold(l) ==
    IF l = 5 THEN -1 ELSE IF maxUsage(l) = 100 THEN 0 ELSE percentBytes(maxUsage(l))
freeMaxThreshold(l) == IF minUsage(l) = 100 THEN 0 ELSE percentBytes(minUsage(l))
maxCapacity(l) == (m_chunkSize * (100 - minUsage(l))) \div 100

freeBytes(runs) == (nPages - Cardinality(Covered(runs))) * pageSize

usage(free) ==
    IF free = 0 THEN 100
    ELSE IF (free * 100) \div m_chunkSize = 0 THEN 99
    ELSE 100 - (free * 100) \div m_chunkSize

(* add(): the first list from l on whose usage is not exceeded. *)
listAfterAdd(l, free) == CHOOSE m \in l..5 :
    free > freeMinThreshold(m) /\ \A k \in l..(m - 1) : free <= freeMinThreshold(k)

(* Mutant of listAfterFree: q00 is left for destruction at once. *)
listAfterFreeEarly(l, free) ==
    LET fits == {m \in 2..l : free <= freeMaxThreshold(m)}
    IN IF l = 0 THEN 0
       ELSE IF fits = {} THEN NoList ELSE CHOOSE m \in fits : \A k \in fits : k <= m

(* free() and move0(): the first list from l down whose usage is reached;  *)
(* from q00 there is none before, and the chunk is destroyed.              *)
listAfterFree(l, free) ==
    LET fits == {m \in 1..l : free <= freeMaxThreshold(m)}
    IN IF l = 0 THEN 0
       ELSE IF fits = {} THEN NoList ELSE CHOOSE m \in fits : \A k \in fits : k <= m

(* The list without an element of it. *)
Unlinked(q, e) ==
    IF e \in ToSet(q)
    THEN [n \in 1..(Len(q) - 1) |-> IF \E m \in 1..n : q[m] = e THEN q[n + 1] ELSE q[n]]
    ELSE q

(* Moves the chunk to the head of another list. *)
Relisted(c, l, m) ==
    IF l = m THEN lists
    ELSE [k \in Lists |->
            IF k = m THEN <<c>> \o lists[k] ELSE IF k = l THEN Unlinked(lists[k], c) ELSE lists[k]]

-----------------------------------------------------------------------------
(* PoolSubpage. *)

maxNumElems == [class \in Classes |-> (classPages[class] * pageSize) \div sizeIdx2size(class)]

(* getNextAvail(): the slot last freed, else the first clear bit. *)
nextSlot(s) ==
    IF s.nextAvail >= 0 THEN s.nextAvail
    ELSE CHOOSE k \in 0..(maxNumElems[s.class] - 1) :
            k \notin s.bits /\ \A j \in 0..(k - 1) : j \in s.bits

(* Mutant of Taken: m_nextAvail is not reset. *)
TakenAgain(s, k) == [s EXCEPT !.bits = @ \cup {k}]

Taken(s, k) == [s EXCEPT !.bits = @ \cup {k}, !.nextAvail = -1]
isFull(s) == Cardinality(s.bits) = maxNumElems[s.class]

offsetOf(handle, norm) ==
    handle.run.off * pageSize + (IF handle.slot < 0 THEN 0 ELSE handle.slot * norm)

(* init0(): a buffer handed in takes the place of m_memory + m_offset. *)
BlockOf(c, handle, norm, tmp) ==
    [chunk |-> c, handle |-> handle, norm |-> norm,
     tmp |-> IF tmp < 0 THEN offsetOf(handle, norm) ELSE tmp]

-----------------------------------------------------------------------------
TypeOK ==
    /\ \A c \in Chunks : inUse[c] \subseteq Run /\ parent[c] \in Lists \cup {NoList}
    /\ \A b \in Bufs : m_length[b] >= 0 /\ block[b].chunk \in Chunks \cup {0, Huge}
    /\ \A t \in Threads :
          /\ \A i \in Classes : hits[t][i] \in 0..TrimInterval
          /\ sweep[t] \in 0..(TrimInterval - 1)
          /\ call[t].pc \in {"idle", "trim", "pool", "arena", "slot", "take", "free"}

Init ==
    /\ inUse = [c \in Chunks |-> {}]
    /\ subpages = [c \in Chunks |-> [p \in 0..(nPages - 1) |-> NoSubpage]]
    /\ buffers = [c \in Chunks |-> <<>>]
    /\ parent = [c \in Chunks |-> NoList]
    /\ lists = [l \in Lists |-> <<>>]
    /\ pools = [i \in Classes |-> <<>>]
    /\ m_poolTheadCache = {}
    /\ queues = [t \in Threads |-> [i \in Classes |-> <<>>]]
    /\ hits = [t \in Threads |-> [i \in Classes |-> 0]]
    /\ sweep = [t \in Threads |-> 0]
    /\ block = [b \in Bufs |-> NoBlock]
    /\ m_cache = [b \in Bufs |-> None]
    /\ m_length = [b \in Bufs |-> 0]
    /\ m_readerIndex = [b \in Bufs |-> 0]
    /\ m_writerIndex = [b \in Bufs |-> 0]
    /\ call = [t \in Threads |-> Quiet]
    /\ failed = {}

-----------------------------------------------------------------------------
(* Calls on a buffer.  old is the block reallocate() frees at the end, n   *)
(* what a write adds once there is room for it.                            *)

Allocating(b, size, old, n) ==
    [pc |-> "cache", buf |-> b, size |-> size, old |-> old, n |-> n, hit |-> FALSE,
     todo |-> [i \in Classes |-> 0], at |-> <<0, 0>>, slot |-> -1]

(* A thread may begin a call on a buffer that no other uses.               *)
Begins(t, b) == call[t] = Quiet /\ \A u \in Threads : call[u] # Quiet => call[u].buf # b

(* Mutant of trimmed: the indices stay where they are. *)
untrimmed(index, b, new) == index

(* trimIndicesToCapacity(). *)
trimmed(index, b, new) == IF m_writerIndex[b] > new /\ index > new THEN new ELSE index

(* Mutant of Served: reallocate() does not free the old block. *)
ServedOnly(c) == Quiet

(* Where a call goes once its buffer has memory. *)
Served(c) == IF c.old = NoBlock THEN Quiet ELSE [c EXCEPT !.pc = "free"]

(* init0(): the buffer has this block, and the cache of the thread (none   *)
(* for a huge one).  At the end of the call the indices are trimmed and    *)
(* the bytes to write are in it.                                           *)
Given(t, c, blk, length) ==
    LET b == c.buf
    IN /\ block' = [block EXCEPT ![b] = blk]
       /\ m_cache' = [m_cache EXCEPT ![b] = IF blk.chunk = Huge THEN None ELSE t]
       /\ m_length' = [m_length EXCEPT ![b] = length]
       /\ m_readerIndex' = [m_readerIndex EXCEPT ![b] = trimmed(@, b, c.size)]
       /\ m_writerIndex' = [m_writerIndex EXCEPT ![b] = trimmed(@, b, c.size) + c.n]

-----------------------------------------------------------------------------
(* PoolThreadCache. *)

cacheable(i) == i < m_nSizes /\ (i <= m_smallMaxSizeIdx \/ sizeIdx2size(i) <= MaxCacheCapacity)

trimDue(t) == sweep[t] + 1 >= TrimInterval

(* tcacheAllocateSmall(), tcacheAllocateNormal(): after the cache, the     *)
(* pool of a small class, and the arena for another.                       *)
AfterCache(c, hit) ==
    IF hit THEN Served(c)
    ELSE [c EXCEPT !.pc = IF size2sizeIdx(c.size) <= m_smallMaxSizeIdx THEN "pool" ELSE "arena",
                   !.todo = [i \in Classes |-> 0]]

(* allocate(): the oldest block of the class, if any; every TrimInterval   *)
(* calls the entries that the hits of each cache leave unneeded are        *)
(* trimmed, whether or not there was one.                                  *)
CacheAllocate(t, c) ==
    LET i == size2sizeIdx(c.size)
        hit == cacheable(i) /\ queues[t][i] # <<>>
        hits1 == IF hit THEN [hits[t] EXCEPT ![i] = @ + 1] ELSE hits[t]
        trims == cacheable(i) /\ trimDue(t)
    IN /\ queues' = IF hit THEN [queues EXCEPT ![t][i] = Tail(@)] ELSE queues
       /\ hits' = [hits EXCEPT ![t] = IF trims THEN [k \in Classes |-> 0] ELSE hits1]
       /\ sweep' = [sweep EXCEPT ![t] =
                       IF ~cacheable(i) THEN @ ELSE IF trims THEN 0 ELSE @ + 1]
       /\ IF hit THEN Given(t, c, Head(queues[t][i]), c.size) ELSE UNCHANGED bufVars
       /\ call' = [call EXCEPT ![t] =
             IF trims THEN [c EXCEPT !.pc = "trim", !.hit = hit, !.todo =
                               [k \in Classes |-> Max({0, CacheSize - hits1[k]})]]
             ELSE AfterCache(c, hit)]

(* allocateHuge(): a chunk of its own; the length is the rounded one. *)
AllocateHuge(t, c) ==
    LET norm == normalizeSize(c.size)
    IN /\ Given(t, c, [chunk |-> Huge, handle |-> Handle(RunAt(0, 0), -1), tmp |-> 0,
                       norm |-> norm], norm)
       /\ call' = [call EXCEPT ![t] = Served(c)]
       /\ UNCHANGED <<queues, hits, sweep>>

(* PoolArena::allocate(), up to the first lock it takes. *)
Allocate(t, c) ==
    /\ IF size2sizeIdx(c.size) = m_nSizes THEN AllocateHuge(t, c) ELSE CacheAllocate(t, c)
    /\ UNCHANGED <<arenaVars, failed>>

-----------------------------------------------------------------------------
(* A thread gets its cache with the first buffer it allocates.             *)
ALLOCATOR(t) == m_poolTheadCache' = m_poolTheadCache \cup {t}

(* poolBuffer(), newPoolBuffer(); the object is a recycled one.            *)
PoolBuffer(t, b) ==
    /\ Begins(t, b) /\ block[b] = NoBlock
    /\ ALLOCATOR(t)
    /\ \E size \in Sizes : Allocate(t, Allocating(b, size, NoBlock, 0))

(* capacity(newCapacity), with n bytes to write after it: within the block *)
(* when it is large enough and not much too large, else reallocate(), in   *)
(* which threadCache() asserts that the thread has a cache.                *)
SetCapacity(t, b, new, n) ==
    LET len == m_length[b]
        max == block[b].norm
        inPlace ==
            \/ new > len /\ new <= max
            \/ new < len /\ new > max \div 2 /\ (max > 512 \/ new > max - 16)
    IN /\ Begins(t, b) /\ block[b] # NoBlock /\ new # len
       /\ \/ /\ inPlace
             /\ m_length' = [m_length EXCEPT ![b] = new]
             /\ m_readerIndex' = [m_readerIndex EXCEPT ![b] = trimmed(@, b, new)]
             /\ m_writerIndex' = [m_writerIndex EXCEPT ![b] = trimmed(@, b, new) + n]
             /\ UNCHANGED <<arenaVars, cacheVars, block, m_cache, call, failed>>
          \/ /\ ~inPlace /\ t \in m_poolTheadCache
             /\ Allocate(t, Allocating(b, new, block[b], n))
             /\ UNCHANGED m_poolTheadCache
          \/ /\ ~inPlace /\ t \notin m_poolTheadCache
             /\ failed' = failed \cup {"threadCache"}
             /\ UNCHANGED <<arenaVars, cacheVars, bufVars, call>>

Capacity(t, b) == \E new \in Capacities : SetCapacity(t, b, new, 0)

(* PoolByteBufAllocator::calculateNewCapacity() below its threshold. *)
calculateNewCapacity(min) == CHOOSE cap \in {64 * 2^k : k \in 0..16} :
    cap >= min /\ (cap = 64 \/ cap \div 2 < min)

(* The sizes that may be asked for: a write asks for a power of two.       *)
AskedSizes == Sizes \cup Capacities \cup {calculateNewCapacity(min) : min \in 1..MaxWritten}

ASSUME BufAssumption ==
    /\ Sizes \subseteq Nat /\ Capacities \subseteq Nat /\ WriteSize \in Nat \ {0} /\ MaxWritten \in Nat
    /\ \A min \in 1..MaxWritten : calculateNewCapacity(min) \in Nat /\ min <= calculateNewCapacity(min)

(* What the arena relies on of the size tables: a class is found by its    *)
(* size, its run lies in a chunk and holds an element, that of a normal    *)
(* class has its size, and a request fits its class, or the rounded size   *)
(* of a huge one.                                                          *)
ASSUME ClassesAssumption ==
    /\ m_nSizes \in Nat /\ m_smallMaxSizeIdx \in Int
    /\ \A i \in Classes : /\ sizeIdx2size(i) \in Nat \ {0}
                          /\ size2sizeIdx(sizeIdx2size(i)) = i
                          /\ classPages[i] \in 1..nPages
                          /\ sizeIdx2size(i) <= classPages[i] * pageSize
                          /\ i > m_smallMaxSizeIdx => classPages[i] * pageSize = sizeIdx2size(i)
    /\ \A size \in AskedSizes :
          IF size2sizeIdx(size) = m_nSizes THEN normalizeSize(size) \in Nat /\ size <= normalizeSize(size)
          ELSE size2sizeIdx(size) \in Classes /\ size <= sizeIdx2size(size2sizeIdx(size))

(* A list that is not asked for a class has no chunk with room for its     *)
(* run: what the one percent between maxCapacity() and freeMaxThreshold()  *)
(* could hide is less than the step from one class to the next.            *)
ASSUME ListsAssumption == \A i \in Classes, l \in Lists :
    sizeIdx2size(i) <= maxCapacity(l) \/ freeMaxThreshold(l) < classPages[i] * pageSize

(* writeBytes() and ensureWritable(). *)
WriteBytes(t, b) ==
    LET target == m_writerIndex[b] + WriteSize
    IN /\ Begins(t, b) /\ block[b] # NoBlock
       /\ target <= MaxWritten
       /\ IF target > m_length[b]
          THEN SetCapacity(t, b, calculateNewCapacity(target), WriteSize)
          ELSE /\ m_writerIndex' = [m_writerIndex EXCEPT ![b] = target]
               /\ UNCHANGED <<arenaVars, cacheVars, block, m_cache, m_length, m_readerIndex,
                              call, failed>>

(* retrieve(): half a write at a time; the last byte resets both indices. *)
Retrieve(t, b) ==
    LET readable == m_writerIndex[b] - m_readerIndex[b]
        len == IF readable < WriteSize \div 2 THEN readable ELSE WriteSize \div 2
    IN /\ Begins(t, b) /\ block[b] # NoBlock /\ readable > 0
       /\ m_readerIndex' = [m_readerIndex EXCEPT ![b] = IF len < readable THEN @ + len ELSE 0]
       /\ m_writerIndex' = [m_writerIndex EXCEPT ![b] = IF len < readable THEN @ ELSE 0]
       /\ UNCHANGED <<arenaVars, cacheVars, block, m_cache, m_length, call, failed>>

-----------------------------------------------------------------------------
(* The end of PoolSubpage::free(): the slot was the last one in use, and   *)
(* the pool of the class has another subpage (prev # next).                *)
releases(i, s, left) == ~isFull(s) /\ left.bits = {} /\ Len(pools[i]) > 1

arenaUnlocked == \A t \in Threads : call[t].pc \notin {"slot", "take"}

(* PoolArena::freeChunk() with PoolChunkList::free(), PoolChunk::free()    *)
(* and PoolSubpage::free().                                                *)
FreeChunk(blk) ==
    LET c == blk.chunk
        run == blk.handle.run
        slot == blk.handle.slot
        i == size2sizeIdx(blk.norm)
        s == subpages[c][run.off]
        left == [s EXCEPT !.bits = @ \ {slot}, !.nextAvail = slot]
        ends == slot < 0 \/ releases(i, s, left)
        runs == IF ends THEN inUse[c] \ {run} ELSE inUse[c]
        free == freeBytes(runs)
        l == parent[c]
        m == listAfterFree(l, free)
    IN /\ arenaUnlocked
       /\ inUse' = [inUse EXCEPT ![c] = runs]
       /\ subpages' = IF slot < 0 THEN subpages
                      ELSE [subpages EXCEPT ![c][run.off] = IF ends THEN NoSubpage ELSE left]
       /\ pools' = IF slot < 0 THEN pools
                   ELSE IF isFull(s) THEN [pools EXCEPT ![i] = <<<<c, run.off>>>> \o @]
                   ELSE IF ends THEN [pools EXCEPT ![i] = Unlinked(@, <<c, run.off>>)]
                   ELSE pools
       /\ parent' = [parent EXCEPT ![c] = m]
       /\ lists' = Relisted(c, l, m)
       /\ buffers' = IF m = NoList THEN [buffers EXCEPT ![c] = <<>>]
                     ELSE IF ends THEN [buffers EXCEPT ![c] = Append(@, blk.tmp)]
                     ELSE buffers
       /\ failed' = failed
            \cup (IF slot >= 0 /\ (s = NoSubpage \/ slot \notin s.bits) THEN {"slot"} ELSE {})
            \cup (IF \E k \in Max({1, m})..(l - 1) : usage(free) >= maxUsage(k)
                  THEN {"move"} ELSE {})
            \cup (IF m = NoList /\ usage(free) # 0 THEN {"move0"} ELSE {})

(* MemoryRegionCache::add(): behind the others, however many they are, by  *)
(* whichever thread frees the block.                                       *)
Cached(t, i, blk) == [queues EXCEPT ![t][i] = Append(@, blk)]

(* PoolArena::free(): a huge block goes with its chunk; a block of a class *)
(* that has a cache goes there, if its buffer has one; the rest is freed.  *)
FreeBlock(blk, cache) ==
    LET i == size2sizeIdx(blk.norm)
    IN IF blk.chunk = Huge THEN UNCHANGED <<arenaVars, cacheVars, failed>>
       ELSE IF cache # None /\ cacheable(i)
       THEN /\ queues' = Cached(cache, i, blk)
            /\ UNCHANGED <<arenaVars, m_poolTheadCache, hits, sweep, failed>>
       ELSE FreeChunk(blk) /\ UNCHANGED cacheVars

(* trim(): one cache after the other, and of it one entry after the other, *)
(* then the allocation goes on.                                            *)
Trim(t) ==
    LET more == {k \in Classes : call[t].todo[k] > 0 /\ queues[t][k] # <<>>}
        k == Min(more)
    IN /\ call[t].pc = "trim"
       /\ \/ /\ more = {}
             /\ call' = [call EXCEPT ![t] = AfterCache(@, @.hit)]
             /\ UNCHANGED <<arenaVars, queues, failed>>
          \/ /\ more # {}
             /\ FreeChunk(Head(queues[t][k]))
             /\ queues' = [queues EXCEPT ![t][k] = Tail(@)]
             /\ call' = [call EXCEPT ![t].todo = [j \in Classes |->
                            IF j < k THEN 0 ELSE IF j = k THEN @[k] - 1 ELSE @[j]]]
       /\ UNCHANGED <<m_poolTheadCache, hits, sweep, bufVars>>

(* recycle(), with what newInstance() and reuse() do to the object next.   *)
Reused(b) ==
    /\ m_readerIndex' = [m_readerIndex EXCEPT ![b] = 0]
    /\ m_writerIndex' = [m_writerIndex EXCEPT ![b] = 0]

Deallocate(t, b) ==
    /\ Begins(t, b) /\ block[b] # NoBlock
    /\ FreeBlock(block[b], m_cache[b])
    /\ block' = [block EXCEPT ![b] = NoBlock]
    /\ m_cache' = [m_cache EXCEPT ![b] = None]
    /\ m_length' = [m_length EXCEPT ![b] = 0]
    /\ Reused(b)
    /\ UNCHANGED call

(* The end of reallocate(): the old block goes to the cache the buffer has *)
(* now, which is none when its new block is huge.                          *)
FreeOld(t) ==
    /\ call[t].pc = "free"
    /\ FreeBlock(call[t].old, m_cache[call[t].buf])
    /\ call' = [call EXCEPT ![t] = Quiet]
    /\ UNCHANGED bufVars

-----------------------------------------------------------------------------
(* Mutant of poolAfterTake: fullness is tested before the slot is taken. *)
poolBeforeTake(i, p, k) ==
    IF isFull(subpages[p[1]][p[2]]) THEN [pools EXCEPT ![i] = Unlinked(@, p)] ELSE pools

(* A subpage whose last slot is taken leaves the pool. *)
poolAfterTake(i, p, k) ==
    IF isFull(Taken(subpages[p[1]][p[2]], k)) THEN [pools EXCEPT ![i] = Unlinked(@, p)] ELSE pools

(* PoolSubpage::allocate(), once the slot is chosen; its bit must be clear *)
(* (PoolSubpage.cpp:57).                                                   *)
TakeSlot(i, p, k, race) ==
    LET s == subpages[p[1]][p[2]]
    IN /\ subpages' = [subpages EXCEPT ![p[1]][p[2]] = Taken(s, k)]
       /\ pools' = poolAfterTake(i, p, k)
       /\ failed' = failed \cup race
                          \cup (IF s.class # i THEN {"class"} ELSE {})
                          \cup (IF k \in s.bits THEN {"bit"} ELSE {})

slotBlock(i, p, k, tmp) ==
    BlockOf(p[1], Handle(RunAt(p[2], classPages[i]), k), sizeIdx2size(i), tmp)

(* tcacheAllocateSmall(): a slot of the first subpage of the pool. *)
AllocateFromPool(t) ==
    LET i == size2sizeIdx(call[t].size)
        p == Head(pools[i])
        k == nextSlot(subpages[p[1]][p[2]])
    IN /\ call[t].pc = "pool"
       /\ pools[i] # <<>>
       /\ TakeSlot(i, p, k, {})
       /\ Given(t, call[t], slotBlock(i, p, k, -1), call[t].size)
       /\ call' = [call EXCEPT ![t] = Served(@)]
       /\ UNCHANGED <<inUse, buffers, parent, lists, cacheVars>>

(* The pool has none; its lock is released before that of the arena is     *)
(* taken.                                                                  *)
PoolEmpty(t) ==
    /\ call[t].pc = "pool"
    /\ pools[size2sizeIdx(call[t].size)] = <<>>
    /\ call' = [call EXCEPT ![t].pc = "arena"]
    /\ UNCHANGED <<arenaVars, cacheVars, bufVars, failed>>

(* A list is asked when its chunks may have room for the class. *)
asked(l, i) == IF sizeIdx2size(i) <= maxCapacity(l) THEN lists[l] ELSE <<>>

(* Mutant of Tried: q000 is not asked. *)
TriedFour(i) == asked(3, i) \o asked(2, i) \o asked(0, i) \o asked(4, i)

(* The chunks allocateNormal() tries, in its order. *)
Tried(i) == asked(3, i) \o asked(2, i) \o asked(1, i) \o asked(0, i) \o asked(4, i)

serves(c, i) == BestFits(inUse[c], classPages[i]) # {}

cachedBuffer(c) == IF buffers[c] = <<>> THEN -1 ELSE Last(buffers[c])

(* The end of PoolChunk::allocate(), and the list the chunk goes to: a     *)
(* buffer cached by an earlier free goes with the block.                   *)
ChunkGives(t, c, runs, blk) ==
    LET l == IF c \in live THEN parent[c] ELSE 0
        m == listAfterAdd(l, freeBytes(runs))
    IN /\ buffers' = IF buffers[c] = <<>> THEN buffers ELSE [buffers EXCEPT ![c] = Front(@)]
       /\ parent' = [parent EXCEPT ![c] = m]
       /\ lists' = Relisted(c, parent[c], m)
       /\ Given(t, call[t], blk, call[t].size)
       /\ call' = [call EXCEPT ![t] = Served(@)]
       /\ UNCHANGED cacheVars

(* Another thread is in tcacheAllocateSmall() for the class.               *)
Meets(t) == \E u \in Threads : /\ u # t /\ call[u].pc = "pool"
                              /\ size2sizeIdx(call[u].size) = size2sizeIdx(call[t].size)

(* PoolSubpage's constructor and allocate() without the lock of the pool:  *)
(* its links, m_numAvail and the bitmap may be torn when threads meet, and *)
(* both may find a bit clear before either sets it.                        *)
Torn(t) == IF Meets(t) THEN {{}, {"race"}} ELSE {{}}

(* allocateNormal(), after the first n chunks it tries: the next that has  *)
(* room, or a new one, and of it a run; for a small class it becomes a     *)
(* subpage, which is in the pool of the class from its construction on.    *)
Search(t, n) ==
    LET i == size2sizeIdx(call[t].size)
        pages == classPages[i]
        able == {m \in DOMAIN Tried(i) : n < m /\ serves(Tried(i)[m], i)}
    IN \E c \in Chunks : \E g \in BestFits(inUse[c], pages) :
          /\ IF able # {} THEN c = Tried(i)[Min(able)]
             ELSE c \notin live /\ \A d \in Chunks \ live : c <= d
          /\ inUse' = [inUse EXCEPT ![c] = @ \cup {RunAt(g.off, pages)}]
          /\ IF i > m_smallMaxSizeIdx
             THEN /\ ChunkGives(t, c, inUse[c] \cup {RunAt(g.off, pages)},
                         BlockOf(c, Handle(RunAt(g.off, pages), -1), pages * pageSize,
                                 cachedBuffer(c)))
                  /\ UNCHANGED <<subpages, pools, failed>>
             ELSE /\ subpages' = [subpages EXCEPT ![c][g.off] =
                                     [class |-> i, bits |-> {}, nextAvail |-> 0]]
                  /\ pools' = [pools EXCEPT ![i] = <<<<c, g.off>>>> \o @]
                  /\ call' = [call EXCEPT ![t].pc = "slot", ![t].at = <<c, g.off>>]
                  /\ \E race \in Torn(t) : failed' = failed \cup race \cup
                       (IF subpages[c][g.off] # NoSubpage THEN {"subpage"} ELSE {})
                  /\ UNCHANGED <<buffers, parent, lists, cacheVars, bufVars>>

AllocateNormal(t) == call[t].pc = "arena" /\ arenaUnlocked /\ Search(t, 0)

(* Then allocateSubpage() reads which slot is to be the first.  It is told *)
(* that there is none when others have taken all: the search goes on with  *)
(* the next chunk, and of a new chunk it is asserted not to happen.        *)
ChooseFirstSlot(t) ==
    LET p == call[t].at
        s == subpages[p[1]][p[2]]
        tried == Tried(size2sizeIdx(call[t].size))
    IN /\ call[t].pc = "slot"
       /\ \/ /\ ~isFull(s)
             /\ call' = [call EXCEPT ![t].pc = "take", ![t].slot = nextSlot(s)]
             /\ \E race \in Torn(t) : failed' = failed \cup race
             /\ UNCHANGED <<arenaVars, cacheVars, bufVars>>
          \/ /\ isFull(s) /\ p[1] \in live
             /\ Search(t, CHOOSE n \in DOMAIN tried : tried[n] = p[1])
          \/ /\ isFull(s) /\ p[1] \notin live
             /\ failed' = failed \cup {"ret"}
             /\ UNCHANGED <<arenaVars, cacheVars, bufVars, call>>

TakeFirstSlot(t) ==
    LET i == size2sizeIdx(call[t].size)
        p == call[t].at
    IN /\ call[t].pc = "take"
       /\ \E race \in Torn(t) : TakeSlot(i, p, call[t].slot, race)
       /\ ChunkGives(t, p[1], inUse[p[1]], slotBlock(i, p, call[t].slot, cachedBuffer(p[1])))
       /\ UNCHANGED inUse

Next == failed = {} /\ \E t \in Threads :
    \/ \E b \in Bufs : \/ PoolBuffer(t, b) \/ Capacity(t, b) \/ WriteBytes(t, b)
                       \/ Retrieve(t, b) \/ Deallocate(t, b)
    \/ Trim(t) \/ AllocateFromPool(t) \/ PoolEmpty(t) \/ AllocateNormal(t)
    \/ ChooseFirstSlot(t) \/ TakeFirstSlot(t) \/ FreeOld(t)

Spec == Init /\ [][Next]_vars

-----------------------------------------------------------------------------
(* The pooled blocks that somebody holds: a buffer, a call that replaces   *)
(* one, the n-th place of a thread's cache of a class.                     *)
replaced(t) == call[t].pc = "free" \/ (call[t].pc = "trim" /\ call[t].hit)

Held == {h \in
    {[by |-> <<b>>, blk |-> block[b]] : b \in Bufs}
    \cup {[by |-> <<t>>, blk |-> call[t].old] : t \in {u \in Threads : replaced(u)}}
    \cup UNION {{[by |-> <<t, i, n>>, blk |-> queues[t][i][n]] : n \in DOMAIN queues[t][i]} :
                t \in Threads, i \in Classes} : h.blk.chunk \in Chunks}

(* No byte of a chunk belongs to two holders, and all of them lie in runs  *)
(* in use of live chunks: a chunk is never destroyed under a block in the  *)
(* cache or in a buffer, nor is one handed out twice (cache, pool, chunk). *)
NoSharedBytes ==
    LET first(h) == offsetOf(h.blk.handle, h.blk.norm)
        beyond(h) == first(h) + h.blk.norm
    IN \A h \in Held :
          /\ h.blk.chunk \in live /\ h.blk.handle.run \in inUse[h.blk.chunk]
          /\ \A g \in Held \ {h} : g.blk.chunk = h.blk.chunk =>
                beyond(g) <= first(h) \/ beyond(h) <= first(g)

(* Nothing leaks: a run in use is held by somebody, or is a subpage's,     *)
(* and then the bits of its bitmap are the slots that somebody holds.      *)
(* (Of the memory of a chunk, not of the PoolSubpage objects.)             *)
NothingLeaked ==
    LET held == {<<h.blk.chunk, h.blk.handle>> : h \in Held}
        slots(c, r) == {p[2].slot : p \in {h \in held : h[1] = c /\ h[2].run = r}}
    IN \A c \in live : \A r \in inUse[c] :
          slots(c, r) = IF subpages[c][r.off] = NoSubpage THEN {-1}
                        ELSE subpages[c][r.off].bits

madeSubpages == {p \in Chunks \X (0..(nPages - 1)) : subpages[p[1]][p[2]] # NoSubpage}

(* A subpage is in the pool of its class exactly while it has a free slot. *)
PoolsExact ==
    LET free == {p \in madeSubpages : ~isFull(subpages[p[1]][p[2]])}
    IN \A i \in Classes :
          /\ \A m, n \in DOMAIN pools[i] : m # n => pools[i][m] # pools[i][n]
          /\ ToSet(pools[i]) = {p \in free : subpages[p[1]][p[2]].class = i}

(* Each chunk is in the list its m_parent names, once, and that list is    *)
(* one for its usage, hysteresis included; no wholly free chunk is kept    *)
(* but in qInit.                                                           *)
ListedByUsage ==
    /\ \A l \in Lists : \A m, n \in DOMAIN lists[l] : m # n => lists[l][m] # lists[l][n]
    /\ \A c \in Chunks : \A l \in Lists : c \in ToSet(lists[l]) <=> parent[c] = l
    /\ \A c \in live :
          /\ freeMinThreshold(parent[c]) < freeBytes(inUse[c])
          /\ freeBytes(inUse[c]) <= freeMaxThreshold(parent[c])

(* The assertions of PoolChunk, PoolSubpage, PoolChunkList and PoolArena   *)
(* on this path never fail.                                                *)
AssertionsHold == failed = {}

(* The subpages of a class with several slots do not pile up: at most one  *)
(* of them is wholly free.                                                 *)
OneIdleSubpage ==
    LET idle == {p \in madeSubpages : subpages[p[1]][p[2]].bits = {}}
    IN \A p, q \in idle : p # q =>
          \/ subpages[p[1]][p[2]].class # subpages[q[1]][q[2]].class
          \/ maxNumElems[subpages[p[1]][p[2]].class] = 1

(* Of a buffer the readable bytes lie in what has been written, that in    *)
(* its capacity, and its capacity in its block, through growth and trims.  *)
IndicesInBlock == \A b \in Bufs : block[b] # NoBlock =>
    /\ 0 <= m_readerIndex[b] /\ m_readerIndex[b] <= m_writerIndex[b]
    /\ m_writerIndex[b] <= m_length[b] /\ m_length[b] <= block[b].norm

(* What the arena finds its memory by is exact whenever m_mtx is free: the *)
(* pools of subpages, the lists of chunks, and no idle runs are kept       *)
(* beyond one.                                                             *)
ListsExact == arenaUnlocked => PoolsExact /\ ListedByUsage /\ OneIdleSubpage

(* A chunk is added only when none of the arena has room for the request:  *)
(* neither the order of the lists nor their bounds hide one that has.      *)
GrowsOnlyWithoutRoom == [][
    live' \ live # {} => \E t \in Threads :
        /\ call[t].pc \in {"arena", "take"} /\ call'[t] # call[t]
        /\ \A c \in live : ~serves(c, size2sizeIdx(call[t].size))]_vars

(* A thread that allocates has a cache (PoolByteBufAllocator.cpp:161): not *)
(* one that grows a buffer which another allocated.                        *)
ThreadHasCache == "threadCache" \notin failed

(* The slot that allocate() takes is clear (assertion PoolSubpage.cpp:57): *)
(* no two threads are given one.                                           *)
SlotGivenOnce == "bit" \notin failed

(* m_offset is the distance of m_tmpBuf from m_memory (PoolByteBuf.h:41).  *)
TmpBufAtOffset == \A b \in Bufs : block[b] # NoBlock =>
    block[b].tmp = offsetOf(block[b].handle, block[b].norm)
=============================================================================
