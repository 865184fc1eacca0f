--------------------------- MODULE PoolArenaProofs ---------------------------
(***************************************************************************)
(* Proofs about PoolArena, for every arena, any buffers and any size table *)
(* that satisfies the assumptions on it.                                   *)
(*                                                                         *)
(* 1. IndexInv: the indices of a buffer stay in its block, wherever that   *)
(* comes from and whichever thread grows it.  A write reads the index      *)
(* before the search for a block and moves it after, many steps of other   *)
(* threads later: RoomFor keeps what the first has seen true for the       *)
(* second, as no other call is on the buffer (CallsOK).  That a block has  *)
(* the size of its class however often it has changed hands is Sized, of   *)
(* buffers and calls, and QueuesOK, of caches.                             *)
(*                                                                         *)
(* 2. SharedInv, any number of threads: each block has one holder          *)
(* (HoldersOK), a holder's block is a run in use or a slot whose bit is    *)
(* set, and each of these has a holder (MemoryOK), pools are the subpages  *)
(* with a free slot, lists the chunks by usage (ChunksOK).  What is only   *)
(* true while m_mtx is free is said of all but the subpage that the one    *)
(* thread which holds it is making (WorkOK, AtWork).  It holds as long as  *)
(* no two threads meet over a subpage that is being made (MadeAlone): the  *)
(* maker does not hold the lock of the pool.  From it: only the assertion  *)
(* on a thread without a cache can fail, nothing leaks, and no byte has    *)
(* two holders.                                                            *)
(*                                                                         *)
(* 3. SoloInv, one thread: none of its own steps comes between finding a   *)
(* pool empty, making a subpage and taking its first slot, and it has a    *)
(* cache.  No assertion fails, and all that the arena promises holds.      *)
(*                                                                         *)
(* 4. RoomInv, any number of threads, and MadeAlone: a chunk is added only *)
(* when no chunk has room.  A list that is not asked has none (TriesAll),  *)
(* and while a subpage is made in a chunk that is in no list yet nothing   *)
(* is freed.                                                               *)
(***************************************************************************)
EXTENDS PoolArena, FiniteSetTheorems, TLAPS

-----------------------------------------------------------------------------
(* A pooled block has the size of its class. *)
OfClass(blk, i) == blk.norm = sizeIdx2size(i)
Sized(blk) == blk.norm \in Nat
    /\ (blk.chunk # Huge => \E i \in Classes : blk.norm = sizeIdx2size(i))

(* The blocks of the cache of a class have its size. *)
QueueOf(q, i) == q \in Seq(ToSet(q)) /\ \A n \in 1..Len(q) : OfClass(q[n], i)

(* A call that still has to give its buffer a block. *)
Pending(c) == c.pc \in {"pool", "arena", "slot", "take"} \/ (c.pc = "trim" /\ ~c.hit)

(* What it will write has room in what it has asked for. *)
RoomFor(c) == c.n = 0 \/ m_writerIndex[c.buf] + c.n <= c.size

(* The fields of a call. *)
CallFields == {"pc", "buf", "size", "old", "n", "hit", "todo", "at", "slot"}

(* A call, and what it knows of its buffer. *)
CallOK(c) ==
    /\ DOMAIN c = CallFields
    /\ c.buf \in Bufs /\ c.size \in Nat /\ c.n \in Nat
    /\ c.pc \in {"trim", "pool", "arena", "slot", "take", "free"}
    /\ c.pc # "free" => size2sizeIdx(c.size) \in Classes
        /\ c.size <= sizeIdx2size(size2sizeIdx(c.size))
    /\ c.pc = "free" => c.old # NoBlock
    /\ c.old # NoBlock => Sized(c.old)
    /\ Pending(c) => RoomFor(c)

(* No two calls are on one buffer. *)
CallsOK ==
    /\ DOMAIN call = Threads
    /\ \A t \in Threads : call[t] # Quiet => CallOK(call[t])
    /\ \A t, u \in Threads : call[t] # Quiet /\ call[u] # Quiet /\ t # u
        => call[t].buf # call[u].buf

(* The caches of the threads. *)
QueuesOK ==
    /\ DOMAIN queues = Threads
    /\ \A t \in Threads : DOMAIN queues[t] = Classes /\ \A i \in Classes : QueueOf(queues[t][i], i)

(* A buffer: its indices in its capacity, and that in its block. *)
BufOK(b) ==
    /\ m_readerIndex[b] <= m_writerIndex[b]
    /\ block[b] = NoBlock => m_writerIndex[b] = 0
    /\ block[b] # NoBlock => /\ Sized(block[b])
                             /\ m_writerIndex[b] <= m_length[b] /\ m_length[b] <= block[b].norm

(* All buffers. *)
BufsOK ==
    /\ DOMAIN block = Bufs
    /\ m_length \in [Bufs -> Nat] /\ m_readerIndex \in [Bufs -> Nat]
        /\ m_writerIndex \in [Bufs -> Nat]
    /\ \A b \in Bufs : BufOK(b)

(* The inductive invariant of the indices. *)
IndexInv == CallsOK /\ QueuesOK /\ BufsOK
-----------------------------------------------------------------------------
(* A set of naturals that is not empty has a least element. *)
LEMMA Least ==
    ASSUME NEW S \in SUBSET Nat, S # {}
    PROVE  Min(S) \in S /\ \A y \in S : Min(S) <= y
<1>1. IsWellFoundedOn(OpToRel(<, Nat), Nat)
  BY NatLessThanWellFounded
<1>2. PICK x \in S : \A y \in S : ~ (<<y, x>> \in OpToRel(<, Nat))
  BY <1>1, WFMin
<1>3. \A y \in S : ~ (y < x)
  BY <1>2 DEF OpToRel
<1>4. \A y \in S : x <= y
  BY <1>3
<1> QED
  BY <1>4 DEF Min

(* The names of the size tables, as far as the proofs need them. *)
LEMMA SizesOK ==
    /\ \A i \in Classes : /\ sizeIdx2size(i) \in Nat \ {0}
                          /\ size2sizeIdx(sizeIdx2size(i)) = i
                          /\ i > m_smallMaxSizeIdx => classPages[i] * pageSize = sizeIdx2size(i)
    /\ \A size \in AskedSizes :
          /\ size \in Nat
          /\ size2sizeIdx(size) = m_nSizes => normalizeSize(size) \in Nat
              /\ size <= normalizeSize(size)
          /\ size2sizeIdx(size) # m_nSizes =>
                size2sizeIdx(size) \in Classes /\ size <= sizeIdx2size(size2sizeIdx(size))
<1>1. \A size \in AskedSizes : size \in Nat
  BY BufAssumption DEF AskedSizes
<1> QED
  BY <1>1, ClassesAssumption

(* A block of a class is a block. *)
LEMMA ClassBlock ==
    ASSUME NEW blk, NEW i \in Classes, OfClass(blk, i)
    PROVE  blk # NoBlock /\ Sized(blk) /\ blk.norm \in Nat
<1>1. sizeIdx2size(i) \in Nat \ {0}
  BY SizesOK
<1> QED
  BY <1>1 DEF OfClass, Sized, NoBlock

-----------------------------------------------------------------------------
(* The caches.                                                             *)

(* A freed block goes behind the others of its class. *)
LEMMA QueueLonger ==
    ASSUME NEW q, NEW i, QueueOf(q, i), NEW blk, OfClass(blk, i)
    PROVE  QueueOf(Append(q, blk), i)
<1> DEFINE S == ToSet(q) \cup {blk}
           r == Append(q, blk)
           n == Len(q)
<1>1. q \in Seq(S) /\ blk \in S /\ n \in Nat
  BY DEF QueueOf
<1> HIDE DEF S
<1>2. /\ r \in Seq(S) /\ Len(r) = n + 1 /\ DOMAIN r = 1..(n + 1)
      /\ (\A k \in 1..n : r[k] = q[k]) /\ r[n + 1] = blk
  BY <1>1
<1> HIDE DEF r, n
<1>3. \A k \in 1..(n + 1) : k \in 1..n \/ k = n + 1
  BY <1>1
<1>4. \A k \in 1..Len(r) : OfClass(r[k], i)
  BY <1>2, <1>3 DEF QueueOf, n
<1>5. r \in Seq(ToSet(r))
  <2>1. \A k \in 1..Len(r) : r[k] \in ToSet(r)
    BY <1>2 DEF ToSet
  <2>2. r = [k \in 1..Len(r) |-> r[k]] /\ Len(r) \in Nat
    BY <1>1, <1>2
  <2> QED
    BY <2>1, <2>2
<1> QED
  BY <1>4, <1>5 DEF QueueOf, r

(* The oldest block leaves the cache of its class. *)
LEMMA QueueShorter ==
    ASSUME NEW q, NEW i, QueueOf(q, i), q # <<>>
    PROVE  QueueOf(Tail(q), i) /\ OfClass(Head(q), i)
<1> DEFINE S == ToSet(q)
           r == Tail(q)
           n == Len(q)
<1>1. q \in Seq(S) /\ n \in Nat
  BY DEF QueueOf
<1> HIDE DEF S
<1>2. /\ r \in Seq(S) /\ Len(r) = n - 1 /\ n > 0 /\ DOMAIN r = 1..(n - 1)
      /\ \A k \in 1..(n - 1) : r[k] = q[k + 1]
      /\ Head(q) = q[1] /\ 1 \in 1..n
  BY <1>1
<1> HIDE DEF r
<1>3. \A k \in 1..Len(r) : OfClass(r[k], i)
  <2>1. \A k \in 1..(n - 1) : k + 1 \in 1..n
    BY <1>1
  <2> QED
    BY <1>2, <2>1 DEF QueueOf
<1>4. r \in Seq(ToSet(r))
  <2>1. \A k \in 1..Len(r) : r[k] \in ToSet(r)
    BY <1>2 DEF ToSet
  <2>2. r = [k \in 1..Len(r) |-> r[k]] /\ Len(r) \in Nat
    BY <1>1, <1>2
  <2> QED
    BY <2>1, <2>2
<1> QED
  BY <1>2, <1>3, <1>4 DEF QueueOf, r

(* The cache of one class of one thread changes. *)
LEMMA QueueChanges ==
    ASSUME QueuesOK, NEW t, NEW i, NEW q, queues' = [queues EXCEPT ![t][i] = q],
           t \in Threads /\ i \in Classes => QueueOf(q, i)
    PROVE  QueuesOK'
<1>1. DOMAIN queues' = Threads
  BY DEF QueuesOK
<1>2. ASSUME NEW u \in Threads PROVE DOMAIN queues'[u] = Classes
              /\ \A k \in Classes : QueueOf(queues'[u][k], k)
  <2>1. DOMAIN queues = Threads /\ DOMAIN queues[u] = Classes
         /\ \A k \in Classes : QueueOf(queues[u][k], k)
    BY DEF QueuesOK
  <2>2. CASE u = t
    <3>1. queues'[u] = [queues[u] EXCEPT ![i] = q]
      BY <2>1, <2>2
    <3>2. ASSUME NEW k \in Classes PROVE QueueOf(queues'[u][k], k)
      <4>1. queues'[u][k] = IF k = i THEN q ELSE queues[u][k]
        BY <2>1, <3>1
      <4> QED
        BY <2>1, <2>2, <4>1
    <3> QED
      BY <2>1, <3>1, <3>2
  <2>3. CASE u # t
    <3>1. queues'[u] = queues[u]
      BY <2>1, <2>3
    <3> QED
      BY <2>1, <3>1
  <2> QED
    BY <2>2, <2>3
<1> QED
  BY <1>1, <1>2 DEF QueuesOK

(* free(): a cache gets a block of its class, or none does.                *)
LEMMA FreeBlockQueues ==
    ASSUME QueuesOK, NEW blk, NEW cache, Sized(blk), FreeBlock(blk, cache)
    PROVE  QueuesOK'
<1>1. CASE queues' = queues
  BY <1>1 DEF QueuesOK
<1>2. CASE /\ blk.chunk # Huge
           /\ queues' = Cached(cache, size2sizeIdx(blk.norm), blk)
  <2> DEFINE i == size2sizeIdx(blk.norm)
             q == Append(queues[cache][i], blk)
  <2>1. OfClass(blk, i) /\ i \in Classes
    BY <1>2, SizesOK DEF Sized, OfClass
  <2> HIDE DEF i
  <2>2. queues' = [queues EXCEPT ![cache][i] = q]
    BY <1>2 DEF Cached, i
  <2>3. cache \in Threads /\ i \in Classes => QueueOf(q, i)
    BY <2>1, QueueLonger DEF QueuesOK
  <2> HIDE DEF q
  <2> QED
    BY <2>2, <2>3, QueueChanges
<1> QED
  BY <1>1, <1>2 DEF FreeBlock, cacheVars

-----------------------------------------------------------------------------
(* The buffers.                                                            *)

(* One buffer changes. *)
LEMMA BufChanges ==
    ASSUME BufsOK, NEW b \in Bufs, NEW blk, NEW length \in Nat, NEW reader \in Nat,
           NEW writer \in Nat,
           DOMAIN block' = Bufs, block'[b] = blk, \A d \in Bufs \ {b} : block'[d] = block[d],
           m_length' = [m_length EXCEPT ![b] = length],
           m_readerIndex' = [m_readerIndex EXCEPT ![b] = reader],
           m_writerIndex' = [m_writerIndex EXCEPT ![b] = writer],
           reader <= writer,
           blk = NoBlock => writer = 0,
           blk # NoBlock => Sized(blk) /\ writer <= length /\ length <= blk.norm
    PROVE  /\ BufsOK'
           /\ \A d \in Bufs \ {b} : m_writerIndex'[d] = m_writerIndex[d]
<1>1. /\ DOMAIN block = Bufs
      /\ m_length \in [Bufs -> Nat] /\ m_readerIndex \in [Bufs -> Nat]
          /\ m_writerIndex \in [Bufs -> Nat]
  BY DEF BufsOK
<1>2. /\ DOMAIN block' = Bufs
      /\ m_length' \in [Bufs -> Nat] /\ m_readerIndex' \in [Bufs -> Nat]
          /\ m_writerIndex' \in [Bufs -> Nat]
      /\ block'[b] = blk /\ m_length'[b] = length /\ m_readerIndex'[b] = reader
          /\ m_writerIndex'[b] = writer
      /\ \A d \in Bufs \ {b} : /\ block'[d] = block[d] /\ m_length'[d] = m_length[d]
                               /\ m_readerIndex'[d] = m_readerIndex[d]
                                   /\ m_writerIndex'[d] = m_writerIndex[d]
  BY <1>1
<1>3. ASSUME NEW d \in Bufs PROVE BufOK(d)'
  <2>1. CASE d = b
    BY <1>2, <2>1 DEF BufOK
  <2>2. CASE d # b
    <3>1. BufOK(d)
      BY DEF BufsOK
    <3>2. /\ block'[d] = block[d] /\ m_length'[d] = m_length[d]
          /\ m_readerIndex'[d] = m_readerIndex[d] /\ m_writerIndex'[d] = m_writerIndex[d]
      BY <1>2, <2>2
    <3> QED
      BY <3>1, <3>2 DEF BufOK
  <2> QED
    BY <2>1, <2>2
<1> QED
  BY <1>2, <1>3 DEF BufsOK

(* The indices of a buffer that gets the capacity new and n more bytes.    *)
LEMMA Trimmed ==
    ASSUME BufsOK, NEW b \in Bufs, NEW new \in Nat, NEW n \in Nat, n = 0
            \/ m_writerIndex[b] + n <= new
    PROVE  LET reader == trimmed(m_readerIndex[b], b, new)
               writer == trimmed(m_writerIndex[b], b, new) + n
           IN reader \in Nat /\ writer \in Nat /\ reader <= writer /\ writer <= new
<1>1. m_readerIndex[b] \in Nat /\ m_writerIndex[b] \in Nat /\ m_readerIndex[b] <= m_writerIndex[b]
  BY DEF BufsOK, BufOK
<1> QED
  BY <1>1 DEF trimmed

(* init0(): the buffer has a block that is large enough. *)
LEMMA GivenKeeps ==
    ASSUME BufsOK, NEW t, NEW c, c.buf \in Bufs, c.size \in Nat, c.n \in Nat, RoomFor(c),
           NEW blk, NEW length \in Nat, blk # NoBlock, Sized(blk), blk.norm \in Nat,
           c.size <= length, length <= blk.norm,
           Given(t, c, blk, length)
    PROVE  /\ BufsOK'
           /\ \A d \in Bufs \ {c.buf} : m_writerIndex'[d] = m_writerIndex[d]
<1> DEFINE b == c.buf
           reader == trimmed(m_readerIndex[b], b, c.size)
           writer == trimmed(m_writerIndex[b], b, c.size) + c.n
<1>1. reader \in Nat /\ writer \in Nat /\ reader <= writer /\ writer <= c.size
  BY Trimmed DEF RoomFor
<1>2. /\ DOMAIN block' = Bufs /\ block'[b] = blk /\ \A d \in Bufs \ {b} : block'[d] = block[d]
      /\ m_length' = [m_length EXCEPT ![b] = length]
      /\ m_readerIndex' = [m_readerIndex EXCEPT ![b] = reader]
      /\ m_writerIndex' = [m_writerIndex EXCEPT ![b] = writer]
  BY DEF Given, BufsOK
<1> HIDE DEF reader, writer
<1>3. writer <= length
  BY <1>1
<1> QED
  BY <1>1, <1>2, <1>3, BufChanges

-----------------------------------------------------------------------------
(* The calls.                                                              *)

(* One thread goes on, with a buffer that no other thread uses.            *)
LEMMA CallsKept ==
    ASSUME CallsOK, NEW t \in Threads, NEW c, NEW b \in Bufs,
           DOMAIN call' = Threads, call'[t] = c, \A u \in Threads \ {t} : call'[u] = call[u],
           \A u \in Threads \ {t} : call[u] # Quiet => call[u].buf # b,
           \A d \in Bufs \ {b} : m_writerIndex'[d] = m_writerIndex[d],
           c = Quiet \/ (CallOK(c)' /\ c.buf = b)
    PROVE  CallsOK'
<1>1. DOMAIN call' = Threads /\ call'[t] = c /\ \A u \in Threads \ {t} : call'[u] = call[u]
  OBVIOUS
<1>2. ASSUME NEW u \in Threads, NEW d, d = call'[u], d # Quiet PROVE CallOK(d)'
  <2>1. CASE u = t
    BY <1>1, <1>2, <2>1
  <2>2. CASE u # t
    <3>1. d = call[u] /\ d # Quiet
      BY <1>1, <1>2, <2>2
    <3>2. CallOK(d) /\ d.buf # b
      BY <2>2, <3>1 DEF CallsOK
    <3> QED
      BY <3>2 DEF CallOK, RoomFor
  <2> QED
    BY <2>1, <2>2
<1>3. ASSUME NEW u \in Threads, NEW v \in Threads, call'[u] # Quiet, call'[v] # Quiet, u # v
      PROVE  call'[u].buf # call'[v].buf
  <2>1. CASE u # t /\ v # t
    BY <1>1, <1>3, <2>1 DEF CallsOK
  <2>2. CASE u = t
    BY <1>1, <1>3, <2>2
  <2>3. CASE v = t
    BY <1>1, <1>3, <2>3
  <2> QED
    BY <2>1, <2>2, <2>3
<1>4. ASSUME NEW u \in Threads, call'[u] # Quiet PROVE CallOK(call[u])'
  <2>1. \A d : d = call'[u] => CallOK(d)'
    BY <1>2, <1>4
  <2> QED
    BY <2>1 DEF CallOK, Pending, RoomFor, Sized
<1> QED
  BY <1>1, <1>3, <1>4 DEF CallsOK

(* A call whose buffer has got its block. *)
LEMMA ServedOK ==
    ASSUME NEW c, DOMAIN c = CallFields, c.buf \in Bufs, c.size \in Nat, c.n \in Nat,
           c.old # NoBlock => Sized(c.old), NEW d, d = Served(c)
    PROVE  d = Quiet \/ (CallOK(d)' /\ d.buf = c.buf)
<1>1. CASE c.old = NoBlock
  BY <1>1 DEF Served
<1>2. CASE c.old # NoBlock
  <2>1. /\ d = [c EXCEPT !.pc = "free"]
        /\ DOMAIN d = CallFields /\ d.pc = "free" /\ d.buf = c.buf /\ d.size = c.size /\ d.n = c.n
            /\ d.old = c.old
    BY <1>2 DEF Served, CallFields
  <2>2. ~Pending(d)
    BY <2>1 DEF Pending
  <2> QED
    BY <1>2, <2>1, <2>2 DEF CallOK
<1> QED
  BY <1>1, <1>2

(* A call that goes on to the pool or the arena, or trims before that. *)
LEMMA GoesOn ==
    ASSUME NEW c, DOMAIN c = CallFields, c.buf \in Bufs, c.size \in Nat, c.n \in Nat,
           c.old # NoBlock => Sized(c.old), (RoomFor(c))',
           size2sizeIdx(c.size) \in Classes, c.size <= sizeIdx2size(size2sizeIdx(c.size)),
           NEW d, DOMAIN d = CallFields, d.buf = c.buf, d.size = c.size, d.n = c.n, d.old = c.old,
           d.pc \in {"trim", "pool", "arena"}
    PROVE  CallOK(d)'
<1>1. RoomFor(d)'
  BY DEF RoomFor
<1> QED
  BY <1>1 DEF CallOK

(* tcacheAllocateSmall(), tcacheAllocateNormal(): what comes after the cache. *)
LEMMA AfterCacheOK ==
    ASSUME NEW c, DOMAIN c = CallFields, c.buf \in Bufs, c.size \in Nat, c.n \in Nat,
           c.old # NoBlock => Sized(c.old),
           size2sizeIdx(c.size) \in Classes, c.size <= sizeIdx2size(size2sizeIdx(c.size)),
           NEW hit, ~hit => (RoomFor(c))', NEW d, d = AfterCache(c, hit)
    PROVE  d = Quiet \/ (CallOK(d)' /\ d.buf = c.buf)
<1>1. CASE hit
  BY <1>1, ServedOK DEF AfterCache
<1>2. CASE ~hit
  <2> DEFINE next == IF size2sizeIdx(c.size) <= m_smallMaxSizeIdx THEN "pool" ELSE "arena"
             none == [i \in Classes |-> 0]
  <2>1. d = [c EXCEPT !.pc = next, !.todo = none]
    BY <1>2 DEF AfterCache
  <2>2. next \in {"trim", "pool", "arena"}
    OBVIOUS
  <2> HIDE DEF next, none
  <2>3. /\ DOMAIN d = CallFields /\ d.pc = next /\ d.buf = c.buf /\ d.size = c.size /\ d.n = c.n
            /\ d.old = c.old
    BY <2>1 DEF CallFields
  <2> QED
    BY <1>2, <2>2, <2>3, GoesOn
<1> QED
  BY <1>1, <1>2

(* The buffer of a new call. *)
LEMMA NewCall ==
    ASSUME NEW b, NEW size, NEW old, NEW n, NEW c, c = Allocating(b, size, old, n)
    PROVE  DOMAIN c = CallFields /\ c.buf = b /\ c.size = size /\ c.n = n /\ c.old = old
BY DEF Allocating, CallFields

(* allocate(): a call begins that wants a block for b.                     *)
LEMMA BeginCall ==
    ASSUME IndexInv, NEW t \in Threads, NEW b \in Bufs, Begins(t, b),
           NEW size \in AskedSizes, NEW old, old # NoBlock => Sized(old),
           NEW n \in Nat, n = 0 \/ m_writerIndex[b] + n <= size,
           NEW c, c = Allocating(b, size, old, n), Allocate(t, c)
    PROVE  IndexInv'
<1> DEFINE i == size2sizeIdx(size)
           length == normalizeSize(size)
           unpooled == [chunk |-> Huge, handle |-> Handle(RunAt(0, 0), -1), tmp |-> 0, norm |-> length]
<1>1. CallsOK /\ QueuesOK /\ BufsOK
  BY DEF IndexInv
<1>2. DOMAIN c = CallFields /\ c.buf = b /\ c.size = size /\ c.n = n /\ c.old = old /\ size \in Nat
  BY NewCall, SizesOK
<1>3. RoomFor(c)
  BY <1>2 DEF RoomFor
<1>4. \A u \in Threads \ {t} : call[u] # Quiet => call[u].buf # b
  BY DEF Begins
<1>5. CASE i = m_nSizes
  <2>1. Given(t, c, unpooled, length) /\ call' = [call EXCEPT ![t] = Served(c)] /\ UNCHANGED queues
    BY <1>2, <1>5 DEF Allocate, AllocateHuge
  <2>2. length \in Nat /\ size <= length
    BY <1>5, SizesOK
  <2> HIDE DEF length
  <2>3. unpooled # NoBlock /\ Sized(unpooled) /\ unpooled.norm = length
    <3>1. unpooled.chunk = Huge /\ unpooled.norm = length /\ Huge # NoBlock.chunk
      BY DEF Huge, NoBlock
    <3> QED
      BY <2>2, <3>1 DEF Sized
  <2> HIDE DEF unpooled
  <2>4. BufsOK' /\ \A d \in Bufs \ {b} : m_writerIndex'[d] = m_writerIndex[d]
    BY <1>1, <1>2, <1>3, <2>1, <2>2, <2>3, GivenKeeps
  <2>5. CallsOK'
    <3>1. PICK d : d = Served(c)
      OBVIOUS
    <3>2. d = Quiet \/ (CallOK(d)' /\ d.buf = b)
      BY <1>2, <3>1, ServedOK
    <3>3. call' = [call EXCEPT ![t] = d]
      BY <2>1, <3>1
    <3>4. DOMAIN call' = Threads /\ call'[t] = d /\ \A u \in Threads \ {t} : call'[u] = call[u]
      BY <1>1, <3>3 DEF CallsOK
    <3> QED
      BY <1>1, <1>4, <2>4, <3>2, <3>4, CallsKept
  <2>6. QueuesOK'
    BY <1>1, <2>1 DEF QueuesOK
  <2> QED
    BY <2>4, <2>5, <2>6 DEF IndexInv
<1>6. CASE i # m_nSizes
  <2> DEFINE q == queues[t][i]
             hit == cacheable(i) /\ q # <<>>
             trims == cacheable(i) /\ trimDue(t)
             hits1 == IF hit THEN [hits[t] EXCEPT ![i] = @ + 1] ELSE hits[t]
             todo == [k \in Classes |-> Max({0, CacheSize - hits1[k]})]
             next == IF trims THEN [c EXCEPT !.pc = "trim", !.hit = hit, !.todo = todo] ELSE AfterCache(c, hit)
  <2>1. i \in Classes /\ size <= sizeIdx2size(i) /\ sizeIdx2size(i) \in Nat
    BY <1>6, SizesOK
  <2>2. CacheAllocate(t, c)
    BY <1>2, <1>6 DEF Allocate
  <2>3. /\ queues' = IF hit THEN [queues EXCEPT ![t][i] = Tail(@)] ELSE queues
        /\ IF hit THEN Given(t, c, Head(q), size) ELSE UNCHANGED bufVars
        /\ call' = [call EXCEPT ![t] = next]
    BY <1>2, <2>2 DEF CacheAllocate
  <2> HIDE DEF trims, todo, i
  <2>4. QueueOf(q, i)
    BY <1>1, <2>1 DEF QueuesOK
  <2>5. QueuesOK'
    <3>1. CASE hit
      <4> DEFINE r == Tail(q)
      <4>1. queues' = [queues EXCEPT ![t][i] = r]
        BY <2>3, <3>1
      <4>2. QueueOf(r, i)
        BY <2>4, <3>1, QueueShorter
      <4> HIDE DEF r
      <4> QED
        BY <1>1, <4>1, <4>2, QueueChanges
    <3>2. CASE ~hit
      BY <1>1, <2>3, <3>2 DEF QueuesOK
    <3> QED
      BY <3>1, <3>2
  <2>6. BufsOK' /\ (\A d \in Bufs \ {b} : m_writerIndex'[d] = m_writerIndex[d])
         /\ (~hit => RoomFor(c)')
    <3>1. CASE hit
      <4> DEFINE blk == Head(q)
      <4>1. OfClass(blk, i)
        BY <2>4, <3>1, QueueShorter
      <4> HIDE DEF blk
      <4>2. blk # NoBlock /\ Sized(blk) /\ blk.norm \in Nat /\ size <= blk.norm
        BY <2>1, <4>1, ClassBlock DEF OfClass
      <4>3. Given(t, c, blk, size)
        BY <2>3, <3>1 DEF blk
      <4>4. c.size <= size
        BY <1>2
      <4> QED
        BY <1>1, <1>2, <1>3, <3>1, <4>2, <4>3, <4>4, GivenKeeps
    <3>2. CASE ~hit
      <4>1. UNCHANGED <<block, m_length, m_readerIndex, m_writerIndex>>
        BY <2>3, <3>2 DEF bufVars
      <4> QED
        BY <1>1, <1>3, <4>1 DEF BufsOK, BufOK, RoomFor
    <3> QED
      BY <3>1, <3>2
  <2> HIDE DEF hit
  <2>7. PICK d : d = next
    OBVIOUS
  <2>8. d = Quiet \/ (CallOK(d)' /\ d.buf = b)
    <3>1. CASE trims
      <4>1. d = [c EXCEPT !.pc = "trim", !.hit = hit, !.todo = todo]
        BY <2>7, <3>1
      <4>2. /\ DOMAIN d = CallFields /\ d.pc = "trim" /\ d.hit = hit
            /\ d.buf = b /\ d.size = size /\ d.n = n /\ d.old = old
        BY <1>2, <4>1 DEF CallFields
      <4>3. Pending(d) => RoomFor(d)'
        BY <1>2, <2>6, <4>2 DEF Pending, RoomFor
      <4>4. size2sizeIdx(d.size) \in Classes /\ d.size <= sizeIdx2size(size2sizeIdx(d.size))
        BY <2>1, <4>2 DEF i
      <4> QED
        BY <1>2, <4>2, <4>3, <4>4 DEF CallOK
    <3>2. CASE ~trims
      <4>1. d = AfterCache(c, hit)
        BY <2>7, <3>2
      <4>2. size2sizeIdx(c.size) \in Classes /\ c.size <= sizeIdx2size(size2sizeIdx(c.size))
        BY <1>2, <2>1 DEF i
      <4>3. PICK h : h = hit
        OBVIOUS
      <4>4. d = AfterCache(c, h) /\ (~h => RoomFor(c)')
        BY <2>6, <4>1, <4>3
      <4> QED
        BY <1>2, <4>2, <4>4, AfterCacheOK
    <3> QED
      BY <3>1, <3>2
  <2>9. call' = [call EXCEPT ![t] = d]
    BY <2>3, <2>7
  <2> HIDE DEF next
  <2>10. DOMAIN call' = Threads /\ call'[t] = d /\ \A u \in Threads \ {t} : call'[u] = call[u]
    BY <1>1, <2>9 DEF CallsOK
  <2>11. CallsOK'
    BY <1>1, <1>4, <2>6, <2>8, <2>10, CallsKept
  <2> QED
    BY <2>5, <2>6, <2>11 DEF IndexInv
<1> QED
  BY <1>5, <1>6

-----------------------------------------------------------------------------
(* The steps.                                                              *)

(* What changes no cache, no buffer and no call. *)
LEMMA NoChange ==
    ASSUME IndexInv, UNCHANGED <<queues, bufVars, call>>
    PROVE  IndexInv'
BY DEF IndexInv, CallsOK, CallOK, Pending, RoomFor, QueuesOK, BufsOK, BufOK, bufVars

(* What changes a buffer that no call uses. *)
LEMMA BufferChanges ==
    ASSUME IndexInv, NEW t \in Threads, NEW b \in Bufs, Begins(t, b), UNCHANGED call,
           QueuesOK', BufsOK', \A d \in Bufs \ {b} : m_writerIndex'[d] = m_writerIndex[d]
    PROVE  IndexInv'
<1>1. DOMAIN call' = Threads /\ call'[t] = Quiet /\ \A u \in Threads \ {t} : call'[u] = call[u]
  BY DEF IndexInv, CallsOK, Begins
<1>2. \A u \in Threads \ {t} : call[u] # Quiet => call[u].buf # b
  BY DEF Begins
<1>3. PICK c : c = Quiet
  OBVIOUS
<1>4. c = Quiet \/ (CallOK(c)' /\ c.buf = b)
  BY <1>3
<1>5. CallsOK'
  BY <1>1, <1>2, <1>3, <1>4, CallsKept DEF IndexInv
<1> QED
  BY <1>5 DEF IndexInv

(* A call that finds a block for its buffer. *)
LEMMA CallServed ==
    ASSUME IndexInv, NEW t \in Threads, NEW c, c = call[t], c # Quiet, Pending(c),
           NEW blk, OfClass(blk, size2sizeIdx(c.size)), Given(t, c, blk, c.size),
           call' = [call EXCEPT ![t] = Served(c)], UNCHANGED queues
    PROVE  IndexInv'
<1> DEFINE i == size2sizeIdx(c.size)
<1>1. CallsOK /\ QueuesOK /\ BufsOK /\ CallOK(c) /\ c.pc # "free"
  BY DEF IndexInv, CallsOK, Pending
<1>2. /\ DOMAIN c = CallFields /\ c.buf \in Bufs /\ c.size \in Nat /\ c.n \in Nat /\ RoomFor(c)
      /\ i \in Classes /\ c.size <= sizeIdx2size(i)
      /\ c.old # NoBlock => Sized(c.old)
  BY <1>1 DEF CallOK
<1> HIDE DEF i
<1>3. blk # NoBlock /\ Sized(blk) /\ blk.norm \in Nat /\ c.size <= blk.norm
  BY <1>2, ClassBlock DEF OfClass, i
<1>4. c.size <= c.size
  BY <1>2
<1>5. BufsOK' /\ \A d \in Bufs \ {c.buf} : m_writerIndex'[d] = m_writerIndex[d]
  BY <1>1, <1>2, <1>3, <1>4, GivenKeeps
<1>6. PICK d : d = Served(c)
  OBVIOUS
<1>7. d = Quiet \/ (CallOK(d)' /\ d.buf = c.buf)
  BY <1>2, <1>6, ServedOK
<1>8. \A u \in Threads \ {t} : call[u] # Quiet => call[u].buf # c.buf
  BY <1>1 DEF CallsOK
<1>9. PICK b : b = c.buf
  OBVIOUS
<1>10. b \in Bufs /\ DOMAIN call' = Threads /\ call'[t] = d
        /\ \A u \in Threads \ {t} : call'[u] = call[u]
  BY <1>1, <1>2, <1>6, <1>9 DEF CallsOK
<1>11. CallsOK'
  BY <1>1, <1>5, <1>7, <1>8, <1>9, <1>10, CallsKept
<1> QED
  BY <1>1, <1>5, <1>11 DEF IndexInv, QueuesOK

(* A call that goes on and leaves the buffers alone. *)
LEMMA CallGoesOn ==
    ASSUME IndexInv, NEW t \in Threads, NEW c, c = call[t], c # Quiet,
           NEW d, call' = [call EXCEPT ![t] = d], UNCHANGED bufVars, QueuesOK',
           d = Quiet \/ (CallOK(d)' /\ d.buf = c.buf)
    PROVE  IndexInv'
<1>1. CallsOK /\ BufsOK /\ c.buf \in Bufs
  BY DEF IndexInv, CallsOK, CallOK
<1>2. UNCHANGED <<block, m_length, m_readerIndex, m_writerIndex>>
  BY DEF bufVars
<1>3. BufsOK' /\ \A e \in Bufs \ {c.buf} : m_writerIndex'[e] = m_writerIndex[e]
  BY <1>1, <1>2 DEF BufsOK, BufOK
<1>4. \A u \in Threads \ {t} : call[u] # Quiet => call[u].buf # c.buf
  BY <1>1 DEF CallsOK
<1>5. PICK b : b = c.buf
  OBVIOUS
<1>6. DOMAIN call' = Threads /\ call'[t] = d /\ \A u \in Threads \ {t} : call'[u] = call[u]
  BY <1>1 DEF CallsOK
<1>7. CallsOK'
  BY <1>1, <1>3, <1>4, <1>5, <1>6, CallsKept
<1> QED
  BY <1>3, <1>7 DEF IndexInv

(* capacity(): the buffer keeps its block or begins to look for another.   *)
LEMMA SetCapacityStep ==
    ASSUME IndexInv, NEW t \in Threads, NEW b \in Bufs, NEW new \in AskedSizes, NEW n \in Nat,
           n = 0 \/ m_writerIndex[b] + n <= new, SetCapacity(t, b, new, n)
    PROVE  IndexInv'
<1> DEFINE len == m_length[b]
           max == block[b].norm
           inPlace == \/ new > len /\ new <= max
                      \/ new < len /\ new > max \div 2 /\ (max > 512 \/ new > max - 16)
           reader == trimmed(m_readerIndex[b], b, new)
           writer == trimmed(m_writerIndex[b], b, new) + n
<1>1. CallsOK /\ QueuesOK /\ BufsOK /\ BufOK(b) /\ new \in Nat
  BY SizesOK DEF IndexInv, BufsOK
<1>2. Begins(t, b) /\ block[b] # NoBlock /\ Sized(block[b]) /\ len <= max /\ len \in Nat
       /\ max \in Nat
  BY <1>1 DEF SetCapacity, BufOK, BufsOK, Sized
<1>3. CASE /\ inPlace
           /\ m_length' = [m_length EXCEPT ![b] = new]
           /\ m_readerIndex' = [m_readerIndex EXCEPT ![b] = reader]
           /\ m_writerIndex' = [m_writerIndex EXCEPT ![b] = writer]
           /\ UNCHANGED <<queues, block, call>>
  <2>1. new <= max
    <3>1. CASE new > len /\ new <= max
      BY <3>1
    <3>2. CASE new < len
      BY <1>1, <1>2, <3>2
    <3> QED
      BY <1>3, <3>1, <3>2
  <2> HIDE DEF inPlace, max
  <2>2. reader \in Nat /\ writer \in Nat /\ reader <= writer /\ writer <= new
    BY <1>1, Trimmed
  <2> HIDE DEF reader, writer
  <2>3. PICK blk : blk = block[b]
    OBVIOUS
  <2>4. DOMAIN block' = Bufs /\ block'[b] = blk /\ \A d \in Bufs \ {b} : block'[d] = block[d]
    BY <1>1, <1>3, <2>3 DEF BufsOK
  <2>5. blk # NoBlock /\ Sized(blk) /\ new <= blk.norm
    BY <1>2, <2>1, <2>3 DEF max
  <2>6. PICK r, w : r = reader /\ w = writer
    OBVIOUS
  <2>7. BufsOK' /\ \A d \in Bufs \ {b} : m_writerIndex'[d] = m_writerIndex[d]
    BY <1>1, <1>3, <2>2, <2>4, <2>5, <2>6, BufChanges
  <2>8. QueuesOK'
    BY <1>1, <1>3 DEF QueuesOK
  <2> QED
    BY <1>2, <1>3, <2>7, <2>8, BufferChanges
<1>4. CASE Allocate(t, Allocating(b, new, block[b], n))
  <2>1. PICK old : old = block[b]
    OBVIOUS
  <2>2. PICK c : c = Allocating(b, new, old, n)
    OBVIOUS
  <2>3. Sized(old) /\ Allocate(t, c)
    BY <1>2, <1>4, <2>1, <2>2
  <2> QED
    BY <1>2, <2>2, <2>3, BeginCall
<1>5. CASE UNCHANGED <<queues, bufVars, call>>
  BY <1>5, NoChange
<1> QED
  BY <1>3, <1>4, <1>5 DEF SetCapacity, cacheVars

(* poolBuffer(): a buffer without a block begins to look for one. *)
LEMMA PoolBufferStep ==
    ASSUME IndexInv, NEW t \in Threads, NEW b \in Bufs, PoolBuffer(t, b)
    PROVE  IndexInv'
<1>1. PICK size \in Sizes : Allocate(t, Allocating(b, size, NoBlock, 0))
  BY DEF PoolBuffer
<1>2. PICK c : c = Allocating(b, size, NoBlock, 0)
  OBVIOUS
<1>3. Begins(t, b) /\ size \in AskedSizes /\ Allocate(t, c)
  BY <1>1, <1>2 DEF PoolBuffer, AskedSizes
<1> QED
  BY <1>2, <1>3, BeginCall

(* capacity() called by itself. *)
LEMMA CapacityStep ==
    ASSUME IndexInv, NEW t \in Threads, NEW b \in Bufs, Capacity(t, b)
    PROVE  IndexInv'
<1>1. PICK new \in Capacities : SetCapacity(t, b, new, 0)
  BY DEF Capacity
<1>2. new \in AskedSizes
  BY DEF AskedSizes
<1> QED
  BY <1>1, <1>2, SetCapacityStep

(* writeBytes(): within the capacity, or with a larger one that it asks for. *)
LEMMA WriteBytesStep ==
    ASSUME IndexInv, NEW t \in Threads, NEW b \in Bufs, WriteBytes(t, b)
    PROVE  IndexInv'
<1> DEFINE target == m_writerIndex[b] + WriteSize
<1>1. /\ CallsOK /\ QueuesOK /\ BufsOK /\ BufOK(b)
      /\ m_length \in [Bufs -> Nat] /\ m_readerIndex[b] \in Nat /\ m_writerIndex[b] \in Nat
  BY DEF IndexInv, BufsOK
<1>2. Begins(t, b) /\ block[b] # NoBlock /\ target <= MaxWritten
  BY DEF WriteBytes
<1>3. WriteSize \in Nat \ {0} /\ MaxWritten \in Nat
  BY BufAssumption
<1>4. target \in 1..MaxWritten
  BY <1>1, <1>2, <1>3
<1>5. CASE target > m_length[b]
  <2>1. PICK new : new = calculateNewCapacity(target)
    OBVIOUS
  <2>2. new \in AskedSizes /\ target <= new
    BY <1>4, <2>1, BufAssumption DEF AskedSizes
  <2>3. SetCapacity(t, b, new, WriteSize)
    BY <1>5, <2>1 DEF WriteBytes
  <2> QED
    BY <1>3, <2>2, <2>3, SetCapacityStep
<1>6. CASE target <= m_length[b]
  <2>1. /\ m_writerIndex' = [m_writerIndex EXCEPT ![b] = target]
        /\ UNCHANGED <<queues, block, m_length, m_readerIndex, call>>
    BY <1>1, <1>4, <1>6 DEF WriteBytes, cacheVars
  <2>2. PICK blk, length, reader, writer :
            blk = block[b] /\ length = m_length[b] /\ reader = m_readerIndex[b] /\ writer = target
    OBVIOUS
  <2>3. /\ length \in Nat /\ reader \in Nat /\ writer \in Nat /\ reader <= writer
            /\ writer <= length
        /\ blk # NoBlock /\ Sized(blk) /\ length <= blk.norm
    BY <1>1, <1>2, <1>3, <1>6, <2>2 DEF BufOK
  <2>4. DOMAIN block' = Bufs /\ block'[b] = blk /\ \A d \in Bufs \ {b} : block'[d] = block[d]
    BY <1>1, <2>1, <2>2 DEF BufsOK
  <2>5. /\ m_length' = [m_length EXCEPT ![b] = length]
        /\ m_readerIndex' = [m_readerIndex EXCEPT ![b] = reader]
        /\ m_writerIndex' = [m_writerIndex EXCEPT ![b] = writer]
    BY <1>1, <2>1, <2>2 DEF BufsOK
  <2>6. BufsOK' /\ \A d \in Bufs \ {b} : m_writerIndex'[d] = m_writerIndex[d]
    BY <1>1, <2>3, <2>4, <2>5, BufChanges
  <2>7. QueuesOK'
    BY <1>1, <2>1 DEF QueuesOK
  <2> QED
    BY <1>2, <2>1, <2>6, <2>7, BufferChanges
<1> QED
  BY <1>1, <1>4, <1>5, <1>6

(* retrieve(): the read index does not pass the write index. *)
LEMMA RetrieveStep ==
    ASSUME IndexInv, NEW t \in Threads, NEW b \in Bufs, Retrieve(t, b)
    PROVE  IndexInv'
<1> DEFINE readable == m_writerIndex[b] - m_readerIndex[b]
           len == IF readable < WriteSize \div 2 THEN readable ELSE WriteSize \div 2
           r == IF len < readable THEN m_readerIndex[b] + len ELSE 0
           w == IF len < readable THEN m_writerIndex[b] ELSE 0
<1>1. /\ CallsOK /\ QueuesOK /\ BufsOK /\ BufOK(b)
      /\ m_length[b] \in Nat /\ m_readerIndex[b] \in Nat /\ m_writerIndex[b] \in Nat
  BY DEF IndexInv, BufsOK
<1>2. /\ Begins(t, b) /\ block[b] # NoBlock
      /\ m_readerIndex' = [m_readerIndex EXCEPT ![b] = r]
      /\ m_writerIndex' = [m_writerIndex EXCEPT ![b] = w]
      /\ UNCHANGED <<queues, block, m_length, call>>
  BY DEF Retrieve, cacheVars
<1>3. r \in Nat /\ w \in Nat /\ r <= w /\ w <= m_length[b]
  <2>1. WriteSize \div 2 \in Nat
    BY BufAssumption
  <2>2. len \in Int /\ len <= WriteSize \div 2 /\ (len >= 0 \/ len = readable)
    BY <1>1, <2>1
  <2>3. m_readerIndex[b] <= m_writerIndex[b] /\ m_writerIndex[b] <= m_length[b]
    BY <1>1, <1>2 DEF BufOK
  <2>4. len \in Nat
    BY <1>1, <2>1, <2>3
  <2> HIDE DEF len
  <2> QED
    BY <1>1, <2>3, <2>4
<1> HIDE DEF r, w
<1>4. PICK blk, length, reader, writer :
          blk = block[b] /\ length = m_length[b] /\ reader = r /\ writer = w
  OBVIOUS
<1>5. /\ length \in Nat /\ reader \in Nat /\ writer \in Nat /\ reader <= writer /\ writer <= length
      /\ blk # NoBlock /\ Sized(blk) /\ length <= blk.norm
  BY <1>1, <1>2, <1>3, <1>4 DEF BufOK
<1>6. DOMAIN block' = Bufs /\ block'[b] = blk /\ \A d \in Bufs \ {b} : block'[d] = block[d]
  BY <1>1, <1>2, <1>4 DEF BufsOK
<1>7. /\ m_length' = [m_length EXCEPT ![b] = length]
      /\ m_readerIndex' = [m_readerIndex EXCEPT ![b] = reader]
      /\ m_writerIndex' = [m_writerIndex EXCEPT ![b] = writer]
  BY <1>1, <1>2, <1>4 DEF BufsOK
<1>8. BufsOK' /\ \A d \in Bufs \ {b} : m_writerIndex'[d] = m_writerIndex[d]
  BY <1>1, <1>5, <1>6, <1>7, BufChanges
<1>9. QueuesOK'
  BY <1>1, <1>2 DEF QueuesOK
<1> QED
  BY <1>2, <1>8, <1>9, BufferChanges

(* deallocate(): the block goes to a cache or to the arena. *)
LEMMA DeallocateStep ==
    ASSUME IndexInv, NEW t \in Threads, NEW b \in Bufs, Deallocate(t, b)
    PROVE  IndexInv'
<1>1. CallsOK /\ QueuesOK /\ BufsOK
  BY DEF IndexInv
<1>2. PICK blk, cache : blk = block[b] /\ cache = m_cache[b]
  OBVIOUS
<1>3. Begins(t, b) /\ FreeBlock(blk, cache) /\ Sized(blk)
  BY <1>1, <1>2 DEF Deallocate, BufsOK, BufOK
<1>4. /\ block' = [block EXCEPT ![b] = NoBlock]
      /\ m_length' = [m_length EXCEPT ![b] = 0]
      /\ m_readerIndex' = [m_readerIndex EXCEPT ![b] = 0]
      /\ m_writerIndex' = [m_writerIndex EXCEPT ![b] = 0]
      /\ UNCHANGED call
  BY DEF Deallocate, Reused
<1>5. DOMAIN block' = Bufs /\ block'[b] = NoBlock /\ \A d \in Bufs \ {b} : block'[d] = block[d]
  BY <1>1, <1>4 DEF BufsOK
<1>6. PICK none, zero : none = NoBlock /\ zero = 0
  OBVIOUS
<1>7. /\ zero \in Nat /\ zero <= zero
      /\ DOMAIN block' = Bufs /\ block'[b] = none /\ \A d \in Bufs \ {b} : block'[d] = block[d]
      /\ m_length' = [m_length EXCEPT ![b] = zero]
      /\ m_readerIndex' = [m_readerIndex EXCEPT ![b] = zero]
      /\ m_writerIndex' = [m_writerIndex EXCEPT ![b] = zero]
  BY <1>4, <1>5, <1>6
<1>8. none = NoBlock /\ zero = 0
  BY <1>6
<1>9. BufsOK' /\ \A d \in Bufs \ {b} : m_writerIndex'[d] = m_writerIndex[d]
  BY <1>1, <1>7, <1>8, BufChanges
<1>10. QueuesOK'
  BY <1>1, <1>3, FreeBlockQueues
<1> QED
  BY <1>3, <1>4, <1>9, <1>10, BufferChanges

(* What the invariant says of a call that is going on. *)
LEMMA TheCall ==
    ASSUME IndexInv, NEW t \in Threads, NEW c, c = call[t], c.pc # "idle"
    PROVE  /\ c # Quiet /\ CallOK(c) /\ DOMAIN c = CallFields
           /\ c.buf \in Bufs /\ c.size \in Nat /\ c.n \in Nat
           /\ c.old # NoBlock => Sized(c.old)
           /\ c.pc # "free" => size2sizeIdx(c.size) \in Classes
               /\ c.size <= sizeIdx2size(size2sizeIdx(c.size))
           /\ c.pc = "free" => c.old # NoBlock
           /\ Pending(c) => RoomFor(c)
<1>1. c # Quiet
  BY DEF Quiet
<1>2. CallOK(c)
  BY <1>1 DEF IndexInv, CallsOK
<1> QED
  BY <1>1, <1>2 DEF CallOK

(* trim(): an entry of a cache is freed, or the call goes on. *)
LEMMA TrimStep ==
    ASSUME IndexInv, NEW t \in Threads, Trim(t)
    PROVE  IndexInv'
<1> DEFINE more == {k \in Classes : call[t].todo[k] > 0 /\ queues[t][k] # <<>>}
           k == Min(more)
<1>1. CallsOK /\ QueuesOK /\ BufsOK
  BY DEF IndexInv
<1>2. PICK c : c = call[t]
  OBVIOUS
<1>3. c.pc = "trim" /\ UNCHANGED bufVars
  BY <1>2 DEF Trim
<1>4. /\ c # Quiet /\ CallOK(c) /\ DOMAIN c = CallFields
      /\ c.buf \in Bufs /\ c.size \in Nat /\ c.n \in Nat
      /\ c.old # NoBlock => Sized(c.old)
      /\ size2sizeIdx(c.size) \in Classes /\ c.size <= sizeIdx2size(size2sizeIdx(c.size))
      /\ ~c.hit => RoomFor(c)
  <2>1. c.pc # "idle" /\ c.pc # "free" /\ (~c.hit => Pending(c))
    BY <1>3 DEF Pending
  <2> QED
    BY <1>2, <2>1, TheCall
<1>5. ~c.hit => RoomFor(c)'
  BY <1>3, <1>4 DEF RoomFor, bufVars
<1>6. CASE more = {}
  <2>1. PICK d : d = AfterCache(c, c.hit)
    OBVIOUS
  <2>2. call' = [call EXCEPT ![t] = d] /\ UNCHANGED queues
    BY <1>2, <1>6, <2>1 DEF Trim
  <2>3. PICK hit : hit = c.hit
    OBVIOUS
  <2>4. d = AfterCache(c, hit) /\ (~hit => RoomFor(c)')
    BY <1>5, <2>1, <2>3
  <2>5. d = Quiet \/ (CallOK(d)' /\ d.buf = c.buf)
    BY <1>4, <2>4, AfterCacheOK
  <2>6. QueuesOK'
    BY <1>1, <2>2 DEF QueuesOK
  <2> QED
    BY <1>2, <1>3, <1>4, <2>2, <2>5, <2>6, CallGoesOn
<1>7. CASE more # {}
  <2>1. k \in more
    <3>1. more \in SUBSET Nat
      BY SizesOK, ClassesAssumption DEF Classes
    <3> HIDE DEF more
    <3> QED
      BY <1>7, <3>1, Least
  <2>2. k \in Classes /\ queues[t][k] # <<>>
    BY <2>1
  <2>3. /\ queues' = [queues EXCEPT ![t][k] = Tail(@)]
        /\ call' = [call EXCEPT ![t].todo = [j \in Classes |-> IF j < k THEN 0 ELSE IF j = k THEN @[k] - 1 ELSE @[j]]]
    BY <1>7 DEF Trim
  <2> HIDE DEF more, k
  <2>4. PICK j : j = k
    OBVIOUS
  <2>5. PICK q : q = Tail(queues[t][j])
    OBVIOUS
  <2>6. QueueOf(q, j)
    BY <1>1, <2>2, <2>4, <2>5, QueueShorter DEF QueuesOK
  <2>7. queues' = [queues EXCEPT ![t][j] = q]
    BY <2>3, <2>4, <2>5
  <2>8. QueuesOK'
    BY <1>1, <2>6, <2>7, QueueChanges
  <2>9. PICK todo : call' = [call EXCEPT ![t] = [c EXCEPT !.todo = todo]]
    BY <1>2, <2>3
  <2>10. PICK d : d = [c EXCEPT !.todo = todo]
    OBVIOUS
  <2>11. /\ DOMAIN d = CallFields /\ d.buf = c.buf /\ d.size = c.size /\ d.n = c.n
         /\ d.old = c.old /\ d.pc = c.pc /\ d.hit = c.hit
    BY <1>4, <2>10 DEF CallFields
  <2>12. CallOK(d)'
    <3>1. Pending(d) => RoomFor(d)'
      BY <1>3, <1>5, <2>11 DEF Pending, RoomFor
    <3> QED
      BY <1>3, <1>4, <2>11, <3>1 DEF CallOK
  <2>13. call' = [call EXCEPT ![t] = d]
    BY <2>9, <2>10
  <2> QED
    BY <1>2, <1>3, <1>4, <2>8, <2>11, <2>12, <2>13, CallGoesOn
<1> QED
  BY <1>6, <1>7

(* tcacheAllocateSmall(): a slot has the size of its class. *)
LEMMA AllocateFromPoolStep ==
    ASSUME IndexInv, NEW t \in Threads, AllocateFromPool(t)
    PROVE  IndexInv'
<1> DEFINE i == size2sizeIdx(call[t].size)
           p == Head(pools[i])
           k == nextSlot(subpages[p[1]][p[2]])
<1>1. PICK c, blk : c = call[t] /\ blk = slotBlock(i, p, k, -1)
  OBVIOUS
<1>2. c.pc = "pool" /\ Given(t, c, blk, c.size) /\ call' = [call EXCEPT ![t] = Served(c)]
       /\ UNCHANGED queues
  BY <1>1 DEF AllocateFromPool, cacheVars
<1>3. OfClass(blk, size2sizeIdx(c.size))
  BY <1>1 DEF OfClass, slotBlock, BlockOf
<1>4. c # Quiet /\ Pending(c)
  BY <1>2 DEF Quiet, Pending
<1> QED
  BY <1>1, <1>2, <1>3, <1>4, CallServed

(* A call that goes on without a block. *)
LEMMA StillPending ==
    ASSUME IndexInv, NEW t \in Threads, NEW c, c = call[t], Pending(c), UNCHANGED bufVars,
           NEW d, DOMAIN d = CallFields, d.buf = c.buf, d.size = c.size, d.n = c.n, d.old = c.old,
           d.pc \in {"pool", "arena", "slot", "take"},
           call' = [call EXCEPT ![t] = d], UNCHANGED queues
    PROVE  IndexInv'
<1>1. c.pc # "idle" /\ c.pc # "free"
  BY DEF Pending
<1>2. /\ c # Quiet /\ CallOK(c) /\ DOMAIN c = CallFields
      /\ c.buf \in Bufs /\ c.size \in Nat /\ c.n \in Nat
      /\ c.old # NoBlock => Sized(c.old)
      /\ size2sizeIdx(c.size) \in Classes /\ c.size <= sizeIdx2size(size2sizeIdx(c.size))
      /\ RoomFor(c)
  BY <1>1, TheCall
<1>3. RoomFor(d)'
  BY <1>2 DEF RoomFor, bufVars
<1>4. CallOK(d)'
  BY <1>2, <1>3 DEF CallOK
<1>5. QueuesOK'
  BY DEF IndexInv, QueuesOK
<1> QED
  BY <1>2, <1>4, <1>5, CallGoesOn

(* The pool has no subpage. *)
LEMMA PoolEmptyStep ==
    ASSUME IndexInv, NEW t \in Threads, PoolEmpty(t)
    PROVE  IndexInv'
<1>1. PICK c : c = call[t]
  OBVIOUS
<1>2. PICK d : d = [c EXCEPT !.pc = "arena"]
  OBVIOUS
<1>3. c.pc = "pool" /\ call' = [call EXCEPT ![t] = d] /\ UNCHANGED <<queues, bufVars>>
  BY <1>1, <1>2 DEF PoolEmpty, cacheVars
<1>4. DOMAIN c = CallFields /\ Pending(c)
  BY <1>1, <1>3, TheCall DEF Pending
<1>5. DOMAIN d = CallFields /\ d.buf = c.buf /\ d.size = c.size /\ d.n = c.n /\ d.old = c.old
       /\ d.pc = "arena"
  BY <1>2, <1>4 DEF CallFields
<1> QED
  BY <1>1, <1>3, <1>4, <1>5, StillPending

(* allocateNormal(): a run of a normal class has the size of the class. *)
LEMMA SearchStep ==
    ASSUME IndexInv, NEW t \in Threads, call[t].pc \in {"arena", "slot"}, NEW n, Search(t, n)
    PROVE  IndexInv'
<1> DEFINE i == size2sizeIdx(call[t].size)
           pages == classPages[i]
<1>1. PICK c : c = call[t]
  OBVIOUS
<1>2. c.pc \in {"arena", "slot"}
  BY <1>1
<1>3. DOMAIN c = CallFields /\ Pending(c) /\ c # Quiet /\ i \in Classes
  BY <1>1, <1>2, TheCall DEF Pending
<1>4. PICK ch, g :
         IF i > m_smallMaxSizeIdx
         THEN ChunkGives(t, ch, inUse[ch] \cup {RunAt(g.off, pages)},
                  BlockOf(ch, Handle(RunAt(g.off, pages), -1), pages * pageSize, cachedBuffer(ch)))
         ELSE /\ call' = [call EXCEPT ![t].pc = "slot", ![t].at = <<ch, g.off>>]
              /\ UNCHANGED <<cacheVars, bufVars>>
  BY DEF Search
<1>5. CASE i > m_smallMaxSizeIdx
  <2>1. PICK blk : blk = BlockOf(ch, Handle(RunAt(g.off, pages), -1), pages * pageSize, cachedBuffer(ch))
    OBVIOUS
  <2>2. Given(t, c, blk, c.size) /\ call' = [call EXCEPT ![t] = Served(c)] /\ UNCHANGED queues
    BY <1>1, <1>4, <1>5, <2>1 DEF ChunkGives, cacheVars
  <2>3. pages * pageSize = sizeIdx2size(i)
    BY <1>3, <1>5, SizesOK
  <2>4. OfClass(blk, size2sizeIdx(c.size))
    <3>1. blk.norm = pages * pageSize
      BY <2>1 DEF BlockOf
    <3> QED
      BY <1>1, <2>3, <3>1 DEF OfClass
  <2> QED
    BY <1>1, <1>3, <2>2, <2>4, CallServed
<1>6. CASE ~(i > m_smallMaxSizeIdx)
  <2>1. PICK d : d = [[c EXCEPT !.pc = "slot"] EXCEPT !.at = <<ch, g.off>>]
    OBVIOUS
  <2>2. call' = [call EXCEPT ![t].pc = "slot", ![t].at = <<ch, g.off>>]
         /\ UNCHANGED <<queues, bufVars>>
    BY <1>4, <1>6 DEF cacheVars
  <2>3. DOMAIN call = Threads
    BY DEF IndexInv, CallsOK
  <2>4. call' = [call EXCEPT ![t] = d]
    BY <1>1, <2>1, <2>2, <2>3
  <2>5. DOMAIN d = CallFields /\ d.buf = c.buf /\ d.size = c.size /\ d.n = c.n /\ d.old = c.old
         /\ d.pc = "slot"
    BY <1>3, <2>1 DEF CallFields
  <2>6. UNCHANGED <<queues, bufVars>>
    BY <2>2
  <2> QED
    BY <1>1, <1>3, <2>4, <2>5, <2>6, StillPending
<1> QED
  BY <1>5, <1>6

(* allocateSubpage() has read which slot is the first, or the search goes  *)
(* on, as there is none.                                                   *)
LEMMA ChooseFirstSlotStep ==
    ASSUME IndexInv, NEW t \in Threads, ChooseFirstSlot(t)
    PROVE  IndexInv'
<1> DEFINE s == subpages[call[t].at[1]][call[t].at[2]]
<1>1. PICK c, slot : c = call[t] /\ slot = nextSlot(s)
  OBVIOUS
<1>2. c.pc = "slot"
  BY <1>1 DEF ChooseFirstSlot
<1>3. DOMAIN c = CallFields /\ Pending(c)
  BY <1>1, <1>2, TheCall DEF Pending
<1>4. CASE call' = [call EXCEPT ![t].pc = "take", ![t].slot = slot] /\ UNCHANGED <<queues, bufVars>>
  <2>1. PICK d : d = [[c EXCEPT !.pc = "take"] EXCEPT !.slot = slot]
    OBVIOUS
  <2>2. DOMAIN call = Threads
    BY DEF IndexInv, CallsOK
  <2>3. call' = [call EXCEPT ![t] = d]
    BY <1>1, <1>4, <2>1, <2>2
  <2>4. DOMAIN d = CallFields /\ d.buf = c.buf /\ d.size = c.size /\ d.n = c.n /\ d.old = c.old
         /\ d.pc = "take"
    BY <1>3, <2>1 DEF CallFields
  <2> QED
    BY <1>1, <1>3, <1>4, <2>3, <2>4, StillPending
<1>5. CASE UNCHANGED call /\ UNCHANGED <<queues, bufVars>>
  BY <1>5, NoChange
<1>6. CASE \E n : Search(t, n)
  BY <1>1, <1>2, <1>6, SearchStep
<1> QED
  BY <1>1, <1>4, <1>5, <1>6 DEF ChooseFirstSlot, cacheVars

(* And takes it. *)
LEMMA TakeFirstSlotStep ==
    ASSUME IndexInv, NEW t \in Threads, TakeFirstSlot(t)
    PROVE  IndexInv'
<1> DEFINE i == size2sizeIdx(call[t].size)
           p == call[t].at
<1>1. PICK c, blk : c = call[t] /\ blk = slotBlock(i, p, call[t].slot, cachedBuffer(p[1]))
  OBVIOUS
<1>2. c.pc = "take" /\ Given(t, c, blk, c.size) /\ call' = [call EXCEPT ![t] = Served(c)]
       /\ UNCHANGED queues
  BY <1>1 DEF TakeFirstSlot, ChunkGives, cacheVars
<1>3. OfClass(blk, size2sizeIdx(c.size))
  BY <1>1 DEF OfClass, slotBlock, BlockOf
<1>4. c # Quiet /\ Pending(c)
  BY <1>2 DEF Quiet, Pending
<1> QED
  BY <1>1, <1>2, <1>3, <1>4, CallServed

(* The end of reallocate(): the old block had the size of its class too. *)
LEMMA FreeOldStep ==
    ASSUME IndexInv, NEW t \in Threads, FreeOld(t)
    PROVE  IndexInv'
<1>1. PICK c, old, cache : c = call[t] /\ old = c.old /\ cache = m_cache[c.buf]
  OBVIOUS
<1>2. c.pc = "free" /\ FreeBlock(old, cache) /\ UNCHANGED bufVars
  BY <1>1 DEF FreeOld
<1>3. c # Quiet /\ Sized(old)
  BY <1>1, <1>2, TheCall
<1>4. QueuesOK'
  BY <1>2, <1>3, FreeBlockQueues DEF IndexInv
<1>5. PICK d : d = Quiet
  OBVIOUS
<1>6. call' = [call EXCEPT ![t] = d]
  BY <1>5 DEF FreeOld
<1> QED
  BY <1>1, <1>2, <1>3, <1>4, <1>5, <1>6, CallGoesOn

-----------------------------------------------------------------------------
(* Nothing is allocated at first. *)
LEMMA IndexInit == Init => IndexInv
<1> SUFFICES ASSUME Init PROVE IndexInv
  OBVIOUS
<1>1. CallsOK
  BY DEF Init, CallsOK
<1>2. QueuesOK
  <2>1. \A i : QueueOf(<<>>, i)
    BY DEF QueueOf, ToSet
  <2> QED
    BY <2>1 DEF Init, QueuesOK
<1>3. BufsOK
  BY DEF Init, BufsOK, BufOK
<1> QED
  BY <1>1, <1>2, <1>3 DEF IndexInv

(* Every step keeps the invariant. *)
LEMMA IndexNext == IndexInv /\ [Next]_vars => IndexInv'
<1> SUFFICES ASSUME IndexInv, [Next]_vars PROVE IndexInv'
  OBVIOUS
<1>1. CASE UNCHANGED vars
  BY <1>1, NoChange DEF vars, cacheVars
<1>2. ASSUME NEW t \in Threads, NEW b \in Bufs,
             PoolBuffer(t, b) \/ Capacity(t, b) \/ WriteBytes(t, b) \/ Retrieve(t, b)
                 \/ Deallocate(t, b)
      PROVE  IndexInv'
  BY <1>2, PoolBufferStep, CapacityStep, WriteBytesStep, RetrieveStep, DeallocateStep
<1>3. ASSUME NEW t \in Threads, Trim(t) \/ AllocateFromPool(t) \/ PoolEmpty(t) \/ AllocateNormal(t)
      PROVE  IndexInv'
  BY <1>3, TrimStep, AllocateFromPoolStep, PoolEmptyStep, SearchStep DEF AllocateNormal
<1>4. ASSUME NEW t \in Threads, ChooseFirstSlot(t) \/ TakeFirstSlot(t) \/ FreeOld(t)
      PROVE  IndexInv'
  BY <1>4, ChooseFirstSlotStep, TakeFirstSlotStep, FreeOldStep
<1> QED
  BY <1>1, <1>2, <1>3, <1>4 DEF Next

(* Growth, shrinking, the caches, the pools and the chunks, in any thread: *)
(* the readable bytes of a buffer lie in what has been written, that in    *)
(* its capacity, and its capacity in the block it holds.                   *)
THEOREM IndexSafety == Spec => []IndicesInBlock
<1>1. IndexInv => IndicesInBlock
  BY DEF IndexInv, BufsOK, BufOK, IndicesInBlock
<1> QED
  BY <1>1, IndexInit, IndexNext, PTL DEF Spec

-----------------------------------------------------------------------------
(* Who holds which block: a buffer, a call that replaces it, a cache.      *)
Pooled(S) == {x \in S : x.chunk \in Chunks}

(* Those who can hold blocks. *)
Owners == ({"buffer"} \X Bufs) \cup ({"call"} \X Threads) \cup ({"cache"} \X (Threads \X Classes))

(* The pooled blocks that one of them holds. *)
Own(o) == Pooled(
    IF o[1] = "buffer" THEN {block[o[2]]}
    ELSE IF o[1] = "call" THEN (IF replaced(o[2]) THEN {call[o[2]].old} ELSE {})
    ELSE ToSet(queues[o[2][1]][o[2][2]]))

(* All that is held, as a function of the holder. *)
own == [o \in Owners |-> Own(o)]

(* The blocks that somebody holds. *)
AllOf(M) == UNION {M[o] : o \in Owners}

(* No block has two holders. *)
OneOwner(M) == \A o, w \in Owners : \A x \in M[o] : x \in M[w] => o = w

(* What a buffer or a call may hold. *)
Known(x) == x = NoBlock \/ x.chunk \in Chunks \cup {Huge}

(* Until it has replaced its block, a call knows the block of its buffer. *)
CallHolds(t) == call[t] # Quiet =>
    Known(call[t].old) /\ (~replaced(t) => call[t].old = block[call[t].buf])

(* The blocks of a cache: pooled, and none of them twice. *)
Apart(q) ==
    /\ \A n \in 1..Len(q) : q[n].chunk \in Chunks
    /\ \A m, n \in 1..Len(q) : q[m] = q[n] => m = n

(* A cache of a thread. *)
CacheHolds(t, i) == Apart(queues[t][i])

(* The holders: each block has one. *)
HoldersOK ==
    /\ OneOwner(own)
    /\ \A b \in Bufs : Known(block[b])
    /\ DOMAIN m_cache = Bufs /\ \A b \in Bufs : m_cache[b] \in Threads \cup {None}
    /\ \A t \in Threads : CallHolds(t)
    /\ \A t \in Threads : \A i \in Classes : CacheHolds(t, i)

(* Some block changes its holder. *)
LEMMA GiveNew ==
    ASSUME NEW M, NEW N, OneOwner(M), NEW B \in Owners, NEW W \in Owners, B # W, NEW X,
           X \cap AllOf(M) = {}, M[W] = {}, N[B] = X, N[W] = M[B],
           \A o \in Owners : o # B /\ o # W => N[o] = M[o]
    PROVE  OneOwner(N) /\ AllOf(N) = AllOf(M) \cup X
<1>1. \A o \in Owners : M[o] \subseteq AllOf(M)
  BY DEF AllOf
<1>2. \A o, w \in Owners : \A x : x \in M[o] /\ x \in M[w] => o = w
  BY DEF OneOwner
<1>3. ASSUME NEW o \in Owners, NEW w \in Owners, NEW x, x \in N[o], x \in N[w] PROVE o = w
  <2>1. \A v \in Owners \ {B} : N[v] \subseteq AllOf(M)
    BY <1>1
  <2>2. \A v \in Owners \ {B} : v # W => N[v] = M[v]
    OBVIOUS
  <2>3. CASE o = B
    BY <1>3, <2>1, <2>3
  <2>4. CASE w = B
    BY <1>3, <2>1, <2>4
  <2>5. CASE o # B /\ w # B
    BY <1>2, <1>3, <2>2, <2>5
  <2> QED
    BY <2>3, <2>4, <2>5
<1>4. AllOf(N) = AllOf(M) \cup X
  <2>1. ASSUME NEW x \in AllOf(N) PROVE x \in AllOf(M) \cup X
    <3>1. PICK o \in Owners : x \in N[o]
      BY <2>1 DEF AllOf
    <3> QED
      BY <1>1, <3>1
  <2>2. ASSUME NEW x \in AllOf(M) PROVE x \in AllOf(N)
    <3>1. PICK o \in Owners : x \in M[o]
      BY <2>2 DEF AllOf
    <3>2. \E w \in Owners : x \in N[w]
      BY <3>1
    <3> QED
      BY <3>2 DEF AllOf
  <2>3. X \subseteq AllOf(N)
    BY DEF AllOf
  <2> QED
    BY <2>1, <2>2, <2>3
<1> QED
  BY <1>3, <1>4 DEF OneOwner

(* A block of a cache goes to a buffer. *)
LEMMA GiveCached ==
    ASSUME NEW M, NEW N, OneOwner(M), NEW B \in Owners, NEW W \in Owners, NEW C \in Owners,
           B # W, B # C, W # C, NEW x, x \in M[C],
           M[W] = {}, N[B] = {x}, N[W] = M[B], N[C] = M[C] \ {x},
           \A o \in Owners : o # B /\ o # W /\ o # C => N[o] = M[o]
    PROVE  OneOwner(N) /\ AllOf(N) = AllOf(M)
<1>1. \A o, w \in Owners : \A y : y \in M[o] /\ y \in M[w] => o = w
  BY DEF OneOwner
<1>2. \A o \in Owners : o # B => x \notin N[o]
  BY <1>1
<1>3. ASSUME NEW o \in Owners, NEW w \in Owners, NEW y, y \in N[o], y \in N[w] PROVE o = w
  <2>1. CASE o = B
    BY <1>2, <1>3, <2>1
  <2>2. CASE w = B
    BY <1>2, <1>3, <2>2
  <2>3. CASE o # B /\ w # B
    BY <1>1, <1>3, <2>3
  <2> QED
    BY <2>1, <2>2, <2>3
<1>4. AllOf(N) = AllOf(M)
  <2>1. ASSUME NEW y \in AllOf(N) PROVE y \in AllOf(M)
    <3>1. PICK o \in Owners : y \in N[o]
      BY <2>1 DEF AllOf
    <3>2. \E w \in Owners : y \in M[w]
      BY <3>1
    <3> QED
      BY <3>2 DEF AllOf
  <2>2. ASSUME NEW y \in AllOf(M) PROVE y \in AllOf(N)
    <3>1. PICK o \in Owners : y \in M[o]
      BY <2>2 DEF AllOf
    <3>2. \E w \in Owners : y \in N[w]
      BY <3>1
    <3> QED
      BY <3>2 DEF AllOf
  <2> QED
    BY <2>1, <2>2
<1> QED
  BY <1>3, <1>4 DEF OneOwner

(* What one holds goes to another. *)
LEMMA MoveAll ==
    ASSUME NEW M, NEW N, OneOwner(M), NEW B \in Owners, NEW C \in Owners, B # C,
           N[B] = {}, N[C] = M[C] \cup M[B],
           \A o \in Owners : o # B /\ o # C => N[o] = M[o]
    PROVE  OneOwner(N) /\ AllOf(N) = AllOf(M)
<1>1. \A o, w \in Owners : \A y : y \in M[o] /\ y \in M[w] => o = w
  BY DEF OneOwner
<1>2. ASSUME NEW o \in Owners, NEW w \in Owners, NEW y, y \in N[o], y \in N[w] PROVE o = w
  BY <1>1, <1>2
<1>3. AllOf(N) = AllOf(M)
  <2>1. ASSUME NEW y \in AllOf(N) PROVE y \in AllOf(M)
    <3>1. PICK o \in Owners : y \in N[o]
      BY <2>1 DEF AllOf
    <3>2. \E w \in Owners : y \in M[w]
      BY <3>1
    <3> QED
      BY <3>2 DEF AllOf
  <2>2. ASSUME NEW y \in AllOf(M) PROVE y \in AllOf(N)
    <3>1. PICK o \in Owners : y \in M[o]
      BY <2>2 DEF AllOf
    <3>2. \E w \in Owners : y \in N[w]
      BY <3>1
    <3> QED
      BY <3>2 DEF AllOf
  <2> QED
    BY <2>1, <2>2
<1> QED
  BY <1>2, <1>3 DEF OneOwner

(* A block is given back. *)
LEMMA DropOne ==
    ASSUME NEW M, NEW N, OneOwner(M), NEW B \in Owners, NEW x, x \in M[B],
           N[B] = M[B] \ {x}, \A o \in Owners : o # B => N[o] = M[o]
    PROVE  OneOwner(N) /\ x \in AllOf(M) /\ AllOf(N) = AllOf(M) \ {x}
<1>1. \A o, w \in Owners : \A y : y \in M[o] /\ y \in M[w] => o = w
  BY DEF OneOwner
<1>2. \A o \in Owners : N[o] = M[o] \ {x}
  BY <1>1
<1>3. AllOf(N) = AllOf(M) \ {x}
  BY <1>2 DEF AllOf
<1>4. OneOwner(N)
  BY <1>1, <1>2 DEF OneOwner
<1>5. x \in AllOf(M)
  BY DEF AllOf
<1> QED
  BY <1>3, <1>4, <1>5

(* Who they are. *)
LEMMA OwnerKinds ==
    /\ \A o \in Owners : \/ \E b \in Bufs : o = <<"buffer", b>>
                         \/ \E t \in Threads : o = <<"call", t>>
                         \/ \E t \in Threads, i \in Classes : o = <<"cache", <<t, i>>>>
    /\ \A b \in Bufs : <<"buffer", b>> \in Owners
    /\ \A t \in Threads : <<"call", t>> \in Owners
    /\ \A t \in Threads, i \in Classes : <<"cache", <<t, i>>>> \in Owners
BY DEF Owners

(* The block that a call has replaced and still has to free. *)
Replaced(t) == IF replaced(t) THEN {call[t].old} ELSE {}

(* What each kind of holder holds. *)
LEMMA OwnNow ==
    /\ \A b \in Bufs : own[<<"buffer", b>>] = Pooled({block[b]})
    /\ \A t \in Threads : own[<<"call", t>>] = Pooled(Replaced(t))
    /\ \A t \in Threads, i \in Classes : own[<<"cache", <<t, i>>>>] = Pooled(ToSet(queues[t][i]))
BY OwnerKinds DEF own, Own, Replaced

(* And what it holds after a step. *)
LEMMA OwnNext ==
    /\ \A b \in Bufs : own'[<<"buffer", b>>] = Pooled({block'[b]})
    /\ \A t \in Threads : own'[<<"call", t>>] = Pooled(Replaced(t)')
    /\ \A t \in Threads, i \in Classes : own'[<<"cache", <<t, i>>>>] = Pooled(ToSet(queues'[t][i]))
BY OwnerKinds DEF own, Own, Replaced, Pooled

(* Only buffer b, the call of thread t and the caches change. *)
LEMMA HoldersStep ==
    ASSUME IndexInv, HoldersOK, NEW t \in Threads, NEW b \in Bufs,
           \A u \in Threads : u # t => call'[u] = call[u],
           \A u \in Threads : u # t /\ call[u] # Quiet => call[u].buf # b,
           \A d \in Bufs : d # b => block'[d] = block[d], Known(block'[b]),
           DOMAIN m_cache' = Bufs, m_cache'[b] \in Threads \cup {None},
           \A d \in Bufs : d # b => m_cache'[d] = m_cache[d],
           CallHolds(t)', \A u \in Threads, i \in Classes : CacheHolds(u, i)', OneOwner(own')
    PROVE  HoldersOK'
<1>1. ASSUME NEW d \in Bufs PROVE Known(block'[d]) /\ m_cache'[d] \in Threads \cup {None}
  BY DEF HoldersOK
<1>2. ASSUME NEW u \in Threads PROVE CallHolds(u)'
  <2>1. CASE u = t
    BY <2>1
  <2>2. CASE u # t
    <3>1. CallHolds(u) /\ call'[u] = call[u] /\ (call[u] # Quiet => call[u].buf # b)
      BY <2>2 DEF HoldersOK
    <3>2. replaced(u)' <=> replaced(u)
      BY <3>1 DEF replaced
    <3>3. call[u] # Quiet => call[u].buf \in Bufs
      BY DEF IndexInv, CallsOK, CallOK
    <3> QED
      BY <3>1, <3>2, <3>3 DEF CallHolds
  <2> QED
    BY <2>1, <2>2
<1>3. OneOwner(own)'
  BY DEF OneOwner
<1> QED
  BY <1>1, <1>2, <1>3 DEF HoldersOK, Known

(* A buffer has a block that nobody held, and the call the one it had. *)
LEMMA OwnGiven ==
    ASSUME HoldersOK, NEW t \in Threads, NEW b \in Bufs, NEW blk, ~replaced(t),
           block'[b] = blk, \A d \in Bufs : d # b => block'[d] = block[d],
           \A u \in Threads : u # t => call'[u] = call[u],
           Pooled(Replaced(t)') = Pooled({block[b]}), UNCHANGED queues,
           Pooled({blk}) \cap AllOf(own) = {}
    PROVE  OneOwner(own') /\ AllOf(own') = AllOf(own) \cup Pooled({blk})
<1>1. PICK M, N : M = own /\ N = own'
  OBVIOUS
<1>2. PICK B, W : B = <<"buffer", b>> /\ W = <<"call", t>>
  OBVIOUS
<1>3. B \in Owners /\ W \in Owners /\ B # W
  BY <1>2, OwnerKinds
<1>4. M[W] = {} /\ N[B] = Pooled({blk}) /\ N[W] = M[B]
  BY <1>1, <1>2, OwnNow, OwnNext DEF Replaced, Pooled
<1>5. ASSUME NEW o \in Owners, o # B, o # W PROVE N[o] = M[o]
  <2>1. ASSUME NEW d \in Bufs, o = <<"buffer", d>> PROVE N[o] = M[o]
    <3>1. d # b
      BY <1>2, <1>5, <2>1
    <3>2. N[o] = Pooled({block'[d]}) /\ M[o] = Pooled({block[d]})
      BY <1>1, <2>1, OwnNow, OwnNext
    <3>3. block'[d] = block[d]
      BY <3>1
    <3> QED
      BY <3>2, <3>3
  <2>2. ASSUME NEW u \in Threads, o = <<"call", u>> PROVE N[o] = M[o]
    <3>1. u # t
      BY <1>2, <1>5, <2>2
    <3>2. Replaced(u)' = Replaced(u)
      BY <3>1 DEF Replaced, replaced
    <3> QED
      BY <1>1, <2>2, <3>2, OwnNow, OwnNext
  <2>3. ASSUME NEW u \in Threads, NEW i \in Classes, o = <<"cache", <<u, i>>>> PROVE N[o] = M[o]
    BY <1>1, <2>3, OwnNow, OwnNext
  <2> QED
    BY <2>1, <2>2, <2>3, OwnerKinds
<1>6. OneOwner(M)
  BY <1>1 DEF HoldersOK
<1>7. PICK X : X = Pooled({blk})
  OBVIOUS
<1>8. X \cap AllOf(M) = {} /\ N[B] = X
  BY <1>1, <1>4, <1>7
<1>9. OneOwner(N) /\ AllOf(N) = AllOf(M) \cup X
  BY <1>3, <1>4, <1>5, <1>6, <1>8, GiveNew
<1> QED
  BY <1>1, <1>7, <1>9

(* A buffer has the block of a cache, and the call the one it had. *)
LEMMA OwnHit ==
    ASSUME HoldersOK, NEW t \in Threads, NEW b \in Bufs, NEW blk, ~replaced(t),
           block'[b] = blk, \A d \in Bufs : d # b => block'[d] = block[d],
           \A u \in Threads : u # t => call'[u] = call[u],
           Pooled(Replaced(t)') = Pooled({block[b]}),
           NEW v \in Threads, NEW k \in Classes, blk \in ToSet(queues[v][k]), blk.chunk \in Chunks,
           ToSet(queues'[v][k]) = ToSet(queues[v][k]) \ {blk},
           \A u \in Threads, i \in Classes : u # v \/ i # k => queues'[u][i] = queues[u][i]
    PROVE  OneOwner(own') /\ AllOf(own') = AllOf(own)
<1>1. PICK M, N : M = own /\ N = own'
  OBVIOUS
<1>2. PICK B, W, C : B = <<"buffer", b>> /\ W = <<"call", t>> /\ C = <<"cache", <<v, k>>>>
  OBVIOUS
<1>3. B \in Owners /\ W \in Owners /\ C \in Owners /\ B # W /\ B # C /\ W # C
  BY <1>2, OwnerKinds
<1>4. M[W] = {} /\ N[B] = {blk} /\ N[W] = M[B]
  BY <1>1, <1>2, OwnNow, OwnNext DEF Replaced, Pooled
<1>5. blk \in M[C] /\ N[C] = M[C] \ {blk}
  BY <1>1, <1>2, OwnNow, OwnNext DEF Pooled
<1>6. ASSUME NEW o \in Owners, o # B, o # W, o # C PROVE N[o] = M[o]
  <2>1. ASSUME NEW d \in Bufs, o = <<"buffer", d>> PROVE N[o] = M[o]
    <3>1. d # b
      BY <1>2, <1>6, <2>1
    <3>2. N[o] = Pooled({block'[d]}) /\ M[o] = Pooled({block[d]})
      BY <1>1, <2>1, OwnNow, OwnNext
    <3>3. block'[d] = block[d]
      BY <3>1
    <3> QED
      BY <3>2, <3>3
  <2>2. ASSUME NEW u \in Threads, o = <<"call", u>> PROVE N[o] = M[o]
    <3>1. u # t
      BY <1>2, <1>6, <2>2
    <3>2. Replaced(u)' = Replaced(u)
      BY <3>1 DEF Replaced, replaced
    <3> QED
      BY <1>1, <2>2, <3>2, OwnNow, OwnNext
  <2>3. ASSUME NEW u \in Threads, NEW i \in Classes, o = <<"cache", <<u, i>>>> PROVE N[o] = M[o]
    <3>1. u # v \/ i # k
      BY <1>2, <1>6, <2>3
    <3> QED
      BY <1>1, <2>3, <3>1, OwnNow, OwnNext
  <2> QED
    BY <2>1, <2>2, <2>3, OwnerKinds
<1>7. OneOwner(M)
  BY <1>1 DEF HoldersOK
<1>8. OneOwner(N) /\ AllOf(N) = AllOf(M)
  BY <1>3, <1>4, <1>5, <1>6, <1>7, GiveCached
<1> QED
  BY <1>1, <1>8

(* The block of a buffer or a call goes to a cache. *)
LEMMA OwnCached ==
    ASSUME HoldersOK, NEW B \in Owners, NEW blk, blk.chunk \in Chunks, own[B] = {blk}, own'[B] = {},
           \A d \in Bufs : B # <<"buffer", d>> => block'[d] = block[d],
           \A u \in Threads : B # <<"call", u>> => call'[u] = call[u],
           NEW v \in Threads, NEW k \in Classes, B # <<"cache", <<v, k>>>>,
           ToSet(queues'[v][k]) = ToSet(queues[v][k]) \cup {blk},
           \A u \in Threads, i \in Classes : u # v \/ i # k => queues'[u][i] = queues[u][i]
    PROVE  OneOwner(own') /\ AllOf(own') = AllOf(own)
<1>1. PICK M, N : M = own /\ N = own'
  OBVIOUS
<1>2. PICK C : C = <<"cache", <<v, k>>>>
  OBVIOUS
<1>3. C \in Owners /\ B # C
  BY <1>2, OwnerKinds
<1>4. N[B] = {} /\ N[C] = M[C] \cup M[B]
  BY <1>1, <1>2, OwnNow, OwnNext DEF Pooled
<1>5. ASSUME NEW o \in Owners, o # B, o # C PROVE N[o] = M[o]
  <2>1. ASSUME NEW d \in Bufs, o = <<"buffer", d>> PROVE N[o] = M[o]
    <3>2. N[o] = Pooled({block'[d]}) /\ M[o] = Pooled({block[d]})
      BY <1>1, <2>1, OwnNow, OwnNext
    <3>3. block'[d] = block[d]
      BY <1>5, <2>1
    <3> QED
      BY <3>2, <3>3
  <2>2. ASSUME NEW u \in Threads, o = <<"call", u>> PROVE N[o] = M[o]
    <3>1. Replaced(u)' = Replaced(u)
      BY <1>5, <2>2 DEF Replaced, replaced
    <3> QED
      BY <1>1, <2>2, <3>1, OwnNow, OwnNext
  <2>3. ASSUME NEW u \in Threads, NEW i \in Classes, o = <<"cache", <<u, i>>>> PROVE N[o] = M[o]
    <3>1. u # v \/ i # k
      BY <1>2, <1>5, <2>3
    <3> QED
      BY <1>1, <2>3, <3>1, OwnNow, OwnNext
  <2> QED
    BY <2>1, <2>2, <2>3, OwnerKinds
<1>6. OneOwner(M)
  BY <1>1 DEF HoldersOK
<1>7. OneOwner(N) /\ AllOf(N) = AllOf(M)
  BY <1>3, <1>4, <1>5, <1>6, MoveAll
<1> QED
  BY <1>1, <1>7

(* One block is given back, by a buffer, a call or a cache. *)
LEMMA OwnDropped ==
    ASSUME HoldersOK, NEW B \in Owners, NEW blk, blk \in own[B], own'[B] = own[B] \ {blk},
           \A d \in Bufs : B # <<"buffer", d>> => block'[d] = block[d],
           \A u \in Threads : B # <<"call", u>> => Replaced(u)' = Replaced(u),
           \A u \in Threads, i \in Classes : B # <<"cache", <<u, i>>>>
               => queues'[u][i] = queues[u][i]
    PROVE  OneOwner(own') /\ blk \in AllOf(own) /\ AllOf(own') = AllOf(own) \ {blk}
<1>1. PICK M, N : M = own /\ N = own'
  OBVIOUS
<1>2. blk \in M[B] /\ N[B] = M[B] \ {blk}
  BY <1>1
<1>3. ASSUME NEW o \in Owners, o # B PROVE N[o] = M[o]
  <2>1. ASSUME NEW d \in Bufs, o = <<"buffer", d>> PROVE N[o] = M[o]
    <3>2. N[o] = Pooled({block'[d]}) /\ M[o] = Pooled({block[d]})
      BY <1>1, <2>1, OwnNow, OwnNext
    <3>3. block'[d] = block[d]
      BY <1>3, <2>1
    <3> QED
      BY <3>2, <3>3
  <2>2. ASSUME NEW u \in Threads, o = <<"call", u>> PROVE N[o] = M[o]
    BY <1>1, <1>3, <2>2, OwnNow, OwnNext
  <2>3. ASSUME NEW u \in Threads, NEW i \in Classes, o = <<"cache", <<u, i>>>> PROVE N[o] = M[o]
    BY <1>1, <1>3, <2>3, OwnNow, OwnNext
  <2> QED
    BY <2>1, <2>2, <2>3, OwnerKinds
<1>4. OneOwner(M)
  BY <1>1 DEF HoldersOK
<1>5. OneOwner(N) /\ blk \in AllOf(M) /\ AllOf(N) = AllOf(M) \ {blk}
  BY <1>2, <1>3, <1>4, DropOne
<1> QED
  BY <1>1, <1>5

(* No pooled block changes its holder. *)
LEMMA OwnSame ==
    ASSUME \A d \in Bufs : Pooled({block'[d]}) = Pooled({block[d]}),
           \A u \in Threads : Pooled(Replaced(u)') = Pooled(Replaced(u)),
           \A u \in Threads, i \in Classes : queues'[u][i] = queues[u][i]
    PROVE  own' = own
<1>1. PICK M, N : M = own /\ N = own'
  OBVIOUS
<1>2. ASSUME NEW o \in Owners PROVE N[o] = M[o]
  <2>1. ASSUME NEW d \in Bufs, o = <<"buffer", d>> PROVE N[o] = M[o]
    BY <1>1, <2>1, OwnNow, OwnNext
  <2>2. ASSUME NEW u \in Threads, o = <<"call", u>> PROVE N[o] = M[o]
    BY <1>1, <2>2, OwnNow, OwnNext
  <2>3. ASSUME NEW u \in Threads, NEW i \in Classes, o = <<"cache", <<u, i>>>> PROVE N[o] = M[o]
    BY <1>1, <2>3, OwnNow, OwnNext
  <2> QED
    BY <2>1, <2>2, <2>3, OwnerKinds
<1>3. M = [o \in Owners |-> M[o]] /\ N = [o \in Owners |-> N[o]]
  BY <1>1 DEF own
<1>4. M = N
  BY <1>2, <1>3
<1> QED
  BY <1>1, <1>4

(* The blocks of a cache from which the oldest leaves. *)
LEMMA TailHolds ==
    ASSUME NEW q, NEW i, QueueOf(q, i), q # <<>>, Apart(q), NEW r, r = Tail(q)
    PROVE  /\ Head(q) \in ToSet(q) /\ Head(q).chunk \in Chunks
           /\ ToSet(r) = ToSet(q) \ {Head(q)}
           /\ Apart(r)
<1> DEFINE S == ToSet(q)
           n == Len(q)
<1>1. q \in Seq(S) /\ n \in Nat
  BY DEF QueueOf
<1> HIDE DEF S
<1>2. /\ r \in Seq(S) /\ Len(r) = n - 1 /\ n > 0 /\ DOMAIN r = 1..(n - 1) /\ DOMAIN q = 1..n
      /\ \A k \in 1..(n - 1) : r[k] = q[k + 1]
      /\ Head(q) = q[1] /\ 1 \in 1..n
  BY <1>1
<1> HIDE DEF n
<1>3. \A k \in 1..(n - 1) : k + 1 \in 1..n /\ k + 1 # 1
  BY <1>1
<1>4. \A k \in 1..n : k = 1 \/ (k - 1 \in 1..(n - 1) /\ (k - 1) + 1 = k)
  BY <1>1
<1>5. ToSet(q) = {q[k] : k \in 1..n} /\ ToSet(r) = {r[k] : k \in 1..(n - 1)}
  BY <1>2 DEF ToSet
<1>6. \A m, k \in 1..n : q[m] = q[k] => m = k
  BY DEF Apart, n
<1>7. ASSUME NEW x \in ToSet(r) PROVE x \in ToSet(q) /\ x # Head(q)
  BY <1>2, <1>3, <1>5, <1>6
<1>8. ASSUME NEW x \in ToSet(q), x # Head(q) PROVE x \in ToSet(r)
  <2>1. PICK k \in 1..n : x = q[k]
    BY <1>5
  <2>2. k # 1
    BY <1>2, <1>8, <2>1
  <2>3. k - 1 \in 1..(n - 1) /\ x = r[k - 1]
    BY <1>2, <1>4, <2>1, <2>2
  <2> QED
    BY <1>5, <2>3
<1>9. \A k \in 1..Len(r) : r[k].chunk \in Chunks
  BY <1>2, <1>3 DEF Apart, n
<1>10. \A m, k \in 1..Len(r) : r[m] = r[k] => m = k
  <2> SUFFICES ASSUME NEW m \in 1..(n - 1), NEW k \in 1..(n - 1), r[m] = r[k] PROVE m = k
    BY <1>2
  <2>1. m + 1 = k + 1
    BY <1>2, <1>3, <1>6
  <2> QED
    BY <2>1
<1>11. Head(q) \in ToSet(q) /\ Head(q).chunk \in Chunks
  BY <1>2, <1>5 DEF Apart, n
<1> QED
  BY <1>7, <1>8, <1>9, <1>10, <1>11 DEF Apart

(* And those of one to which a block is added. *)
LEMMA AppendHolds ==
    ASSUME NEW q, NEW i, QueueOf(q, i), NEW x, x \notin ToSet(q), x.chunk \in Chunks,
           Apart(q), NEW r, r = Append(q, x)
    PROVE  ToSet(r) = ToSet(q) \cup {x} /\ Apart(r)
<1> DEFINE S == ToSet(q) \cup {x}
           n == Len(q)
<1>1. q \in Seq(S) /\ x \in S /\ n \in Nat
  BY DEF QueueOf
<1> HIDE DEF S
<1>2. /\ Len(r) = n + 1 /\ DOMAIN r = 1..(n + 1) /\ DOMAIN q = 1..n
      /\ (\A k \in 1..n : r[k] = q[k]) /\ r[n + 1] = x
  BY <1>1
<1> HIDE DEF n
<1>3. \A k \in 1..(n + 1) : k \in 1..n \/ k = n + 1
  BY <1>1
<1>4. n + 1 \in 1..(n + 1) /\ \A k \in 1..n : k \in 1..(n + 1)
  BY <1>1
<1>5. ToSet(q) = {q[k] : k \in 1..n} /\ ToSet(r) = {r[k] : k \in 1..(n + 1)}
  BY <1>2 DEF ToSet
<1>6. ToSet(r) = ToSet(q) \cup {x}
  BY <1>2, <1>3, <1>4, <1>5
<1>7. \A k \in 1..Len(r) : r[k].chunk \in Chunks
  BY <1>2, <1>3 DEF Apart, n
<1>8. \A k \in 1..n : q[k] # x
  BY <1>5
<1>9. \A m, k \in 1..Len(r) : r[m] = r[k] => m = k
  BY <1>2, <1>3, <1>8 DEF Apart, n
<1> QED
  BY <1>6, <1>7, <1>9 DEF Apart

(* What is replaced once a buffer has its memory. *)
LEMMA ServedHolds ==
    ASSUME NEW t \in Threads, NEW c, DOMAIN c = CallFields, call'[t] = Served(c), Known(c.old)
    PROVE  Pooled(Replaced(t)') = Pooled({c.old}) /\ CallHolds(t)'
<1>1. NoBlock.chunk \notin Chunks
  BY ChunksAssumption DEF NoBlock
<1>2. CASE c.old = NoBlock
  <2>1. call'[t] = Quiet /\ call'[t].pc = "idle"
    BY <1>2 DEF Served, Quiet
  <2> QED
    BY <1>1, <1>2, <2>1 DEF Replaced, replaced, Pooled, CallHolds
<1>3. CASE c.old # NoBlock
  <2>1. call'[t] = [c EXCEPT !.pc = "free"]
    BY <1>3 DEF Served
  <2>2. call'[t].pc = "free" /\ call'[t].old = c.old
    BY <2>1 DEF CallFields
  <2> QED
    BY <2>2 DEF Replaced, replaced, CallHolds, Known
<1> QED
  BY <1>2, <1>3

(* The call after the cache. *)
LEMMA AfterCacheHolds ==
    ASSUME NEW t \in Threads, NEW c, DOMAIN c = CallFields, NEW hit, call'[t] = AfterCache(c, hit),
           Known(c.old),
           ~hit => c.old = block'[c.buf]
    PROVE  Pooled(Replaced(t)') = Pooled(IF hit THEN {c.old} ELSE {}) /\ CallHolds(t)'
<1>1. CASE hit
  BY <1>1, ServedHolds DEF AfterCache
<1>2. CASE ~hit
  <2>0. PICK pc, todo : /\ pc = IF size2sizeIdx(c.size) <= m_smallMaxSizeIdx THEN "pool" ELSE "arena"
                        /\ todo = [i \in Classes |-> 0]
    OBVIOUS
  <2>1. pc \in {"pool", "arena"} /\ call'[t] = [c EXCEPT !.pc = pc, !.todo = todo]
    BY <1>2, <2>0 DEF AfterCache
  <2>2. call'[t].pc = pc /\ call'[t].old = c.old /\ call'[t].buf = c.buf
    BY <2>1 DEF CallFields
  <2>3. ~replaced(t)' /\ Replaced(t)' = {}
    BY <2>1, <2>2 DEF Replaced, replaced
  <2> QED
    BY <1>2, <2>2, <2>3 DEF CallHolds
<1> QED
  BY <1>1, <1>2

(* A call that finds a block in a pool or a chunk. *)
LEMMA CallGivenOwn ==
    ASSUME IndexInv, HoldersOK, NEW t \in Threads, NEW c, c = call[t], Pending(c),
           NEW blk, Given(t, c, blk, c.size), call' = [call EXCEPT ![t] = Served(c)],
           UNCHANGED queues,
           blk.chunk \in Chunks, blk \notin AllOf(own)
    PROVE  HoldersOK' /\ AllOf(own') = AllOf(own) \cup {blk}
<1>1. c.pc # "idle" /\ ~replaced(t)
  BY DEF Pending, replaced
<1>2. c # Quiet /\ DOMAIN c = CallFields /\ c.buf \in Bufs
  BY <1>1, TheCall
<1>3. PICK b : b = c.buf
  OBVIOUS
<1>4. DOMAIN call = Threads /\ DOMAIN block = Bufs /\ DOMAIN m_cache = Bufs
  BY DEF IndexInv, CallsOK, BufsOK, HoldersOK
<1>5. /\ \A u \in Threads : u # t => call'[u] = call[u]
      /\ call'[t] = Served(c)
      /\ \A u \in Threads : u # t /\ call[u] # Quiet => call[u].buf # b
  BY <1>2, <1>3, <1>4 DEF IndexInv, CallsOK
<1>6. /\ b \in Bufs /\ block'[b] = blk /\ \A d \in Bufs : d # b => block'[d] = block[d]
      /\ DOMAIN m_cache' = Bufs /\ m_cache'[b] \in Threads \cup {None}
      /\ \A d \in Bufs : d # b => m_cache'[d] = m_cache[d]
  BY <1>2, <1>3, <1>4 DEF Given
<1>7. Known(c.old) /\ c.old = block[b]
  BY <1>1, <1>2, <1>3 DEF HoldersOK, CallHolds
<1>8. Pooled(Replaced(t)') = Pooled({block[b]}) /\ CallHolds(t)'
  BY <1>2, <1>5, <1>7, ServedHolds
<1>9. Pooled({blk}) = {blk} /\ Known(blk)
  BY DEF Pooled, Known
<1>10. OneOwner(own') /\ AllOf(own') = AllOf(own) \cup Pooled({blk})
  BY <1>1, <1>5, <1>6, <1>8, <1>9, OwnGiven
<1>11. \A u \in Threads, i \in Classes : CacheHolds(u, i)'
  BY DEF HoldersOK, CacheHolds
<1>12. HoldersOK'
  BY <1>5, <1>6, <1>8, <1>9, <1>10, <1>11, HoldersStep
<1> QED
  BY <1>9, <1>10, <1>12

(* allocate(), until it takes a lock: the buffer has the block of a cache, *)
(* one of its own, or none yet.                                            *)
LEMMA AllocateOwn ==
    ASSUME IndexInv, HoldersOK, NEW t \in Threads, NEW b \in Bufs, Begins(t, b),
           NEW size \in AskedSizes, NEW n, NEW c, c = Allocating(b, size, block[b], n),
           Allocate(t, c)
    PROVE  HoldersOK' /\ AllOf(own') = AllOf(own)
<1> DEFINE i == size2sizeIdx(size)
<1>1. /\ DOMAIN call = Threads /\ DOMAIN block = Bufs /\ DOMAIN m_cache = Bufs
      /\ DOMAIN queues = Threads
      /\ \A u \in Threads : DOMAIN queues[u] = Classes
          /\ \A k \in Classes : QueueOf(queues[u][k], k)
  BY DEF IndexInv, CallsOK, BufsOK, HoldersOK, QueuesOK
<1>2. DOMAIN c = CallFields /\ c.buf = b /\ c.size = size /\ c.old = block[b]
  BY NewCall
<1>3. Known(block[b]) /\ call[t] = Quiet /\ ~replaced(t) /\ Replaced(t) = {}
  BY DEF HoldersOK, Begins, Quiet, replaced, Replaced
<1>4. \A u \in Threads : u # t /\ call[u] # Quiet => call[u].buf # b
  BY DEF Begins
<1>5. \A u \in Threads, k \in Classes : CacheHolds(u, k)
  BY DEF HoldersOK
<1>6. CASE i = m_nSizes
  <2>1. PICK blk : blk = [chunk |-> Huge, handle |-> Handle(RunAt(0, 0), -1), tmp |-> 0, norm |-> normalizeSize(size)]
    OBVIOUS
  <2>2. /\ Given(t, c, blk, normalizeSize(size))
        /\ call' = [call EXCEPT ![t] = Served(c)] /\ UNCHANGED queues
    BY <1>2, <1>6, <2>1 DEF Allocate, AllocateHuge
  <2>3. blk.chunk = Huge /\ Huge \notin Chunks
    BY <2>1, ChunksAssumption DEF Huge
  <2>4. /\ \A u \in Threads : u # t => call'[u] = call[u]
        /\ call'[t] = Served(c)
    BY <1>1, <2>2
  <2>5. /\ block'[b] = blk /\ \A d \in Bufs : d # b => block'[d] = block[d]
        /\ DOMAIN m_cache' = Bufs /\ m_cache'[b] \in Threads \cup {None}
        /\ \A d \in Bufs : d # b => m_cache'[d] = m_cache[d]
    BY <1>1, <1>2, <2>2 DEF Given
  <2>6. Pooled(Replaced(t)') = Pooled({block[b]}) /\ CallHolds(t)'
    BY <1>2, <1>3, <2>4, ServedHolds
  <2>7. Pooled({blk}) = {} /\ Known(blk)
    BY <2>3 DEF Pooled, Known
  <2>8. Pooled({blk}) \cap AllOf(own) = {}
    BY <2>7
  <2>9. OneOwner(own') /\ AllOf(own') = AllOf(own) \cup Pooled({blk})
    BY <1>3, <2>2, <2>4, <2>5, <2>6, <2>8, OwnGiven
  <2>10. \A u \in Threads, k \in Classes : CacheHolds(u, k)'
    BY <1>5, <2>2 DEF CacheHolds
  <2>11. HoldersOK'
    BY <1>4, <2>4, <2>5, <2>6, <2>7, <2>9, <2>10, HoldersStep
  <2> QED
    BY <2>7, <2>9, <2>11
<1>7. CASE i # m_nSizes
  <2> DEFINE q == queues[t][i]
             hit == cacheable(i) /\ q # <<>>
             trims == cacheable(i) /\ trimDue(t)
             hits1 == IF hit THEN [hits[t] EXCEPT ![i] = @ + 1] ELSE hits[t]
             todo == [k \in Classes |-> Max({0, CacheSize - hits1[k]})]
             next == IF trims THEN [c EXCEPT !.pc = "trim", !.hit = hit, !.todo = todo] ELSE AfterCache(c, hit)
  <2>1. i \in Classes
    BY <1>7, SizesOK
  <2>2. CacheAllocate(t, c)
    BY <1>2, <1>7 DEF Allocate
  <2>3. /\ queues' = IF hit THEN [queues EXCEPT ![t][i] = Tail(@)] ELSE queues
        /\ IF hit THEN Given(t, c, Head(q), size) ELSE UNCHANGED bufVars
        /\ call' = [call EXCEPT ![t] = next]
    BY <1>2, <2>2 DEF CacheAllocate
  <2> HIDE DEF todo, i
  <2>4. PICK d : d = next
    OBVIOUS
  <2>5. (\A u \in Threads : u # t => call'[u] = call[u]) /\ call'[t] = d
    BY <1>1, <2>3, <2>4
  <2>6. CASE hit
    <3> DEFINE blk == Head(q)
    <3>1. PICK r : r = Tail(q)
      OBVIOUS
    <3>2. /\ queues'[t][i] = r
          /\ \A u \in Threads, k \in Classes : u # t \/ k # i => queues'[u][k] = queues[u][k]
      BY <1>1, <2>1, <2>3, <2>6, <3>1
    <3>3. QueueOf(q, i) /\ q # <<>> /\ Apart(q)
      BY <1>1, <1>5, <2>1, <2>6 DEF CacheHolds
    <3>4. blk \in ToSet(q) /\ blk.chunk \in Chunks /\ ToSet(r) = ToSet(q) \ {blk} /\ Apart(r)
      BY <3>1, <3>3, TailHolds
    <3>5. Given(t, c, blk, size)
      BY <2>3, <2>6
    <3> HIDE DEF blk
    <3>6. /\ block'[b] = blk /\ \A e \in Bufs : e # b => block'[e] = block[e]
          /\ DOMAIN m_cache' = Bufs /\ m_cache'[b] \in Threads \cup {None}
          /\ \A e \in Bufs : e # b => m_cache'[e] = m_cache[e]
      BY <1>1, <1>2, <3>5 DEF Given
    <3>7. Pooled(Replaced(t)') = Pooled({block[b]}) /\ CallHolds(t)'
      <4>1. CASE trims
        <5>1. PICK h : h = TRUE
          OBVIOUS
        <5>2. d = [c EXCEPT !.pc = "trim", !.hit = h, !.todo = todo]
          BY <2>4, <2>6, <4>1, <5>1
        <5>3. d.pc = "trim" /\ d.hit = h /\ d.old = c.old /\ d.buf = c.buf
          BY <1>2, <5>2 DEF CallFields
        <5>4. replaced(t)' /\ Replaced(t)' = {c.old}
          BY <2>5, <5>1, <5>3 DEF replaced, Replaced
        <5> QED
          BY <1>2, <1>3, <2>5, <5>3, <5>4 DEF CallHolds, Known
      <4>2. CASE ~trims
        <5>1. d = Served(c)
          BY <2>4, <2>6, <4>2 DEF AfterCache
        <5> QED
          BY <1>2, <1>3, <2>5, <5>1, ServedHolds
      <4> QED
        BY <4>1, <4>2
    <3>8. OneOwner(own') /\ AllOf(own') = AllOf(own)
      BY <1>3, <2>1, <2>5, <3>2, <3>4, <3>6, <3>7, OwnHit
    <3>9. ASSUME NEW u \in Threads, NEW k \in Classes PROVE CacheHolds(u, k)'
      <4>1. CASE u = t /\ k = i
        BY <3>2, <3>4, <4>1 DEF CacheHolds
      <4>2. CASE u # t \/ k # i
        <5>1. queues'[u][k] = queues[u][k] /\ CacheHolds(u, k)
          BY <1>5, <3>2, <4>2
        <5> QED
          BY <5>1 DEF CacheHolds
      <4> QED
        BY <4>1, <4>2
    <3>10. Known(blk)
      BY <3>4 DEF Known
    <3>11. HoldersOK'
      BY <1>4, <2>5, <3>6, <3>7, <3>8, <3>9, <3>10, HoldersStep
    <3> QED
      BY <3>8, <3>11
  <2>7. CASE ~hit
    <3>1. UNCHANGED <<queues, block, m_cache>>
      BY <2>3, <2>7 DEF bufVars
    <3>2. Pooled(Replaced(t)') = {} /\ CallHolds(t)'
      <4>1. CASE trims
        <5>1. PICK h : h = FALSE
          OBVIOUS
        <5>2. d = [c EXCEPT !.pc = "trim", !.hit = h, !.todo = todo]
          BY <2>4, <2>7, <4>1, <5>1
        <5>3. d.pc = "trim" /\ d.hit = h /\ d.old = c.old /\ d.buf = c.buf
          BY <1>2, <5>2 DEF CallFields
        <5>4. ~replaced(t)' /\ Replaced(t)' = {}
          BY <2>5, <5>1, <5>3 DEF replaced, Replaced
        <5> QED
          BY <1>2, <1>3, <2>5, <3>1, <5>3, <5>4 DEF CallHolds, Known, Pooled
      <4>2. CASE ~trims
        <5>1. PICK h : h = FALSE
          OBVIOUS
        <5>2. d = AfterCache(c, h)
          BY <2>4, <2>7, <4>2, <5>1 DEF AfterCache
        <5>3. Known(c.old) /\ c.old = block'[c.buf]
          BY <1>2, <1>3, <3>1
        <5>4. Pooled(Replaced(t)') = Pooled(IF h THEN {c.old} ELSE {}) /\ CallHolds(t)'
          BY <1>2, <2>5, <5>2, <5>3, AfterCacheHolds
        <5> QED
          BY <5>1, <5>4 DEF Pooled
      <4> QED
        BY <4>1, <4>2
    <3>3. \A u \in Threads : Pooled(Replaced(u)') = Pooled(Replaced(u))
      <4>1. Pooled(Replaced(t)') = Pooled(Replaced(t))
        BY <1>3, <3>2 DEF Pooled
      <4>2. ASSUME NEW u \in Threads, u # t PROVE Replaced(u)' = Replaced(u)
        BY <2>5, <4>2 DEF Replaced, replaced
      <4> QED
        BY <4>1, <4>2
    <3>4. own' = own
      <4>1. \A e \in Bufs : Pooled({block'[e]}) = Pooled({block[e]})
        BY <3>1
      <4>2. \A u \in Threads, k \in Classes : queues'[u][k] = queues[u][k]
        BY <3>1
      <4> QED
        BY <3>3, <4>1, <4>2, OwnSame
    <3>5. \A u \in Threads, k \in Classes : CacheHolds(u, k)'
      BY <1>5, <3>1 DEF CacheHolds
    <3>6. OneOwner(own')
      BY <3>4 DEF HoldersOK
    <3>7. /\ Known(block'[b]) /\ \A e \in Bufs : e # b => block'[e] = block[e]
          /\ DOMAIN m_cache' = Bufs /\ m_cache'[b] \in Threads \cup {None}
          /\ \A e \in Bufs : e # b => m_cache'[e] = m_cache[e]
      BY <1>3, <3>1 DEF HoldersOK
    <3>8. HoldersOK'
      BY <1>4, <2>5, <3>2, <3>5, <3>6, <3>7, HoldersStep
    <3> QED
      BY <3>4, <3>8
  <2> QED
    BY <2>6, <2>7
<1> QED
  BY <1>6, <1>7

-----------------------------------------------------------------------------
(* A call that goes on with nothing new. *)
LEMMA CallGoesOnOwn ==
    ASSUME IndexInv, HoldersOK, NEW t \in Threads, NEW c, c = call[t], c # Quiet,
           NEW d, DOMAIN call' = Threads, call'[t] = d, \A u \in Threads : u # t
               => call'[u] = call[u],
           UNCHANGED <<block, m_cache, queues>>,
           d # Quiet, d.old = c.old, d.buf = c.buf, Replaced(t)' = Replaced(t),
           replaced(t)' <=> replaced(t)
    PROVE  HoldersOK' /\ own' = own
<1>1. \A u \in Threads : Replaced(u)' = Replaced(u)
  BY DEF Replaced, replaced
<1>2. own' = own
  <2>1. \A e \in Bufs : Pooled({block'[e]}) = Pooled({block[e]})
    OBVIOUS
  <2>2. \A u \in Threads, k \in Classes : queues'[u][k] = queues[u][k]
    OBVIOUS
  <2>3. \A u \in Threads : Pooled(Replaced(u)') = Pooled(Replaced(u))
    BY <1>1
  <2> QED
    BY <2>1, <2>2, <2>3, OwnSame
<1>3. OneOwner(own') /\ \A u \in Threads, k \in Classes : CacheHolds(u, k)'
  BY <1>2 DEF HoldersOK, CacheHolds
<1>4. PICK b : b = c.buf
  OBVIOUS
<1>5. b \in Bufs /\ \A u \in Threads : u # t /\ call[u] # Quiet => call[u].buf # b
  BY <1>4 DEF IndexInv, CallsOK, CallOK
<1>6. CallHolds(t)'
  <2>1. CallHolds(t)
    BY DEF HoldersOK
  <2> QED
    BY <2>1 DEF CallHolds, Known
<1>7. /\ Known(block'[b]) /\ \A e \in Bufs : e # b => block'[e] = block[e]
      /\ DOMAIN m_cache' = Bufs /\ m_cache'[b] \in Threads \cup {None}
      /\ \A e \in Bufs : e # b => m_cache'[e] = m_cache[e]
  BY <1>5 DEF HoldersOK
<1>8. HoldersOK'
  BY <1>3, <1>5, <1>6, <1>7, HoldersStep
<1> QED
  BY <1>2, <1>8

(* A block goes back to the arena, or nothing does. *)
GivesBack(H, K) ==
    \/ K = H /\ UNCHANGED <<arenaVars, failed>>
    \/ \E x \in H : FreeChunk(x) /\ K = H \ {x}

(* free(): the block of a buffer or a call goes to a cache, to the arena   *)
(* or to the system.                                                       *)
LEMMA FreeBlockOwn ==
    ASSUME IndexInv, HoldersOK, NEW B \in Owners, \A u \in Threads,
           k \in Classes : B # <<"cache", <<u, k>>>>,
           NEW blk, Known(blk), blk # NoBlock, Sized(blk), own[B] = Pooled({blk}), own'[B] = {},
           \A d \in Bufs : B # <<"buffer", d>> => block'[d] = block[d],
           \A u \in Threads : B # <<"call", u>> => call'[u] = call[u],
           NEW cache \in Threads \cup {None}, FreeBlock(blk, cache)
    PROVE  /\ OneOwner(own') /\ \A u \in Threads, k \in Classes : CacheHolds(u, k)'
           /\ GivesBack(AllOf(own), AllOf(own'))
<1> DEFINE i == size2sizeIdx(blk.norm)
<1>1. \A u \in Threads, k \in Classes : CacheHolds(u, k)
  BY DEF HoldersOK
<1>2. Huge \notin Chunks
  BY ChunksAssumption DEF Huge
<1>3. \A u \in Threads : B # <<"call", u>> => Replaced(u)' = Replaced(u)
  BY DEF Replaced, replaced
<1>4. CASE blk.chunk = Huge
  <2>1. UNCHANGED <<arenaVars, queues, failed>>
    BY <1>4 DEF FreeBlock, cacheVars
  <2>2. own[B] = {}
    BY <1>2, <1>4 DEF Pooled
  <2>3. own' = own
    <3>1. ASSUME NEW d \in Bufs PROVE Pooled({block'[d]}) = Pooled({block[d]})
      <4>1. CASE B = <<"buffer", d>>
        BY <2>2, <4>1, OwnNow, OwnNext
      <4>2. CASE B # <<"buffer", d>>
        <5>1. block'[d] = block[d]
          BY <4>2
        <5> QED
          BY <5>1
      <4> QED
        BY <4>1, <4>2
    <3>2. ASSUME NEW u \in Threads PROVE Pooled(Replaced(u)') = Pooled(Replaced(u))
      <4>1. CASE B = <<"call", u>>
        BY <2>2, <4>1, OwnNow, OwnNext
      <4>2. CASE B # <<"call", u>>
        BY <1>3, <4>2
      <4> QED
        BY <4>1, <4>2
    <3>3. \A u \in Threads, k \in Classes : queues'[u][k] = queues[u][k]
      BY <2>1
    <3> QED
      BY <3>1, <3>2, <3>3, OwnSame
  <2>4. OneOwner(own') /\ AllOf(own') = AllOf(own)
    BY <2>3 DEF HoldersOK
  <2>5. \A u \in Threads, k \in Classes : CacheHolds(u, k)'
    BY <1>1, <2>1 DEF CacheHolds
  <2> QED
    BY <2>1, <2>4, <2>5 DEF GivesBack
<1>5. CASE blk.chunk # Huge
  <2>1. blk.chunk \in Chunks /\ own[B] = {blk}
    BY <1>5 DEF Known, Pooled
  <2>2. OfClass(blk, i) /\ i \in Classes
    BY <1>5, SizesOK DEF Sized, OfClass
  <2> HIDE DEF i
  <2>3. CASE cache # None /\ cacheable(i)
    <3>1. queues' = Cached(cache, i, blk) /\ UNCHANGED <<arenaVars, failed>> /\ cache \in Threads
      BY <1>5, <2>3 DEF FreeBlock, i
    <3>2. PICK q, r : q = queues[cache][i] /\ r = Append(q, blk)
      OBVIOUS
    <3>3. QueueOf(q, i) /\ Apart(q)
      BY <1>1, <2>2, <3>1, <3>2 DEF IndexInv, QueuesOK, CacheHolds
    <3>4. blk \notin ToSet(q)
      <4>1. PICK C : C = <<"cache", <<cache, i>>>>
        OBVIOUS
      <4>2. C \in Owners /\ B # C
        BY <2>2, <3>1, <4>1, OwnerKinds
      <4>3. blk \notin own[C]
        BY <2>1, <4>2 DEF HoldersOK, OneOwner
      <4>4. own[C] = Pooled(ToSet(q))
        BY <2>2, <3>1, <3>2, <4>1, OwnNow
      <4> QED
        BY <2>1, <4>3, <4>4 DEF Pooled
    <3>5. ToSet(r) = ToSet(q) \cup {blk} /\ Apart(r)
      BY <2>1, <3>2, <3>3, <3>4, AppendHolds
    <3>6. /\ queues'[cache][i] = r
          /\ \A u \in Threads, k \in Classes : u # cache \/ k # i => queues'[u][k] = queues[u][k]
      BY <2>2, <3>1, <3>2 DEF Cached, IndexInv, QueuesOK
    <3>7. OneOwner(own') /\ AllOf(own') = AllOf(own)
      <4>1. B # <<"cache", <<cache, i>>>>
        BY <2>2, <3>1
      <4>2. ToSet(queues'[cache][i]) = ToSet(queues[cache][i]) \cup {blk}
        BY <3>2, <3>5, <3>6
      <4> QED
        BY <2>1, <2>2, <3>1, <3>6, <4>1, <4>2, OwnCached
    <3>8. ASSUME NEW u \in Threads, NEW k \in Classes PROVE CacheHolds(u, k)'
      <4>1. CASE u = cache /\ k = i
        BY <3>5, <3>6, <4>1 DEF CacheHolds
      <4>2. CASE u # cache \/ k # i
        <5>1. queues'[u][k] = queues[u][k] /\ CacheHolds(u, k)
          BY <1>1, <3>6, <4>2
        <5> QED
          BY <5>1 DEF CacheHolds
      <4> QED
        BY <4>1, <4>2
    <3> QED
      BY <3>1, <3>7, <3>8 DEF GivesBack
  <2>4. CASE ~(cache # None /\ cacheable(i))
    <3>1. FreeChunk(blk) /\ UNCHANGED queues
      BY <1>5, <2>4 DEF FreeBlock, cacheVars, i
    <3>2. OneOwner(own') /\ blk \in AllOf(own) /\ AllOf(own') = AllOf(own) \ {blk}
      <4>1. blk \in own[B] /\ own'[B] = own[B] \ {blk}
        BY <2>1
      <4>2. \A u \in Threads, k \in Classes : B # <<"cache", <<u, k>>>>
             => queues'[u][k] = queues[u][k]
        BY <3>1
      <4>3. \A d \in Bufs : B # <<"buffer", d>> => block'[d] = block[d]
        OBVIOUS
      <4> QED
        BY <1>3, <4>1, <4>2, <4>3, OwnDropped, Zenon
    <3>3. \A u \in Threads, k \in Classes : CacheHolds(u, k)'
      BY <1>1, <3>1 DEF CacheHolds
    <3> QED
      BY <3>1, <3>2, <3>3 DEF GivesBack
  <2> QED
    BY <2>3, <2>4
<1> QED
  BY <1>4, <1>5

(* deallocate(). *)
LEMMA DeallocateOwn ==
    ASSUME IndexInv, HoldersOK, NEW t \in Threads, NEW b \in Bufs, Deallocate(t, b)
    PROVE  HoldersOK' /\ GivesBack(AllOf(own), AllOf(own'))
<1>1. PICK blk, cache : blk = block[b] /\ cache = m_cache[b]
  OBVIOUS
<1>2. Known(blk) /\ blk # NoBlock /\ cache \in Threads \cup {None} /\ FreeBlock(blk, cache)
  BY <1>1 DEF HoldersOK, Deallocate
<1>3. Sized(blk) /\ DOMAIN block = Bufs
  BY <1>1, <1>2 DEF IndexInv, BufsOK, BufOK
<1>4. /\ block' = [block EXCEPT ![b] = NoBlock] /\ m_cache' = [m_cache EXCEPT ![b] = None]
      /\ UNCHANGED call /\ Begins(t, b)
  BY DEF Deallocate
<1>5. /\ block'[b] = NoBlock /\ \A d \in Bufs : d # b => block'[d] = block[d]
      /\ DOMAIN m_cache' = Bufs /\ m_cache'[b] \in Threads \cup {None}
      /\ \A d \in Bufs : d # b => m_cache'[d] = m_cache[d]
  BY <1>3, <1>4 DEF HoldersOK
<1>6. PICK B : B = <<"buffer", b>>
  OBVIOUS
<1>7. B \in Owners /\ own[B] = Pooled({blk}) /\ own'[B] = {}
  <2>1. NoBlock.chunk \notin Chunks
    BY ChunksAssumption DEF NoBlock
  <2>2. Pooled({NoBlock}) = {}
    BY <2>1 DEF Pooled
  <2>3. own[B] = Pooled({blk}) /\ own'[B] = Pooled({NoBlock})
    BY <1>1, <1>5, <1>6, OwnNow, OwnNext
  <2> QED
    BY <1>6, <2>2, <2>3, OwnerKinds
<1>8. /\ \A u \in Threads, k \in Classes : B # <<"cache", <<u, k>>>>
      /\ \A d \in Bufs : B # <<"buffer", d>> => block'[d] = block[d]
      /\ \A u \in Threads : B # <<"call", u>> => call'[u] = call[u]
  BY <1>4, <1>5, <1>6
<1>9. /\ OneOwner(own') /\ \A u \in Threads, k \in Classes : CacheHolds(u, k)'
      /\ GivesBack(AllOf(own), AllOf(own'))
  BY <1>2, <1>3, <1>7, <1>8, FreeBlockOwn
<1>10. /\ \A u \in Threads : u # t => call'[u] = call[u]
       /\ \A u \in Threads : u # t /\ call[u] # Quiet => call[u].buf # b
       /\ CallHolds(t)' /\ Known(block'[b])
  BY <1>4, <1>5 DEF Begins, CallHolds, Known
<1>11. HoldersOK'
  BY <1>5, <1>9, <1>10, HoldersStep
<1> QED
  BY <1>9, <1>11

(* The end of reallocate(). *)
LEMMA FreeOldOwn ==
    ASSUME IndexInv, HoldersOK, NEW t \in Threads, FreeOld(t)
    PROVE  HoldersOK' /\ GivesBack(AllOf(own), AllOf(own'))
<1>1. PICK c, blk, b, cache : c = call[t] /\ blk = c.old /\ b = c.buf /\ cache = m_cache[b]
  OBVIOUS
<1>2. c.pc = "free" /\ FreeBlock(blk, cache) /\ call' = [call EXCEPT ![t] = Quiet]
       /\ UNCHANGED bufVars
  BY <1>1 DEF FreeOld
<1>3. c # Quiet /\ b \in Bufs /\ blk # NoBlock /\ Sized(blk)
  BY <1>1, <1>2, TheCall
<1>4. Known(blk) /\ cache \in Threads \cup {None} /\ DOMAIN m_cache = Bufs
  BY <1>1, <1>3 DEF HoldersOK, CallHolds
<1>5. /\ call'[t] = Quiet /\ \A u \in Threads : u # t => call'[u] = call[u]
      /\ UNCHANGED <<block, m_cache>>
  BY <1>2 DEF IndexInv, CallsOK, bufVars
<1>6. PICK B : B = <<"call", t>>
  OBVIOUS
<1>7. B \in Owners /\ own[B] = Pooled({blk}) /\ own'[B] = {}
  <2>1. Replaced(t) = {blk} /\ Replaced(t)' = {}
    BY <1>1, <1>2, <1>5 DEF Replaced, replaced, Quiet
  <2> QED
    BY <1>6, <2>1, OwnNow, OwnNext, OwnerKinds DEF Pooled
<1>8. /\ \A u \in Threads, k \in Classes : B # <<"cache", <<u, k>>>>
      /\ \A d \in Bufs : B # <<"buffer", d>> => block'[d] = block[d]
      /\ \A u \in Threads : B # <<"call", u>> => call'[u] = call[u]
  BY <1>5, <1>6
<1>9. /\ OneOwner(own') /\ \A u \in Threads, k \in Classes : CacheHolds(u, k)'
      /\ GivesBack(AllOf(own), AllOf(own'))
  BY <1>3, <1>4, <1>2, <1>7, <1>8, FreeBlockOwn
<1>10. /\ \A u \in Threads : u # t /\ call[u] # Quiet => call[u].buf # b
       /\ CallHolds(t)' /\ Known(block'[b]) /\ \A d \in Bufs : d # b => block'[d] = block[d]
  BY <1>1, <1>3, <1>5 DEF CallHolds, Known, IndexInv, CallsOK, HoldersOK
<1>11. DOMAIN m_cache' = Bufs /\ m_cache'[b] \in Threads \cup {None} /\ \A d \in Bufs : d # b
        => m_cache'[d] = m_cache[d]
  BY <1>3, <1>5 DEF HoldersOK
<1>12. HoldersOK'
  BY <1>3, <1>5, <1>9, <1>10, <1>11, HoldersStep
<1> QED
  BY <1>9, <1>12

(* trim(): the oldest block of a cache goes back, or the call goes on. *)
LEMMA TrimOwn ==
    ASSUME IndexInv, HoldersOK, NEW t \in Threads, Trim(t)
    PROVE  HoldersOK' /\ GivesBack(AllOf(own), AllOf(own'))
<1> DEFINE more == {k \in Classes : call[t].todo[k] > 0 /\ queues[t][k] # <<>>}
           k == Min(more)
<1>1. PICK c, b : c = call[t] /\ b = c.buf
  OBVIOUS
<1>2. c.pc = "trim" /\ UNCHANGED bufVars
  BY <1>1 DEF Trim
<1>3. c # Quiet /\ DOMAIN c = CallFields /\ b \in Bufs
  BY <1>1, <1>2, TheCall
<1>4. /\ DOMAIN call = Threads /\ DOMAIN queues = Threads
      /\ \A u \in Threads : DOMAIN queues[u] = Classes
          /\ \A i \in Classes : QueueOf(queues[u][i], i)
      /\ \A u \in Threads : u # t /\ call[u] # Quiet => call[u].buf # b
  BY <1>1, <1>3 DEF IndexInv, CallsOK, QueuesOK
<1>5. Known(c.old) /\ (~replaced(t) => c.old = block[b])
       /\ Replaced(t) = IF c.hit THEN {c.old} ELSE {}
  BY <1>1, <1>2, <1>3 DEF HoldersOK, CallHolds, Replaced, replaced
<1>6. /\ Known(block'[b]) /\ \A e \in Bufs : e # b => block'[e] = block[e]
      /\ DOMAIN m_cache' = Bufs /\ m_cache'[b] \in Threads \cup {None}
      /\ \A e \in Bufs : e # b => m_cache'[e] = m_cache[e]
      /\ block' = block
  BY <1>2, <1>3 DEF HoldersOK, bufVars
<1>7. \A u \in Threads, i \in Classes : CacheHolds(u, i)
  BY DEF HoldersOK
<1>8. CASE more = {}
  <2>1. PICK hit : hit = c.hit
    OBVIOUS
  <2>2. call' = [call EXCEPT ![t] = AfterCache(c, hit)] /\ UNCHANGED <<arenaVars, queues, failed>>
    BY <1>1, <1>8, <2>1 DEF Trim
  <2>3. call'[t] = AfterCache(c, hit) /\ \A u \in Threads : u # t => call'[u] = call[u]
    BY <1>4, <2>2
  <2>4. Pooled(Replaced(t)') = Pooled(IF hit THEN {c.old} ELSE {}) /\ CallHolds(t)'
    <3>1. ~hit => c.old = block'[c.buf]
      BY <1>1, <1>2, <1>5, <1>6, <2>1 DEF replaced
    <3> QED
      BY <1>3, <1>5, <2>3, <3>1, AfterCacheHolds
  <2>5. own' = own
    <3>1. \A u \in Threads : Pooled(Replaced(u)') = Pooled(Replaced(u))
      <4>1. Pooled(Replaced(t)') = Pooled(Replaced(t))
        BY <1>5, <2>1, <2>4
      <4>2. ASSUME NEW u \in Threads, u # t PROVE Replaced(u)' = Replaced(u)
        BY <2>3, <4>2 DEF Replaced, replaced
      <4> QED
        BY <4>1, <4>2
    <3>2. \A u \in Threads, i \in Classes : queues'[u][i] = queues[u][i]
      BY <2>2
    <3>3. \A e \in Bufs : Pooled({block'[e]}) = Pooled({block[e]})
      BY <1>6
    <3> QED
      BY <3>1, <3>2, <3>3, OwnSame
  <2>6. OneOwner(own') /\ \A u \in Threads, i \in Classes : CacheHolds(u, i)'
    BY <1>7, <2>2, <2>5 DEF HoldersOK, CacheHolds
  <2>7. HoldersOK'
    BY <1>3, <1>4, <1>6, <2>3, <2>4, <2>6, HoldersStep
  <2> QED
    BY <2>2, <2>5, <2>7 DEF GivesBack
<1>9. CASE more # {}
  <2>1. k \in more
    <3>1. more \in SUBSET Nat
      BY SizesOK, ClassesAssumption DEF Classes
    <3> HIDE DEF more
    <3> QED
      BY <1>9, <3>1, Least
  <2>2. k \in Classes /\ queues[t][k] # <<>>
    BY <2>1
  <2>3. /\ FreeChunk(Head(queues[t][k]))
        /\ queues' = [queues EXCEPT ![t][k] = Tail(@)]
        /\ call' = [call EXCEPT ![t].todo = [j \in Classes |-> IF j < k THEN 0 ELSE IF j = k THEN @[k] - 1 ELSE @[j]]]
    BY <1>9 DEF Trim
  <2> HIDE DEF more, k
  <2>4. PICK j, q, r, blk : j = k /\ q = queues[t][j] /\ r = Tail(q) /\ blk = Head(q)
    OBVIOUS
  <2>5. FreeChunk(blk)
    BY <2>3, <2>4
  <2>6. /\ j \in Classes /\ queues'[t][j] = r
        /\ \A u \in Threads, i \in Classes : u # t \/ i # j => queues'[u][i] = queues[u][i]
    BY <1>4, <2>2, <2>3, <2>4
  <2>7. blk \in ToSet(q) /\ blk.chunk \in Chunks /\ ToSet(r) = ToSet(q) \ {blk} /\ Apart(r)
    <3>1. QueueOf(q, j) /\ q # <<>> /\ Apart(q)
      BY <1>4, <1>7, <2>2, <2>4 DEF CacheHolds
    <3> QED
      BY <2>4, <3>1, TailHolds
  <2>8. PICK todo : call' = [call EXCEPT ![t] = [c EXCEPT !.todo = todo]]
    BY <1>1, <2>3
  <2>9. PICK d : d = [c EXCEPT !.todo = todo]
    OBVIOUS
  <2>10. call'[t] = d /\ \A u \in Threads : u # t => call'[u] = call[u]
    BY <1>4, <2>8, <2>9
  <2>11. d.pc = "trim" /\ d.hit = c.hit /\ d.old = c.old /\ d.buf = b /\ d # Quiet
    BY <1>1, <1>2, <1>3, <2>9 DEF CallFields, Quiet
  <2>12. Replaced(t)' = Replaced(t) /\ CallHolds(t)'
    BY <1>1, <1>2, <1>5, <1>6, <2>10, <2>11 DEF Replaced, replaced, CallHolds, Known
  <2>13. PICK B : B = <<"cache", <<t, j>>>>
    OBVIOUS
  <2>14. B \in Owners /\ blk \in own[B] /\ own'[B] = own[B] \ {blk}
    <3>1. own[B] = Pooled(ToSet(q)) /\ own'[B] = Pooled(ToSet(r))
      BY <2>4, <2>6, <2>13, OwnNow, OwnNext
    <3>2. blk \in Pooled(ToSet(q)) /\ Pooled(ToSet(r)) = Pooled(ToSet(q)) \ {blk}
      BY <2>7 DEF Pooled
    <3> QED
      BY <2>6, <2>13, <3>1, <3>2, OwnerKinds
  <2>15. OneOwner(own') /\ blk \in AllOf(own) /\ AllOf(own') = AllOf(own) \ {blk}
    <3>1. \A d1 \in Bufs : B # <<"buffer", d1>> => block'[d1] = block[d1]
      BY <1>6
    <3>2. \A u \in Threads : B # <<"call", u>> => Replaced(u)' = Replaced(u)
      BY <2>10, <2>12 DEF Replaced, replaced
    <3>3. \A u \in Threads, i \in Classes : B # <<"cache", <<u, i>>>>
           => queues'[u][i] = queues[u][i]
      BY <2>6, <2>13
    <3> QED
      BY <2>14, <3>1, <3>2, <3>3, OwnDropped, Zenon
  <2>16. ASSUME NEW u \in Threads, NEW i \in Classes PROVE CacheHolds(u, i)'
    <3>1. CASE u = t /\ i = j
      BY <2>6, <2>7, <3>1 DEF CacheHolds
    <3>2. CASE u # t \/ i # j
      <4>1. queues'[u][i] = queues[u][i] /\ CacheHolds(u, i)
        BY <1>7, <2>6, <3>2
      <4> QED
        BY <4>1 DEF CacheHolds
    <3> QED
      BY <3>1, <3>2
  <2>17. HoldersOK'
    BY <1>3, <1>4, <1>6, <2>10, <2>12, <2>15, <2>16, HoldersStep
  <2> QED
    BY <2>5, <2>15, <2>17 DEF GivesBack
<1> QED
  BY <1>8, <1>9

(* A step of a call in the arena that gives nobody a block. *)
LEMMA SearchOwn ==
    ASSUME IndexInv, HoldersOK, NEW t \in Threads, NEW c, c = call[t],
           c.pc \in {"pool", "arena", "slot", "take"},
           NEW d, DOMAIN d = CallFields, d.pc \in {"pool", "arena", "slot", "take"}, d.old = c.old,
           d.buf = c.buf,
           call' = [call EXCEPT ![t] = d], UNCHANGED <<queues, bufVars>>
    PROVE  HoldersOK' /\ own' = own
<1>1. c.pc # "idle" /\ c # Quiet /\ d # Quiet
  BY DEF Quiet
<1>2. DOMAIN call' = Threads /\ call'[t] = d /\ \A u \in Threads : u # t => call'[u] = call[u]
  BY DEF IndexInv, CallsOK
<1>3. ~replaced(t) /\ ~replaced(t)' /\ Replaced(t)' = Replaced(t)
  BY <1>2 DEF Replaced, replaced
<1>4. UNCHANGED <<block, m_cache, queues>>
  BY DEF bufVars
<1> QED
  BY <1>1, <1>2, <1>3, <1>4, CallGoesOnOwn

(* What concerns neither buffers' blocks, nor calls, nor caches. *)
LEMMA StillOwn ==
    ASSUME HoldersOK, UNCHANGED <<queues, block, m_cache, call>>
    PROVE  HoldersOK' /\ own' = own
<1>1. \A u \in Threads : Pooled(Replaced(u)') = Pooled(Replaced(u))
  <2> SUFFICES ASSUME NEW u \in Threads PROVE Replaced(u)' = Replaced(u)
    OBVIOUS
  <2> QED
    BY DEF Replaced, replaced
<1>2. \A u \in Threads, i \in Classes : queues'[u][i] = queues[u][i]
  OBVIOUS
<1>3. \A e \in Bufs : Pooled({block'[e]}) = Pooled({block[e]})
  OBVIOUS
<1>4. own' = own
  BY <1>1, <1>2, <1>3, OwnSame
<1>5. OneOwner(own)'
  BY <1>4 DEF HoldersOK, OneOwner
<1>6. (\A t \in Threads : CallHolds(t))' /\ (\A t \in Threads, i \in Classes : CacheHolds(t, i))'
  BY DEF HoldersOK, CallHolds, replaced, CacheHolds
<1> QED
  BY <1>4, <1>5, <1>6 DEF HoldersOK, Known

-----------------------------------------------------------------------------
(* A list without repetitions. *)
Listing(q, S) == q \in Seq(S) /\ \A m, n \in 1..Len(q) : q[m] = q[n] => m = n

(* An element is put at the head. *)
LEMMA Linked ==
    ASSUME NEW S, NEW q, Listing(q, S), NEW e \in S, e \notin ToSet(q), NEW r, r = <<e>> \o q
    PROVE  Listing(r, S) /\ \A x : x \in ToSet(r) <=> x = e \/ x \in ToSet(q)
<1> DEFINE n == Len(q)
<1>1. q \in Seq(S) /\ n \in Nat /\ DOMAIN q = 1..n /\ \A m, k \in 1..n : q[m] = q[k] => m = k
  BY DEF Listing
<1>2. r \in Seq(S) /\ Len(r) = n + 1 /\ DOMAIN r = 1..(n + 1) /\ r[1] = e
       /\ \A k \in 2..(n + 1) : r[k] = q[k - 1]
  BY <1>1
<1> HIDE DEF n
<1>3. \A k \in 1..(n + 1) : k = 1 \/ (k \in 2..(n + 1) /\ k - 1 \in 1..n)
  BY <1>1
<1>4. \A k \in 1..n : k + 1 \in 2..(n + 1) /\ (k + 1) - 1 = k
  BY <1>1
<1>5. ToSet(q) = {q[k] : k \in 1..n} /\ ToSet(r) = {r[k] : k \in 1..(n + 1)}
  BY <1>1, <1>2 DEF ToSet
<1>6. ASSUME NEW x \in ToSet(r) PROVE x \in ToSet(q) \cup {e}
  BY <1>2, <1>3, <1>5
<1>7. e \in ToSet(r)
  BY <1>1, <1>2, <1>5
<1>8. ASSUME NEW x \in ToSet(q) PROVE x \in ToSet(r)
  <2>1. PICK k \in 1..n : x = q[k]
    BY <1>5
  <2>2. x = r[k + 1] /\ k + 1 \in 1..(n + 1)
    BY <1>1, <1>2, <1>4, <2>1
  <2> QED
    BY <1>5, <2>2
<1>9. ASSUME NEW m \in 1..(n + 1), NEW k \in 1..(n + 1), r[m] = r[k] PROVE m = k
  <2>1. \A j \in 1..n : q[j] # e
    BY <1>5
  <2>2. CASE m = 1 \/ k = 1
    BY <1>2, <1>3, <1>9, <2>1, <2>2
  <2>3. CASE m # 1 /\ k # 1
    <3>1. m - 1 \in 1..n /\ k - 1 \in 1..n /\ q[m - 1] = q[k - 1]
      BY <1>2, <1>3, <1>9, <2>3
    <3>2. m - 1 = k - 1
      BY <1>1, <3>1
    <3> QED
      BY <3>2
  <2> QED
    BY <2>2, <2>3
<1>10. Listing(r, S)
  BY <1>2, <1>9 DEF Listing
<1> QED
  BY <1>6, <1>7, <1>8, <1>10

(* An element is taken out. *)
LEMMA UnlinkedIs ==
    ASSUME NEW S, NEW q, Listing(q, S), NEW e, NEW r, r = Unlinked(q, e)
    PROVE  Listing(r, S) /\ \A x : x \in ToSet(r) <=> x \in ToSet(q) /\ x # e
<1> DEFINE n == Len(q)
<1>1. q \in Seq(S) /\ n \in Nat /\ DOMAIN q = 1..n /\ \A m, k \in 1..n : q[m] = q[k] => m = k
  BY DEF Listing
<1>2. CASE e \notin ToSet(q)
  BY <1>2 DEF Unlinked
<1>3. CASE e \in ToSet(q)
  <2> HIDE DEF n
  <2>1. ToSet(q) = {q[k] : k \in 1..n}
    BY <1>1 DEF ToSet
  <2>2. PICK k \in 1..n : q[k] = e
    BY <1>3, <2>1
  <2>3. r = [m \in 1..(n - 1) |-> IF \E j \in 1..m : q[j] = e THEN q[m + 1] ELSE q[m]]
    BY <1>3 DEF Unlinked, n
  <2>4. \A m \in 1..(n - 1) : (\E j \in 1..m : q[j] = e) <=> k <= m
    <3> SUFFICES ASSUME NEW m \in 1..(n - 1) PROVE (\E j \in 1..m : q[j] = e) <=> k <= m
      OBVIOUS
    <3>1. ASSUME NEW j \in 1..m, q[j] = e PROVE k <= m
      <4>1. j \in 1..n
        BY <1>1
      <4>2. j = k
        BY <1>1, <2>2, <3>1, <4>1
      <4> QED
        BY <4>2
    <3>2. ASSUME k <= m PROVE k \in 1..m
      BY <1>1, <2>2, <3>2
    <3> QED
      BY <2>2, <3>1, <3>2
  <2>5. r = [m \in 1..(n - 1) |-> IF k <= m THEN q[m + 1] ELSE q[m]]
    BY <2>3, <2>4
  <2> DEFINE at(m) == IF k <= m THEN m + 1 ELSE m
  <2>6. \A m \in 1..(n - 1) : at(m) \in 1..n /\ at(m) # k /\ r[m] = q[at(m)]
    BY <1>1, <2>2, <2>5
  <2>7. \A m, j \in 1..(n - 1) : at(m) = at(j) => m = j
    BY <1>1, <2>2
  <2>8. \A j \in 1..n : j # k => \E m \in 1..(n - 1) : at(m) = j
    <3> SUFFICES ASSUME NEW j \in 1..n, j # k PROVE \E m \in 1..(n - 1) : at(m) = j
      OBVIOUS
    <3>1. CASE j < k
      <4>1. j \in 1..(n - 1) /\ at(j) = j
        BY <1>1, <2>2, <3>1
      <4> QED
        BY <4>1
    <3>2. CASE j > k
      <4>1. j - 1 \in 1..(n - 1) /\ at(j - 1) = j
        BY <1>1, <2>2, <3>2
      <4> QED
        BY <4>1
    <3> QED
      BY <1>1, <2>2, <3>1, <3>2
  <2> HIDE DEF at
  <2>9. n - 1 \in Nat
    BY <1>1, <2>2
  <2>10. \A m \in 1..(n - 1) : r[m] \in S
    BY <1>1, <2>6
  <2>11. r \in Seq(S) /\ Len(r) = n - 1 /\ DOMAIN r = 1..(n - 1)
    <3>1. r = [m \in 1..(n - 1) |-> r[m]]
      BY <2>5
    <3> QED
      BY <2>9, <2>10, <3>1
  <2>12. ToSet(r) = {r[m] : m \in 1..(n - 1)}
    BY <2>11 DEF ToSet
  <2>13. ASSUME NEW x \in ToSet(r) PROVE x \in ToSet(q) /\ x # e
    BY <1>1, <2>1, <2>2, <2>6, <2>12, <2>13
  <2>14. ASSUME NEW x \in ToSet(q), x # e PROVE x \in ToSet(r)
    <3>1. PICK j \in 1..n : x = q[j]
      BY <2>1
    <3>2. PICK m \in 1..(n - 1) : at(m) = j
      BY <2>2, <2>8, <2>14, <3>1
    <3> QED
      BY <2>6, <2>12, <3>1, <3>2
  <2>15. \A m, j \in 1..(n - 1) : r[m] = r[j] => m = j
    BY <1>1, <2>6, <2>7
  <2> QED
    BY <2>11, <2>13, <2>14, <2>15 DEF Listing
<1> QED
  BY <1>2, <1>3

-----------------------------------------------------------------------------
(* Runs and subpages.                                                      *)
Pages == 0..(nPages - 1)

(* The slots of a subpage of a class. *)
Slots(i) == 0..(maxNumElems[i] - 1)

(* A subpage in page p of a chunk. *)
SubpageIn(s, p, runs) ==
    /\ s = [class |-> s.class, bits |-> s.bits, nextAvail |-> s.nextAvail]
    /\ s.class \in Classes /\ s.class <= m_smallMaxSizeIdx
    /\ s.bits \subseteq Slots(s.class)
    /\ s.nextAvail \in Int /\ (s.nextAvail >= 0 => s.nextAvail \in Slots(s.class) \ s.bits)
    /\ RunAt(p, classPages[s.class]) \in runs

(* A block is a run of a normal class, or a slot in use of a subpage. *)
BlockIn(x, runs, s) ==
    /\ x.handle.run \in runs /\ x.handle = Handle(x.handle.run, x.handle.slot)
    /\ \E i \in Classes :
          /\ OfClass(x, i) /\ x.handle.run.pages = classPages[i]
          /\ \/ x.handle.slot = -1 /\ s = NoSubpage
             \/ s # NoSubpage /\ s.class = i /\ x.handle.slot \in s.bits

(* A run in use has a holder, and each slot in use of a subpage has one. *)
Has(H, c, r, k) == \E x \in H : x.chunk = c /\ x.handle = Handle(r, k)

(* The run of a subpage is claimed slot by slot. *)
ClaimedRun(H, c, r, s) == IF s = NoSubpage THEN Has(H, c, r, -1) ELSE \A k \in s.bits : Has(H, c, r, k)

(* A subpage of the class that is to be in its pool. *)
HasRoom(s, i) == s # NoSubpage /\ s.class = i /\ ~isFull(s)

(* No two runs overlap. *)
RunsApart(runs) == runs \subseteq Run /\ \A r, s \in runs : r = s \/ ~Overlap(r, s)

(* The runs in use of every chunk. *)
RunsOK == DOMAIN inUse = Chunks /\ \A c \in Chunks : RunsApart(inUse[c])

(* The subpages of every chunk: each in a run in use of its own. *)
SubpagesOK == DOMAIN subpages = Chunks /\ \A c \in Chunks :
    /\ DOMAIN subpages[c] = Pages
    /\ \A p \in Pages : subpages[c][p] = NoSubpage \/ SubpageIn(subpages[c][p], p, inUse[c])

(* The blocks held: each in a run in use, no two in one place. *)
BlocksOK(H) ==
    /\ \A x \in H : x.chunk \in Chunks
        /\ BlockIn(x, inUse[x.chunk], subpages[x.chunk][x.handle.run.off])
    /\ \A x, y \in H : x.chunk = y.chunk /\ x.handle = y.handle => x = y

(* Nothing is lost: all that is in use has a holder. *)
ClaimedOK(H) == \A c \in Chunks : \A r \in inUse[c] : ClaimedRun(H, c, r, subpages[c][r.off])

(* The pool of a class: exactly its subpages that have a free slot. *)
PoolOK(i) ==
    /\ Listing(pools[i], Chunks \X Pages)
    /\ \A c \in Chunks, p \in Pages : <<c, p>> \in ToSet(pools[i]) <=> HasRoom(subpages[c][p], i)

(* All pools. *)
PoolsOK == DOMAIN pools = Classes /\ \A i \in Classes : PoolOK(i)

(* The memory of the arena, of which H are the blocks held. *)
MemoryOK(H) == RunsOK /\ SubpagesOK /\ BlocksOK(H) /\ ClaimedOK(H) /\ PoolsOK

(* Division. *)
LEMMA Quotient ==
    ASSUME NEW a \in Nat, NEW b \in Nat \ {0}
    PROVE  a \div b \in Nat /\ (a \div b) * b <= a /\ a < (a \div b) * b + b
<1>1. PICK q, r : q = a \div b /\ r = a % b
  OBVIOUS
<1>2. a = b * q + r /\ r \in 0..(b - 1) /\ q \in Int
  BY <1>1
<1>3. q >= 0
  BY <1>2
<1> QED
  BY <1>1, <1>2, <1>3

(* The slots of a subpage fill its run, and there is one. *)
LEMMA SlotsOfClass ==
    ASSUME NEW i \in Classes
    PROVE  /\ maxNumElems[i] \in Nat \ {0}
           /\ maxNumElems[i] * sizeIdx2size(i) <= classPages[i] * pageSize
           /\ classPages[i] \in 1..nPages /\ nPages \in Nat \ {0}
           /\ sizeIdx2size(i) \in Nat \ {0} /\ pageSize \in Nat \ {0}
<1>1. /\ sizeIdx2size(i) \in Nat \ {0} /\ classPages[i] \in 1..nPages
      /\ sizeIdx2size(i) <= classPages[i] * pageSize /\ pageSize \in Nat \ {0}
          /\ nPages \in Nat \ {0}
  BY ClassesAssumption, ChunksAssumption, PagesAssumption
<1>2. PICK a, b : a = classPages[i] * pageSize /\ b = sizeIdx2size(i)
  OBVIOUS
<1>3. a \in Nat /\ b \in Nat \ {0} /\ b <= a
  BY <1>1, <1>2
<1>4. a \div b \in Nat /\ (a \div b) * b <= a /\ a < (a \div b) * b + b
  BY <1>3, Quotient
<1>5. PICK q : q = a \div b
  OBVIOUS
<1>6. q # 0
  BY <1>3, <1>4, <1>5
<1>7. maxNumElems[i] = q
  BY <1>2, <1>5 DEF maxNumElems
<1> QED
  BY <1>1, <1>2, <1>4, <1>5, <1>6, <1>7

(* A subpage whose slots are all in use is full, and only such a one. *)
LEMMA FullIs ==
    ASSUME NEW s, s.class \in Classes, s.bits \subseteq Slots(s.class)
    PROVE  isFull(s) <=> s.bits = Slots(s.class)
<1> DEFINE n == maxNumElems[s.class]
           B == s.bits
<1>1. n \in Nat \ {0}
  BY SlotsOfClass
<1>2. IsFiniteSet(Slots(s.class)) /\ Cardinality(Slots(s.class)) = n
  <2> HIDE DEF n
  <2>1. 0 \in Int /\ n - 1 \in Int
    BY <1>1
  <2>2. IsFiniteSet(0..(n - 1))
         /\ Cardinality(0..(n - 1)) = IF 0 <= n - 1 THEN (n - 1) - 0 + 1 ELSE 0
    BY <1>1, <2>1, FS_Interval
  <2> QED
    BY <1>1, <2>2 DEF Slots, n
<1> HIDE DEF n
<1>3. IsFiniteSet(B) /\ (Cardinality(B) = Cardinality(Slots(s.class)) => B = Slots(s.class))
  BY <1>2, FS_Subset
<1> QED
  BY <1>2, <1>3 DEF isFull, n

(* Two runs in use at the same page are one. *)
LEMMA OneRun ==
    ASSUME NEW runs, RunsApart(runs), NEW r \in runs, NEW s \in runs, r.off = s.off
    PROVE  r = s
<1>1. r \in Run /\ s \in Run /\ nPages \in Nat
  BY PagesAssumption DEF RunsApart
<1>2. Overlap(r, s)
  BY <1>1 DEF Overlap, Run, end
<1> QED
  BY <1>2 DEF RunsApart

(* Of chunk c the runs that begin at page p change, and the subpage there. *)
CellChanges(c, p, runs, s) ==
    /\ DOMAIN inUse' = DOMAIN inUse /\ inUse'[c] = runs
    /\ \A d \in Chunks : d # c => inUse'[d] = inUse[d]
    /\ \A r : r.off # p => (r \in runs <=> r \in inUse[c])
    /\ DOMAIN subpages' = DOMAIN subpages
        /\ \A d \in Chunks : DOMAIN subpages'[d] = DOMAIN subpages[d]
    /\ subpages'[c][p] = s
    /\ \A d \in Chunks, q \in Pages : d # c \/ q # p => subpages'[d][q] = subpages[d][q]

(* A step that changes one chunk, and of it the subpage in one page: its   *)
(* runs and subpages stay in order.                                        *)
LEMMA CellRuns ==
    ASSUME RunsOK, SubpagesOK, NEW c \in Chunks, NEW p \in Pages, NEW runs, NEW s,
           CellChanges(c, p, runs, s),
           RunsApart(runs), s = NoSubpage \/ SubpageIn(s, p, runs)
    PROVE  RunsOK' /\ SubpagesOK'
<1>1. RunsOK'
  <2>1. DOMAIN inUse' = Chunks
    BY DEF CellChanges, RunsOK
  <2>2. ASSUME NEW d \in Chunks PROVE RunsApart(inUse'[d])
    BY DEF CellChanges, RunsOK
  <2> QED
    BY <2>1, <2>2 DEF RunsOK, RunsApart
<1>2. ASSUME NEW d \in Chunks, NEW q \in Pages
      PROVE  subpages'[d][q] = NoSubpage \/ SubpageIn(subpages'[d][q], q, inUse'[d])
  <2>1. CASE d = c /\ q = p
    BY <2>1 DEF CellChanges
  <2>2. CASE d # c \/ q # p
    <3>1. PICK u : u = subpages[d][q]
      OBVIOUS
    <3>2. subpages'[d][q] = u
      BY <2>2, <3>1 DEF CellChanges
    <3>3. u = NoSubpage \/ SubpageIn(u, q, inUse[d])
      BY <3>1 DEF SubpagesOK
    <3>4. \A r : r.off = q => (r \in inUse[d] => r \in inUse'[d])
      BY <2>2 DEF CellChanges
    <3>5. u = NoSubpage \/ SubpageIn(u, q, inUse'[d])
      BY <3>3, <3>4 DEF SubpageIn, RunAt
    <3> QED
      BY <3>2, <3>5
  <2> QED
    BY <2>1, <2>2
<1>3. DOMAIN subpages' = Chunks /\ \A d \in Chunks : DOMAIN subpages'[d] = Pages
  BY DEF CellChanges, SubpagesOK
<1> QED
  BY <1>1, <1>2, <1>3 DEF SubpagesOK, SubpageIn

(* Then K holds the blocks instead of H. *)
CellHolders(H, K, c, p, runs, s) ==
    /\ \A x : ~(x.chunk = c /\ x.handle.run.off = p) => (x \in K <=> x \in H)
    /\ \A x \in K : x.chunk = c /\ x.handle.run.off = p => BlockIn(x, runs, s)
    /\ \A x, y \in K :
          x.chunk = c /\ x.handle.run.off = p /\ x.chunk = y.chunk /\ x.handle = y.handle => x = y
    /\ \A r \in runs : r.off = p => ClaimedRun(K, c, r, s)

(* What it does to the blocks. *)
LEMMA CellBlocks ==
    ASSUME RunsOK, SubpagesOK, NEW H, BlocksOK(H), ClaimedOK(H),
           NEW c \in Chunks, NEW p \in Pages, NEW runs, NEW s, CellChanges(c, p, runs, s),
           NEW K, CellHolders(H, K, c, p, runs, s)
    PROVE  BlocksOK(K)' /\ ClaimedOK(K)'
<1> USE DEF CellHolders
<1>1. ASSUME NEW x \in K
      PROVE  x.chunk \in Chunks /\ BlockIn(x, inUse'[x.chunk], subpages'[x.chunk][x.handle.run.off])
  <2>1. CASE x.chunk = c /\ x.handle.run.off = p
    BY <2>1 DEF CellChanges
  <2>2. CASE ~(x.chunk = c /\ x.handle.run.off = p)
    <3>1. x \in H
      BY <2>2
    <3>2. PICK d, q, u : d = x.chunk /\ q = x.handle.run.off /\ u = subpages[d][q]
      OBVIOUS
    <3>3. d \in Chunks /\ BlockIn(x, inUse[d], u)
      BY <3>1, <3>2 DEF BlocksOK
    <3>4. q \in Pages
      BY <3>2, <3>3 DEF BlockIn, RunsOK, RunsApart, Run, Pages
    <3>5. subpages'[d][q] = u
      BY <2>2, <3>2, <3>3, <3>4 DEF CellChanges
    <3>6. x.handle.run \in inUse'[d]
      BY <2>2, <3>2, <3>3 DEF CellChanges, BlockIn
    <3>7. BlockIn(x, inUse'[d], u)
      BY <3>3, <3>6 DEF BlockIn
    <3> QED
      BY <3>2, <3>3, <3>5, <3>7
  <2> QED
    BY <2>1, <2>2
<1>2. ASSUME NEW x \in K, NEW y \in K, x.chunk = y.chunk, x.handle = y.handle PROVE x = y
  BY <1>2 DEF BlocksOK
<1>3. ASSUME NEW d \in Chunks, NEW r \in inUse'[d] PROVE ClaimedRun(K, d, r, subpages'[d][r.off])
  <2>1. CASE d = c /\ r.off = p
    BY <1>3, <2>1 DEF CellChanges
  <2>2. CASE d # c \/ r.off # p
    <3>1. r \in inUse[d]
      BY <1>3, <2>2 DEF CellChanges
    <3>2. r.off \in Pages
      BY <3>1 DEF RunsOK, RunsApart, Run, Pages
    <3>3. PICK u : u = subpages[d][r.off]
      OBVIOUS
    <3>4. subpages'[d][r.off] = u /\ ClaimedRun(H, d, r, u)
      BY <2>2, <3>1, <3>2, <3>3 DEF CellChanges, ClaimedOK
    <3>5. ASSUME NEW k, Has(H, d, r, k) PROVE Has(K, d, r, k)
      <4>1. PICK x \in H : x.chunk = d /\ x.handle = Handle(r, k)
        BY <3>5 DEF Has
      <4>2. x.handle.run = r
        BY <4>1 DEF Handle
      <4>3. x \in K
        BY <2>2, <4>1, <4>2
      <4> QED
        BY <4>1, <4>3 DEF Has
    <3> QED
      BY <3>4, <3>5 DEF ClaimedRun
  <2> QED
    BY <2>1, <2>2
<1>4. BlocksOK(K)'
  BY <1>1, <1>2 DEF BlocksOK, BlockIn
<1>5. ClaimedOK(K)'
  BY <1>3 DEF ClaimedOK, ClaimedRun
<1> QED
  BY <1>4, <1>5

(* The pool of class i changes for the subpage u there, that becomes s. *)
PoolChanges(c, p, i, u, s) ==
    /\ DOMAIN pools' = Classes /\ \A j \in Classes : j # i => pools'[j] = pools[j]
    /\ \A j \in Classes : j # i => ~HasRoom(u, j) /\ ~HasRoom(s, j)
    /\ Listing(pools'[i], Chunks \X Pages)
    /\ \A x : x # <<c, p>> => (x \in ToSet(pools'[i]) <=> x \in ToSet(pools[i]))
    /\ <<c, p>> \in ToSet(pools'[i]) <=> HasRoom(s, i)

(* And to the pools, of which one may change. *)
LEMMA CellPools ==
    ASSUME PoolsOK, NEW c \in Chunks, NEW p \in Pages, NEW runs, NEW s, CellChanges(c, p, runs, s),
           NEW i \in Classes, NEW u, u = subpages[c][p], PoolChanges(c, p, i, u, s)
    PROVE  PoolsOK'
<1> USE DEF PoolChanges
<1>1. ASSUME NEW j \in Classes, NEW d \in Chunks, NEW q \in Pages
      PROVE  <<d, q>> \in ToSet(pools'[j]) <=> HasRoom(subpages'[d][q], j)
  <2>1. <<d, q>> \in ToSet(pools[j]) <=> HasRoom(subpages[d][q], j)
    BY DEF PoolsOK, PoolOK
  <2>2. CASE d = c /\ q = p
    <3>1. subpages'[d][q] = s
      BY <2>2 DEF CellChanges
    <3>2. CASE j = i
      BY <2>2, <3>1, <3>2
    <3>3. CASE j # i
      <4>1. ~HasRoom(u, j) /\ ~HasRoom(s, j) /\ pools'[j] = pools[j]
        BY <3>3
      <4> QED
        BY <2>1, <2>2, <3>1, <4>1
    <3> QED
      BY <3>2, <3>3
  <2>3. CASE d # c \/ q # p
    <3>1. subpages'[d][q] = subpages[d][q] /\ <<d, q>> # <<c, p>>
      BY <2>3 DEF CellChanges
    <3>2. <<d, q>> \in ToSet(pools'[j]) <=> <<d, q>> \in ToSet(pools[j])
      BY <3>1
    <3> QED
      BY <2>1, <3>1, <3>2
  <2> QED
    BY <2>2, <2>3
<1>2. ASSUME NEW j \in Classes PROVE PoolOK(j)'
  <2>1. Listing(pools'[j], Chunks \X Pages)
    BY DEF PoolsOK, PoolOK
  <2>2. \A d \in Chunks, q \in Pages : <<d, q>> \in ToSet(pools'[j]) <=> HasRoom(subpages'[d][q], j)
    BY <1>1
  <2> QED
    BY <2>1, <2>2 DEF PoolOK, HasRoom, isFull, Listing
<1> QED
  BY <1>2 DEF PoolsOK

(* Or none. *)
LEMMA CellNoPool ==
    ASSUME PoolsOK, NEW c \in Chunks, NEW p \in Pages, NEW runs, NEW s, CellChanges(c, p, runs, s),
           UNCHANGED pools,
           NEW u, u = subpages[c][p],
           \A j \in Classes : HasRoom(s, j) <=> HasRoom(u, j)
    PROVE  PoolsOK'
<1>1. ASSUME NEW j \in Classes, NEW d \in Chunks, NEW q \in Pages
      PROVE  <<d, q>> \in ToSet(pools'[j]) <=> HasRoom(subpages'[d][q], j)
  <2>1. <<d, q>> \in ToSet(pools[j]) <=> HasRoom(subpages[d][q], j)
    BY DEF PoolsOK, PoolOK
  <2>2. CASE d = c /\ q = p
    <3>1. subpages'[d][q] = s /\ subpages[d][q] = u
      BY <2>2 DEF CellChanges
    <3> QED
      BY <2>1, <3>1
  <2>3. CASE d # c \/ q # p
    <3>1. subpages'[d][q] = subpages[d][q]
      BY <2>3 DEF CellChanges
    <3> QED
      BY <2>1, <3>1
  <2> QED
    BY <2>2, <2>3
<1>2. ASSUME NEW j \in Classes PROVE PoolOK(j)'
  <2>1. Listing(pools'[j], Chunks \X Pages)
    BY DEF PoolsOK, PoolOK
  <2>2. \A d \in Chunks, q \in Pages : <<d, q>> \in ToSet(pools'[j]) <=> HasRoom(subpages'[d][q], j)
    BY <1>1
  <2> QED
    BY <2>1, <2>2 DEF PoolOK, HasRoom, isFull, Listing
<1> QED
  BY <1>2 DEF PoolsOK

(* A block that is held, and where it lies. *)
LEMMA TheBlock ==
    ASSUME NEW H, MemoryOK(H), NEW x \in H, NEW c, c = x.chunk, NEW run, run = x.handle.run,
           NEW s, s = subpages[c][run.off]
    PROVE  /\ c \in Chunks /\ run \in inUse[c] /\ run \in Run /\ run.off \in Pages
           /\ x.handle = Handle(run, x.handle.slot) /\ BlockIn(x, inUse[c], s)
           /\ size2sizeIdx(x.norm) \in Classes /\ x.norm = sizeIdx2size(size2sizeIdx(x.norm))
           /\ run.pages = classPages[size2sizeIdx(x.norm)]
           /\ \/ x.handle.slot = -1 /\ s = NoSubpage
              \/ /\ s # NoSubpage /\ s.class = size2sizeIdx(x.norm)
                 /\ x.handle.slot \in s.bits /\ x.handle.slot \in Nat
                 /\ SubpageIn(s, run.off, inUse[c])
<1>1. c \in Chunks /\ BlockIn(x, inUse[c], s)
  BY DEF MemoryOK, BlocksOK
<1>2. run \in inUse[c] /\ run \in Run /\ run.off \in Pages
  BY <1>1 DEF BlockIn, MemoryOK, RunsOK, RunsApart, Run, Pages
<1>3. PICK i \in Classes : /\ OfClass(x, i) /\ run.pages = classPages[i]
                           /\ \/ x.handle.slot = -1 /\ s = NoSubpage
                              \/ s # NoSubpage /\ s.class = i /\ x.handle.slot \in s.bits
  BY <1>1 DEF BlockIn
<1>4. size2sizeIdx(x.norm) = i /\ x.norm = sizeIdx2size(i)
  BY <1>3, SizesOK DEF OfClass
<1>5. ASSUME s # NoSubpage PROVE SubpageIn(s, run.off, inUse[c])
  BY <1>1, <1>2, <1>5 DEF MemoryOK, SubpagesOK
<1>6. ASSUME s # NoSubpage, x.handle.slot \in s.bits PROVE x.handle.slot \in Nat
  <2>1. x.handle.slot \in Slots(s.class) /\ s.class \in Classes
    BY <1>5, <1>6 DEF SubpageIn
  <2> QED
    BY <2>1, SlotsOfClass DEF Slots
<1>7. x.handle = Handle(run, x.handle.slot)
  BY <1>1 DEF BlockIn
<1> QED
  BY <1>1, <1>2, <1>3, <1>4, <1>5, <1>6, <1>7

(* The other blocks of the same run are other slots of the same subpage.   *)
LEMMA Neighbours ==
    ASSUME NEW H, MemoryOK(H), NEW x \in H, NEW y \in H, x.chunk = y.chunk,
           x.handle.run.off = y.handle.run.off,
           NEW s, s = subpages[x.chunk][x.handle.run.off]
    PROVE  /\ x.handle.run = y.handle.run
           /\ x # y => s # NoSubpage /\ y.handle.slot \in s.bits /\ x.handle.slot \in s.bits
               /\ y.handle.slot # x.handle.slot
<1>1. PICK c, r, q : c = x.chunk /\ r = x.handle.run /\ q = y.handle.run
  OBVIOUS
<1>2. c \in Chunks /\ BlockIn(x, inUse[c], s) /\ BlockIn(y, inUse[c], s)
  BY <1>1 DEF MemoryOK, BlocksOK
<1>3. RunsApart(inUse[c]) /\ r \in inUse[c] /\ q \in inUse[c]
  BY <1>1, <1>2 DEF MemoryOK, RunsOK, BlockIn
<1>4. r = q
  BY <1>1, <1>3, OneRun
<1>5. x # y => x.handle # y.handle
  BY DEF MemoryOK, BlocksOK
<1>6. x.handle = Handle(r, x.handle.slot) /\ y.handle = Handle(r, y.handle.slot)
  BY <1>1, <1>2, <1>4 DEF BlockIn
<1>7. x # y => x.handle.slot # y.handle.slot
  BY <1>5, <1>6
<1>8. /\ (x.handle.slot = -1 /\ s = NoSubpage) \/ (s # NoSubpage /\ x.handle.slot \in s.bits)
      /\ (y.handle.slot = -1 /\ s = NoSubpage) \/ (s # NoSubpage /\ y.handle.slot \in s.bits)
  BY <1>2 DEF BlockIn
<1> QED
  BY <1>1, <1>4, <1>7, <1>8

(* free() of a run of a normal class. *)
LEMMA FreeRun ==
    ASSUME NEW H, MemoryOK(H), NEW x \in H, x.handle.slot = -1, FreeChunk(x), NEW K, K = H \ {x}
    PROVE  MemoryOK(K)' /\ inUse'[x.chunk] \subseteq inUse[x.chunk]
<1>1. PICK c, run, p, s : c = x.chunk /\ run = x.handle.run /\ p = run.off /\ s = subpages[c][p]
  OBVIOUS
<1>2. /\ c \in Chunks /\ run \in inUse[c] /\ p \in Pages /\ x.handle = Handle(run, -1)
          /\ s = NoSubpage
  BY <1>1, TheBlock
<1>3. PICK runs : runs = inUse[c] \ {run}
  OBVIOUS
<1>4. RunsOK /\ SubpagesOK /\ BlocksOK(H) /\ ClaimedOK(H) /\ PoolsOK
  BY DEF MemoryOK
<1>5. inUse' = [inUse EXCEPT ![c] = runs] /\ subpages' = subpages /\ pools' = pools
  BY <1>1, <1>3 DEF FreeChunk
<1>6. RunsApart(inUse[c]) /\ RunsApart(runs)
  BY <1>2, <1>3, <1>4 DEF RunsOK, RunsApart
<1>7. CellChanges(c, p, runs, s)
  <2>1. DOMAIN inUse' = DOMAIN inUse /\ inUse'[c] = runs /\ \A d \in Chunks : d # c
         => inUse'[d] = inUse[d]
    BY <1>2, <1>4, <1>5 DEF RunsOK
  <2>2. \A r : r.off # p => (r \in runs <=> r \in inUse[c])
    BY <1>1, <1>3
  <2> QED
    BY <1>1, <1>5, <2>1, <2>2 DEF CellChanges
<1>8. RunsOK' /\ SubpagesOK'
  BY <1>2, <1>4, <1>6, <1>7, CellRuns
<1>9. PoolsOK'
  BY <1>1, <1>2, <1>4, <1>5, <1>7, CellNoPool
<1>10. BlocksOK(K)' /\ ClaimedOK(K)'
  <2>1. \A y : ~(y.chunk = c /\ y.handle.run.off = p) => (y \in K <=> y \in H)
    BY <1>1
  <2>2. ASSUME NEW y \in K, y.chunk = c, y.handle.run.off = p PROVE FALSE
    <3>1. y \in H /\ y # x /\ x.chunk = y.chunk /\ x.handle.run.off = y.handle.run.off
           /\ s = subpages[x.chunk][x.handle.run.off]
      BY <1>1, <2>2
    <3>2. s # NoSubpage
      BY <3>1, Neighbours
    <3> QED
      BY <1>2, <3>2
  <2>3. \A r \in runs : r.off = p => ClaimedRun(K, c, r, s)
    <3>1. ASSUME NEW r \in runs, r.off = p PROVE FALSE
      <4>1. r = run
        BY <1>1, <1>2, <1>3, <1>6, <3>1, OneRun
      <4> QED
        BY <1>3, <4>1
    <3> QED
      BY <3>1
  <2>4. \A y \in K : y.chunk = c /\ y.handle.run.off = p => BlockIn(y, runs, s)
    BY <2>2
  <2>5. \A y, z \in K : y.chunk = c /\ y.handle.run.off = p /\ y.chunk = z.chunk
         /\ y.handle = z.handle => y = z
    BY <2>2
  <2>6. CellHolders(H, K, c, p, runs, s)
    BY <2>1, <2>3, <2>4, <2>5 DEF CellHolders
  <2> QED
    BY <1>2, <1>4, <1>7, <2>6, CellBlocks
<1>11. MemoryOK(K)'
  BY <1>8, <1>9, <1>10 DEF MemoryOK
<1> QED
  BY <1>1, <1>3, <1>7, <1>11 DEF CellChanges

(* The slot of a subpage that a block is, and what frees it. *)
SlotOf(x, c, run, p, s, slot) ==
    /\ c = x.chunk /\ run = x.handle.run /\ p = run.off
    /\ s = subpages[c][p] /\ s # NoSubpage /\ slot = x.handle.slot

(* free() of a slot whose subpage stays. *)
SlotFreed(c, p, s, slot, left, i) ==
    /\ left = [s EXCEPT !.bits = @ \ {slot}, !.nextAvail = slot] /\ i = s.class
    /\ DOMAIN inUse' = DOMAIN inUse /\ \A d \in Chunks : inUse'[d] = inUse[d]
    /\ subpages' = [subpages EXCEPT ![c][p] = left]
    /\ pools' = IF isFull(s) THEN [pools EXCEPT ![i] = <<<<c, p>>>> \o @] ELSE pools

(* free() of a slot that was not the last, or of the last subpage of the   *)
(* pool of its class: the subpage stays.                                   *)
LEMMA FreeSlot ==
    ASSUME NEW H, MemoryOK(H), NEW x \in H, NEW c, NEW run, NEW p, NEW s, NEW slot, NEW left, NEW i,
           SlotOf(x, c, run, p, s, slot), SlotFreed(c, p, s, slot, left, i), NEW K, K = H \ {x}
    PROVE  MemoryOK(K)'
<1>1. /\ c \in Chunks /\ run \in inUse[c] /\ p \in Pages /\ x.handle = Handle(run, slot)
      /\ BlockIn(x, inUse[c], s) /\ SubpageIn(s, p, inUse[c]) /\ s # NoSubpage /\ slot \in s.bits
      /\ p = run.off /\ s = subpages[c][p]
  <2>1. c = x.chunk /\ run = x.handle.run /\ p = run.off /\ s = subpages[c][run.off]
         /\ slot = x.handle.slot /\ s # NoSubpage
    BY DEF SlotOf
  <2> QED
    BY <2>1, TheBlock
<1>2. PICK runs : runs = inUse[c]
  OBVIOUS
<1>3. RunsOK /\ SubpagesOK /\ BlocksOK(H) /\ ClaimedOK(H) /\ PoolsOK
  BY DEF MemoryOK
<1>4. RunsApart(runs)
  BY <1>1, <1>2, <1>3 DEF RunsOK
<1>5. /\ s = [class |-> i, bits |-> s.bits, nextAvail |-> s.nextAvail] /\ s.class = i
      /\ i \in Classes /\ i <= m_smallMaxSizeIdx /\ s.bits \subseteq Slots(i)
      /\ RunAt(p, classPages[i]) \in runs
  BY <1>1, <1>2 DEF SubpageIn, SlotFreed
<1>6. /\ left = [s EXCEPT !.bits = @ \ {slot}, !.nextAvail = slot]
      /\ DOMAIN inUse' = DOMAIN inUse /\ \A d \in Chunks : inUse'[d] = inUse[d]
      /\ subpages' = [subpages EXCEPT ![c][p] = left]
      /\ pools' = IF isFull(s) THEN [pools EXCEPT ![i] = <<<<c, p>>>> \o @] ELSE pools
  BY DEF SlotFreed
<1>7. left = [class |-> i, bits |-> s.bits \ {slot}, nextAvail |-> slot]
  BY <1>5, <1>6
<1>8. left.class = i /\ left.bits = s.bits \ {slot} /\ left.nextAvail = slot /\ slot \in Slots(i)
  BY <1>1, <1>5, <1>7
<1>9. left # NoSubpage
  <2>1. i # -1
    BY <1>5, ClassesAssumption DEF Classes
  <2> QED
    BY <1>8, <2>1 DEF NoSubpage
<1>10. SubpageIn(left, p, runs)
  <2>1. slot \in Int
    BY <1>5, <1>8, SlotsOfClass DEF Slots
  <2> QED
    BY <1>5, <1>7, <1>8, <2>1 DEF SubpageIn
<1>11. ~isFull(left)
  BY <1>5, <1>8, FullIs
<1>12. CellChanges(c, p, runs, left)
  <2>1. DOMAIN subpages = Chunks /\ \A d \in Chunks : DOMAIN subpages[d] = Pages
    BY <1>3 DEF SubpagesOK
  <2>2. DOMAIN subpages' = DOMAIN subpages /\ subpages'[c] = [subpages[c] EXCEPT ![p] = left]
    BY <1>1, <1>6, <2>1
  <2>3. \A d \in Chunks : d # c => subpages'[d] = subpages[d]
    BY <1>6, <2>1
  <2>4. subpages'[c][p] = left /\ DOMAIN subpages'[c] = Pages /\ \A q \in Pages : q # p
         => subpages'[c][q] = subpages[c][q]
    BY <1>1, <2>1, <2>2
  <2>5. /\ \A d \in Chunks : DOMAIN subpages'[d] = DOMAIN subpages[d]
        /\ \A d \in Chunks, q \in Pages : d # c \/ q # p => subpages'[d][q] = subpages[d][q]
    BY <1>1, <2>1, <2>3, <2>4
  <2> QED
    BY <1>1, <1>2, <1>6, <2>2, <2>4, <2>5 DEF CellChanges
<1>13. RunsOK' /\ SubpagesOK'
  BY <1>1, <1>3, <1>4, <1>10, <1>12, CellRuns
<1>14. PoolsOK'
  <2>1. \A j : HasRoom(left, j) <=> j = i
    BY <1>8, <1>9, <1>11 DEF HasRoom
  <2>2. CASE isFull(s)
    <3>1. \A j : ~HasRoom(s, j)
      BY <2>2 DEF HasRoom
    <3>2. PICK e, q, r, S : e = <<c, p>> /\ q = pools[i] /\ r = <<e>> \o q /\ S = Chunks \X Pages
      OBVIOUS
    <3>3. Listing(q, S) /\ e \in S /\ e \notin ToSet(q)
      BY <1>1, <1>3, <1>5, <3>1, <3>2 DEF PoolsOK, PoolOK
    <3>4. Listing(r, S) /\ \A y : y \in ToSet(r) <=> y = e \/ y \in ToSet(q)
      <4>1. r = <<e>> \o q
        BY <3>2
      <4> QED
        BY <3>3, <4>1, Linked
    <3>5. DOMAIN pools' = Classes /\ pools'[i] = r /\ \A j \in Classes : j # i
           => pools'[j] = pools[j]
      BY <1>3, <1>5, <1>6, <2>2, <3>2 DEF PoolsOK
    <3>6. \A j \in Classes : j # i => ~HasRoom(s, j) /\ ~HasRoom(left, j)
      BY <2>1, <3>1
    <3>7. Listing(pools'[i], Chunks \X Pages)
      BY <3>2, <3>4, <3>5
    <3>8. \A y : y # <<c, p>> => (y \in ToSet(pools'[i]) <=> y \in ToSet(pools[i]))
      BY <3>2, <3>4, <3>5
    <3>9. <<c, p>> \in ToSet(pools'[i]) <=> HasRoom(left, i)
      BY <2>1, <3>2, <3>4, <3>5
    <3>10. PoolChanges(c, p, i, s, left)
      BY <3>5, <3>6, <3>7, <3>8, <3>9 DEF PoolChanges
    <3> QED
      BY <1>1, <1>3, <1>5, <1>12, <3>10, CellPools
  <2>3. CASE ~isFull(s)
    <3>1. \A j : HasRoom(s, j) <=> j = i
      BY <1>1, <1>5, <2>3 DEF HasRoom
    <3>2. \A j \in Classes : HasRoom(left, j) <=> HasRoom(s, j)
      BY <2>1, <3>1
    <3>3. pools' = pools
      BY <1>6, <2>3
    <3> QED
      BY <1>1, <1>3, <1>12, <3>2, <3>3, CellNoPool
  <2> QED
    BY <2>2, <2>3
<1>15. BlocksOK(K)' /\ ClaimedOK(K)'
  <2>1. \A y : ~(y.chunk = c /\ y.handle.run.off = p) => (y \in K <=> y \in H)
    BY DEF SlotOf
  <2>2. ASSUME NEW y \in K, y.chunk = c, y.handle.run.off = p PROVE BlockIn(y, runs, left)
    <3>1. y.handle.slot \in s.bits /\ y.handle.slot # slot
      <4>1. /\ y \in H /\ y # x /\ x.chunk = y.chunk /\ x.handle.run.off = y.handle.run.off
            /\ s = subpages[x.chunk][x.handle.run.off] /\ slot = x.handle.slot
        BY <2>2 DEF SlotOf
      <4> QED
        BY <4>1, Neighbours
    <3>2. BlockIn(y, runs, s)
      BY <1>1, <1>2, <2>2 DEF MemoryOK, BlocksOK
    <3>3. y.handle.slot \in left.bits
      BY <1>8, <3>1
    <3> QED
      BY <1>1, <1>5, <1>8, <1>9, <3>2, <3>3 DEF BlockIn
  <2>3. \A y, z \in K : y.chunk = c /\ y.handle.run.off = p /\ y.chunk = z.chunk
         /\ y.handle = z.handle => y = z
    BY <1>3 DEF BlocksOK
  <2>4. ASSUME NEW r \in runs, r.off = p PROVE ClaimedRun(K, c, r, left)
    <3>1. r = run
      BY <1>1, <1>2, <1>4, <2>4, OneRun
    <3>2. ASSUME NEW k \in left.bits PROVE Has(K, c, r, k)
      <4>1. k \in s.bits /\ k # slot
        BY <1>8
      <4>2. Has(H, c, r, k)
        BY <1>1, <1>3, <3>1, <4>1 DEF ClaimedOK, ClaimedRun
      <4>3. PICK y \in H : y.chunk = c /\ y.handle = Handle(r, k)
        BY <4>2 DEF Has
      <4>4. y.handle.slot = k
        BY <4>3 DEF Handle
      <4>5. y # x
        BY <4>1, <4>4 DEF SlotOf
      <4> QED
        BY <4>3, <4>5 DEF Has
    <3> QED
      BY <1>9, <3>2 DEF ClaimedRun
  <2>5. \A y \in K : y.chunk = c /\ y.handle.run.off = p => BlockIn(y, runs, left)
    BY <2>2
  <2>6. \A r \in runs : r.off = p => ClaimedRun(K, c, r, left)
    BY <2>4
  <2>7. CellHolders(H, K, c, p, runs, left)
    BY <2>1, <2>3, <2>5, <2>6 DEF CellHolders
  <2> QED
    BY <1>1, <1>3, <1>12, <2>7, CellBlocks
<1> QED
  BY <1>13, <1>14, <1>15 DEF MemoryOK

(* free() of a slot whose subpage goes, and its run with it. *)
SubpageFreed(c, run, p, s, slot) ==
    /\ s.bits \ {slot} = {} /\ ~isFull(s)
    /\ inUse' = [inUse EXCEPT ![c] = inUse[c] \ {run}]
    /\ subpages' = [subpages EXCEPT ![c][p] = NoSubpage]
    /\ pools' = [pools EXCEPT ![s.class] = Unlinked(@, <<c, p>>)]

(* free() of the last slot in use: the run of the subpage is freed too.    *)
LEMMA FreeEnds ==
    ASSUME NEW H, MemoryOK(H), NEW x \in H, NEW c, NEW run, NEW p, NEW s, NEW slot,
           SlotOf(x, c, run, p, s, slot), SubpageFreed(c, run, p, s, slot), NEW K, K = H \ {x}
    PROVE  MemoryOK(K)' /\ inUse'[c] \subseteq inUse[c]
<1>1. /\ c \in Chunks /\ run \in inUse[c] /\ p \in Pages /\ x.handle = Handle(run, slot)
      /\ SubpageIn(s, p, inUse[c]) /\ s # NoSubpage /\ slot \in s.bits
      /\ p = run.off /\ s = subpages[c][p]
  <2>1. c = x.chunk /\ run = x.handle.run /\ p = run.off /\ s = subpages[c][run.off]
         /\ slot = x.handle.slot /\ s # NoSubpage
    BY DEF SlotOf
  <2> QED
    BY <2>1, TheBlock
<1>2. PICK runs, i : runs = inUse[c] \ {run} /\ i = s.class
  OBVIOUS
<1>3. RunsOK /\ SubpagesOK /\ BlocksOK(H) /\ ClaimedOK(H) /\ PoolsOK
  BY DEF MemoryOK
<1>4. RunsApart(inUse[c]) /\ RunsApart(runs)
  BY <1>1, <1>2, <1>3 DEF RunsOK, RunsApart
<1>5. i \in Classes /\ s.bits = {slot}
  BY <1>1, <1>2 DEF SubpageIn, SubpageFreed
<1>6. /\ inUse' = [inUse EXCEPT ![c] = runs] /\ subpages' = [subpages EXCEPT ![c][p] = NoSubpage]
      /\ pools' = [pools EXCEPT ![i] = Unlinked(@, <<c, p>>)] /\ ~isFull(s)
  BY <1>2 DEF SubpageFreed
<1>7. CellChanges(c, p, runs, NoSubpage)
  <2>1. DOMAIN subpages = Chunks /\ \A d \in Chunks : DOMAIN subpages[d] = Pages
    BY <1>3 DEF SubpagesOK
  <2>2. DOMAIN subpages' = DOMAIN subpages /\ subpages'[c] = [subpages[c] EXCEPT ![p] = NoSubpage]
    BY <1>1, <1>6, <2>1
  <2>3. \A d \in Chunks : d # c => subpages'[d] = subpages[d]
    BY <1>6, <2>1
  <2>4. subpages'[c][p] = NoSubpage /\ DOMAIN subpages'[c] = Pages /\ \A q \in Pages : q # p
         => subpages'[c][q] = subpages[c][q]
    BY <1>1, <2>1, <2>2
  <2>5. /\ \A d \in Chunks : DOMAIN subpages'[d] = DOMAIN subpages[d]
        /\ \A d \in Chunks, q \in Pages : d # c \/ q # p => subpages'[d][q] = subpages[d][q]
    BY <1>1, <2>1, <2>3, <2>4
  <2>6. DOMAIN inUse' = DOMAIN inUse /\ inUse'[c] = runs /\ \A d \in Chunks : d # c
         => inUse'[d] = inUse[d]
    BY <1>1, <1>3, <1>6 DEF RunsOK
  <2>7. \A r : r.off # p => (r \in runs <=> r \in inUse[c])
    BY <1>1, <1>2
  <2> QED
    BY <2>2, <2>4, <2>5, <2>6, <2>7 DEF CellChanges
<1>8. RunsOK' /\ SubpagesOK'
  BY <1>1, <1>3, <1>4, <1>7, CellRuns
<1>9. PoolsOK'
  <2>1. PICK e, q, r, S : e = <<c, p>> /\ q = pools[i] /\ r = Unlinked(q, e) /\ S = Chunks \X Pages
    OBVIOUS
  <2>2. Listing(q, S)
    BY <1>3, <1>5, <2>1 DEF PoolsOK, PoolOK
  <2>3. Listing(r, S) /\ \A y : y \in ToSet(r) <=> y \in ToSet(q) /\ y # e
    BY <2>1, <2>2, UnlinkedIs
  <2>4. DOMAIN pools' = Classes /\ pools'[i] = r /\ \A j \in Classes : j # i => pools'[j] = pools[j]
    BY <1>3, <1>5, <1>6, <2>1 DEF PoolsOK
  <2>5. \A j : ~HasRoom(NoSubpage, j) /\ (j # i => ~HasRoom(s, j))
    BY <1>2 DEF HasRoom
  <2>6. Listing(pools'[i], Chunks \X Pages)
    BY <2>1, <2>3, <2>4
  <2>7. \A y : y # <<c, p>> => (y \in ToSet(pools'[i]) <=> y \in ToSet(pools[i]))
    BY <2>1, <2>3, <2>4
  <2>8. <<c, p>> \in ToSet(pools'[i]) <=> HasRoom(NoSubpage, i)
    BY <2>1, <2>3, <2>4, <2>5
  <2>9. PoolChanges(c, p, i, s, NoSubpage)
    BY <2>4, <2>5, <2>6, <2>7, <2>8 DEF PoolChanges
  <2> QED
    BY <1>1, <1>3, <1>5, <1>7, <2>9, CellPools
<1>10. BlocksOK(K)' /\ ClaimedOK(K)'
  <2>1. \A y : ~(y.chunk = c /\ y.handle.run.off = p) => (y \in K <=> y \in H)
    BY DEF SlotOf
  <2>2. ASSUME NEW y \in K, y.chunk = c, y.handle.run.off = p PROVE FALSE
    <3>1. /\ y \in H /\ y # x /\ x.chunk = y.chunk /\ x.handle.run.off = y.handle.run.off
          /\ s = subpages[x.chunk][x.handle.run.off] /\ slot = x.handle.slot
      BY <2>2 DEF SlotOf
    <3>2. y.handle.slot \in s.bits /\ y.handle.slot # slot
      BY <3>1, Neighbours
    <3> QED
      BY <1>5, <3>2
  <2>3. ASSUME NEW r \in runs, r.off = p PROVE FALSE
    <3>1. r = run
      BY <1>1, <1>2, <1>4, <2>3, OneRun
    <3> QED
      BY <1>2, <3>1
  <2>4. CellHolders(H, K, c, p, runs, NoSubpage)
    BY <2>1, <2>2, <2>3 DEF CellHolders
  <2> QED
    BY <1>1, <1>3, <1>7, <2>4, CellBlocks
<1>11. inUse'[c] \subseteq inUse[c]
  BY <1>1, <1>2, <1>3, <1>6 DEF RunsOK
<1> QED
  BY <1>8, <1>9, <1>10, <1>11 DEF MemoryOK

(* free(): the memory is in order without the block. *)
LEMMA FreeMemory ==
    ASSUME NEW H, MemoryOK(H), NEW x \in H, FreeChunk(x), NEW K, K = H \ {x}
    PROVE  /\ MemoryOK(K)' /\ x.chunk \in Chunks
           /\ inUse' = [inUse EXCEPT ![x.chunk] = inUse'[x.chunk]]
           /\ inUse'[x.chunk] \subseteq inUse[x.chunk]
           /\ x.handle.slot >= 0 => LET s == subpages[x.chunk][x.handle.run.off]
                                    IN s # NoSubpage /\ x.handle.slot \in s.bits
<1>1. PICK c, run, p, s, slot, i : /\ c = x.chunk /\ run = x.handle.run /\ p = run.off
            /\ s = subpages[c][p]
                                   /\ slot = x.handle.slot /\ i = size2sizeIdx(x.norm)
  OBVIOUS
<1>2. /\ c \in Chunks /\ run \in inUse[c]
      /\ \/ slot = -1 /\ s = NoSubpage
         \/ s # NoSubpage /\ s.class = i /\ slot \in s.bits /\ slot \in Nat
  BY <1>1, TheBlock
<1>3. DOMAIN inUse = Chunks
  BY DEF MemoryOK, RunsOK
<1>4. \E runs : inUse' = [inUse EXCEPT ![c] = runs]
  BY <1>1 DEF FreeChunk
<1>5. inUse' = [inUse EXCEPT ![c] = inUse'[c]]
  BY <1>2, <1>3, <1>4
<1>6. CASE slot = -1
  <2>1. MemoryOK(K)' /\ inUse'[c] \subseteq inUse[c]
    BY <1>1, <1>6, FreeRun
  <2> QED
    BY <1>1, <1>2, <1>5, <1>6, <2>1
<1>7. CASE slot # -1
  <2>1. s # NoSubpage /\ s.class = i /\ slot \in s.bits /\ slot \in Nat /\ ~(slot < 0)
    BY <1>2, <1>7
  <2>2. PICK left : left = [s EXCEPT !.bits = @ \ {slot}, !.nextAvail = slot]
    OBVIOUS
  <2>3. PICK ends \in BOOLEAN : ends = releases(i, s, left)
    BY DEF releases
  <2>4. SlotOf(x, c, run, p, s, slot)
    BY <1>1, <2>1 DEF SlotOf
  <2>5. /\ inUse' = [inUse EXCEPT ![c] = IF ends THEN inUse[c] \ {run} ELSE inUse[c]]
        /\ subpages' = [subpages EXCEPT ![c][p] = IF ends THEN NoSubpage ELSE left]
        /\ pools' = IF isFull(s) THEN [pools EXCEPT ![i] = <<<<c, p>>>> \o @]
                    ELSE IF ends THEN [pools EXCEPT ![i] = Unlinked(@, <<c, p>>)]
                    ELSE pools
    BY <1>1, <2>1, <2>2, <2>3 DEF FreeChunk
  <2>6. CASE ends
    <3>1. ~isFull(s) /\ left.bits = {}
      BY <2>3, <2>6 DEF releases
    <3>2. s.bits \ {slot} = {}
      <4>1. SubpageIn(s, p, inUse[c])
        BY <1>1, <2>1, TheBlock
      <4>2. left.bits = s.bits \ {slot}
        BY <2>2, <4>1 DEF SubpageIn
      <4> QED
        BY <3>1, <4>2
    <3>3. SubpageFreed(c, run, p, s, slot)
      BY <2>1, <2>5, <2>6, <3>1, <3>2 DEF SubpageFreed
    <3>4. MemoryOK(K)' /\ inUse'[c] \subseteq inUse[c]
      BY <2>4, <3>3, FreeEnds
    <3> QED
      BY <1>1, <1>2, <1>5, <2>1, <3>4
  <2>7. CASE ~ends
    <3>1. DOMAIN inUse' = DOMAIN inUse /\ \A d \in Chunks : inUse'[d] = inUse[d]
      <4>1. inUse' = [inUse EXCEPT ![c] = inUse[c]]
        BY <2>5, <2>7
      <4> QED
        BY <1>3, <4>1
    <3>2. SlotFreed(c, p, s, slot, left, i)
      BY <2>1, <2>2, <2>5, <2>7, <3>1 DEF SlotFreed
    <3>3. MemoryOK(K)'
      BY <2>4, <3>2, FreeSlot
    <3> QED
      BY <1>1, <1>2, <1>5, <2>1, <3>1, <3>3
  <2> QED
    BY <2>6, <2>7
<1> QED
  BY <1>6, <1>7

(* getNextAvail(): a slot that is clear. *)
LEMMA NextSlot ==
    ASSUME NEW s, NEW p, NEW runs, SubpageIn(s, p, runs), ~isFull(s)
    PROVE  nextSlot(s) \in Slots(s.class) \ s.bits
<1>1. s.class \in Classes /\ s.bits \subseteq Slots(s.class) /\ s.nextAvail \in Int
  BY DEF SubpageIn
<1>2. PICK n : n = maxNumElems[s.class]
  OBVIOUS
<1>3. n \in Nat \ {0} /\ Slots(s.class) = 0..(n - 1)
  BY <1>1, <1>2, SlotsOfClass DEF Slots
<1>4. CASE s.nextAvail >= 0
  BY <1>4 DEF SubpageIn, nextSlot
<1>5. CASE ~(s.nextAvail >= 0)
  <2>1. PICK F : F = Slots(s.class) \ s.bits
    OBVIOUS
  <2>2. F # {}
    BY <1>1, <2>1, FullIs
  <2>3. F \in SUBSET Nat
    BY <1>3, <2>1
  <2>4. \E k \in F : \A j \in F : k <= j
    BY <2>2, <2>3, Least
  <2>9. PICK k \in F : \A j \in F : k <= j
    BY <2>4
  <2>5. k \in 0..(n - 1) /\ k \notin s.bits
    BY <1>3, <2>1, <2>9
  <2>6. ASSUME NEW j \in 0..(k - 1) PROVE j \in s.bits
    <3>1. j \in 0..(n - 1) /\ ~(k <= j)
      BY <1>3, <2>5
    <3> QED
      BY <1>3, <2>1, <2>9, <3>1
  <2>7. nextSlot(s) = CHOOSE m \in 0..(n - 1) : m \notin s.bits
         /\ \A j \in 0..(m - 1) : j \in s.bits
    BY <1>2, <1>5 DEF nextSlot
  <2>8. nextSlot(s) \in 0..(n - 1) /\ nextSlot(s) \notin s.bits
    BY <2>5, <2>6, <2>7
  <2> QED
    BY <1>3, <2>8
<1> QED
  BY <1>4, <1>5

(* A slot of a subpage is taken. *)
SlotTaken(c, p, i, s, k) ==
    /\ DOMAIN inUse' = DOMAIN inUse /\ \A d \in Chunks : inUse'[d] = inUse[d]
    /\ subpages' = [subpages EXCEPT ![c][p] = Taken(s, k)]
    /\ pools' = IF isFull(Taken(s, k)) THEN [pools EXCEPT ![i] = Unlinked(@, <<c, p>>)] ELSE pools

(* PoolSubpage::allocate(): a clear slot becomes a block. *)
LEMMA TakeMemory ==
    ASSUME NEW H, MemoryOK(H), NEW c \in Chunks, NEW p \in Pages, NEW s, s = subpages[c][p],
           s # NoSubpage,
           NEW i, i = s.class, NEW k \in Slots(i), k \notin s.bits, SlotTaken(c, p, i, s, k),
           NEW x, x.chunk = c, x.handle = Handle(RunAt(p, classPages[i]), k), OfClass(x, i), NEW K,
           K = H \cup {x}
    PROVE  MemoryOK(K)' /\ x \notin H
<1>1. PICK runs, u, run : runs = inUse[c] /\ u = Taken(s, k) /\ run = RunAt(p, classPages[i])
  OBVIOUS
<1>2. RunsOK /\ SubpagesOK /\ BlocksOK(H) /\ ClaimedOK(H) /\ PoolsOK
  BY DEF MemoryOK
<1>3. RunsApart(runs)
  BY <1>1, <1>2 DEF RunsOK
<1>4. /\ s = [class |-> i, bits |-> s.bits, nextAvail |-> s.nextAvail]
      /\ i \in Classes /\ i <= m_smallMaxSizeIdx /\ s.bits \subseteq Slots(i) /\ run \in runs
  BY <1>1, <1>2 DEF SubpagesOK, SubpageIn
<1>5. u = [class |-> i, bits |-> s.bits \cup {k}, nextAvail |-> -1]
  BY <1>1, <1>4 DEF Taken
<1>6. u.class = i /\ u.bits = s.bits \cup {k} /\ u.nextAvail = -1 /\ run.off = p
       /\ run.pages = classPages[i]
  BY <1>1, <1>5 DEF RunAt
<1>7. u # NoSubpage
  <2>1. i # -1
    BY <1>4, ClassesAssumption DEF Classes
  <2> QED
    BY <1>6, <2>1 DEF NoSubpage
<1>8. SubpageIn(u, p, runs)
  BY <1>1, <1>4, <1>5, <1>6 DEF SubpageIn
<1>9. ~isFull(s)
  BY <1>4, FullIs
<1>10. /\ DOMAIN inUse' = DOMAIN inUse /\ \A d \in Chunks : inUse'[d] = inUse[d]
       /\ subpages' = [subpages EXCEPT ![c][p] = u]
       /\ pools' = IF isFull(u) THEN [pools EXCEPT ![i] = Unlinked(@, <<c, p>>)] ELSE pools
  BY <1>1 DEF SlotTaken
<1>11. CellChanges(c, p, runs, u)
  <2>1. DOMAIN subpages = Chunks /\ \A d \in Chunks : DOMAIN subpages[d] = Pages
    BY <1>2 DEF SubpagesOK
  <2>2. DOMAIN subpages' = DOMAIN subpages /\ subpages'[c] = [subpages[c] EXCEPT ![p] = u]
    BY <1>10, <2>1
  <2>3. \A d \in Chunks : d # c => subpages'[d] = subpages[d]
    BY <1>10, <2>1
  <2>4. subpages'[c][p] = u /\ DOMAIN subpages'[c] = Pages /\ \A q \in Pages : q # p
         => subpages'[c][q] = subpages[c][q]
    BY <2>1, <2>2
  <2>5. /\ \A d \in Chunks : DOMAIN subpages'[d] = DOMAIN subpages[d]
        /\ \A d \in Chunks, q \in Pages : d # c \/ q # p => subpages'[d][q] = subpages[d][q]
    BY <2>1, <2>3, <2>4
  <2> QED
    BY <1>1, <1>10, <2>2, <2>4, <2>5 DEF CellChanges
<1>12. RunsOK' /\ SubpagesOK'
  BY <1>2, <1>3, <1>8, <1>11, CellRuns
<1>13. PoolsOK'
  <2>1. \A j : HasRoom(s, j) <=> j = i
    BY <1>9 DEF HasRoom
  <2>2. CASE isFull(u)
    <3>1. \A j : ~HasRoom(u, j)
      BY <2>2 DEF HasRoom
    <3>2. PICK e, q, r, S : e = <<c, p>> /\ q = pools[i] /\ r = Unlinked(q, e)
                /\ S = Chunks \X Pages
      OBVIOUS
    <3>3. Listing(q, S)
      BY <1>2, <1>4, <3>2 DEF PoolsOK, PoolOK
    <3>4. Listing(r, S) /\ \A y : y \in ToSet(r) <=> y \in ToSet(q) /\ y # e
      BY <3>2, <3>3, UnlinkedIs
    <3>5. DOMAIN pools' = Classes /\ pools'[i] = r /\ \A j \in Classes : j # i
           => pools'[j] = pools[j]
      BY <1>2, <1>4, <1>10, <2>2, <3>2 DEF PoolsOK
    <3>6. \A j \in Classes : j # i => ~HasRoom(s, j) /\ ~HasRoom(u, j)
      BY <2>1, <3>1
    <3>7. Listing(pools'[i], Chunks \X Pages)
      BY <3>2, <3>4, <3>5
    <3>8. \A y : y # <<c, p>> => (y \in ToSet(pools'[i]) <=> y \in ToSet(pools[i]))
      BY <3>2, <3>4, <3>5
    <3>9. <<c, p>> \in ToSet(pools'[i]) <=> HasRoom(u, i)
      BY <3>1, <3>2, <3>4, <3>5
    <3>10. PoolChanges(c, p, i, s, u)
      BY <3>5, <3>6, <3>7, <3>8, <3>9 DEF PoolChanges
    <3> QED
      BY <1>2, <1>4, <1>11, <3>10, CellPools
  <2>3. CASE ~isFull(u)
    <3>1. \A j : HasRoom(u, j) <=> j = i
      BY <1>6, <1>7, <2>3 DEF HasRoom
    <3>2. \A j \in Classes : HasRoom(u, j) <=> HasRoom(s, j)
      BY <2>1, <3>1
    <3>3. pools' = pools
      BY <1>10, <2>3
    <3> QED
      BY <1>2, <1>11, <3>2, <3>3, CellNoPool
  <2> QED
    BY <2>2, <2>3
<1>14. x.handle.run = run /\ x.handle.slot = k /\ x.handle = Handle(run, k)
  BY <1>1 DEF Handle
<1>15. ASSUME NEW y \in H, y.chunk = c, y.handle.run.off = p PROVE BlockIn(y, runs, s)
               /\ y.handle.slot \in s.bits
  <2>1. BlockIn(y, runs, s)
    BY <1>1, <1>2, <1>15 DEF BlocksOK
  <2> QED
    BY <2>1 DEF BlockIn
<1>16. \A y \in H : ~(y.chunk = x.chunk /\ y.handle = x.handle)
  BY <1>6, <1>14, <1>15
<1>17. x \notin H
  BY <1>16
<1>18. BlocksOK(K)' /\ ClaimedOK(K)'
  <2>1. \A y : ~(y.chunk = c /\ y.handle.run.off = p) => (y \in K <=> y \in H)
    BY <1>6, <1>14
  <2>2. ASSUME NEW y \in K, y.chunk = c, y.handle.run.off = p PROVE BlockIn(y, runs, u)
    <3>1. CASE y = x
      BY <1>4, <1>6, <1>7, <1>14, <3>1 DEF BlockIn
    <3>2. CASE y \in H
      <4>1. BlockIn(y, runs, s) /\ y.handle.slot \in s.bits
        BY <1>15, <2>2, <3>2
      <4>2. y.handle.slot \in u.bits
        BY <1>6, <4>1
      <4> QED
        BY <1>4, <1>6, <1>7, <4>1, <4>2 DEF BlockIn
    <3> QED
      BY <2>2, <3>1, <3>2
  <2>3. \A y, z \in K : y.chunk = c /\ y.handle.run.off = p /\ y.chunk = z.chunk
         /\ y.handle = z.handle => y = z
    <3>1. \A y, z \in H : y.chunk = z.chunk /\ y.handle = z.handle => y = z
      BY <1>2 DEF BlocksOK
    <3> QED
      BY <1>16, <3>1
  <2>4. ASSUME NEW r \in runs, r.off = p PROVE ClaimedRun(K, c, r, u)
    <3>1. r = run
      BY <1>3, <1>4, <1>6, <2>4, OneRun
    <3>2. ASSUME NEW j \in u.bits PROVE Has(K, c, r, j)
      <4>1. CASE j = k
        BY <1>14, <3>1, <4>1 DEF Has
      <4>2. CASE j # k
        <5>1. j \in s.bits
          BY <1>6, <3>2, <4>2
        <5>2. ClaimedRun(H, c, r, s)
          BY <1>1, <1>2, <2>4 DEF ClaimedOK
        <5>3. Has(H, c, r, j)
          BY <5>1, <5>2 DEF ClaimedRun
        <5> QED
          BY <5>3 DEF Has
      <4> QED
        BY <4>1, <4>2
    <3> QED
      BY <1>7, <3>2 DEF ClaimedRun
  <2>5. \A y \in K : y.chunk = c /\ y.handle.run.off = p => BlockIn(y, runs, u)
    BY <2>2
  <2>6. \A r \in runs : r.off = p => ClaimedRun(K, c, r, u)
    BY <2>4
  <2>7. CellHolders(H, K, c, p, runs, u)
    BY <2>1, <2>3, <2>5, <2>6 DEF CellHolders
  <2> QED
    BY <1>2, <1>11, <2>7, CellBlocks
<1> QED
  BY <1>12, <1>13, <1>17, <1>18 DEF MemoryOK

(* PoolChunk::allocate(): the run comes out of a gap that is long enough.  *)
LEMMA FitsRun ==
    ASSUME NEW runs, RunsApart(runs), NEW pages \in 1..nPages, NEW g \in BestFits(runs, pages),
           NEW run, run = RunAt(g.off, pages)
    PROVE  /\ run \in Run /\ run \notin runs /\ run.off \in Pages /\ run.pages = pages
               /\ run.off = g.off
           /\ \A r \in runs : r.off # run.off
           /\ RunsApart(runs \cup {run})
<1>1. g \in Run /\ (\A r \in runs : ~Overlap(g, r))
       /\ page2pageIdx(pages) <= page2pageIdxFloor(g.pages)
  BY DEF BestFits, Gaps
<1>2. nPages \in Nat \ {0} /\ g.off \in 0..(nPages - 1) /\ g.pages \in 1..nPages
       /\ g.off + g.pages <= nPages
  BY <1>1, PagesAssumption DEF Run
<1>3. pages <= g.pages
  BY <1>1, <1>2, PagesAssumption
<1>4. run.off = g.off /\ run.pages = pages /\ run = [off |-> g.off, pages |-> pages]
  BY DEF RunAt
<1>5. run \in Run
  BY <1>2, <1>3, <1>4 DEF Run
<1>6. ASSUME NEW r \in runs PROVE ~Overlap(run, r) /\ ~Overlap(r, run) /\ r.off # run.off
  <2>1. ~Overlap(g, r) /\ r.off \in 0..(nPages - 1) /\ r.pages \in 1..nPages
    BY <1>1 DEF RunsApart, Run
  <2> QED
    BY <1>2, <1>3, <1>4, <2>1 DEF Overlap, end
<1>7. RunsApart(runs \cup {run})
  <2>1. \A r \in runs : r.off # run.off
    BY <1>6
  <2> QED
    BY <1>5, <1>6, <2>1 DEF RunsApart
<1> QED
  BY <1>2, <1>4, <1>5, <1>6, <1>7 DEF Pages

(* Where no run begins there is no subpage and no block. *)
LEMMA NothingThere ==
    ASSUME NEW H, MemoryOK(H), NEW c \in Chunks, NEW p \in Pages, \A r \in inUse[c] : r.off # p
    PROVE  /\ subpages[c][p] = NoSubpage
           /\ \A x \in H : ~(x.chunk = c /\ x.handle.run.off = p)
<1>1. PICK s : s = subpages[c][p]
  OBVIOUS
<1>2. s = NoSubpage \/ SubpageIn(s, p, inUse[c])
  BY <1>1 DEF MemoryOK, SubpagesOK
<1>3. ASSUME SubpageIn(s, p, inUse[c]) PROVE FALSE
  <2>1. PICK r \in inUse[c] : r = RunAt(p, classPages[s.class])
    BY <1>3 DEF SubpageIn
  <2> QED
    BY <2>1 DEF RunAt
<1>4. ASSUME NEW x \in H, x.chunk = c, x.handle.run.off = p PROVE FALSE
  <2>1. BlockIn(x, inUse[c], s)
    BY <1>1, <1>4 DEF MemoryOK, BlocksOK
  <2> QED
    BY <1>4, <2>1 DEF BlockIn
<1> QED
  BY <1>1, <1>2, <1>3, <1>4

(* A run for a block of a normal class. *)
LEMMA NewRun ==
    ASSUME NEW H, MemoryOK(H), NEW c \in Chunks, NEW i \in Classes,
           NEW g \in BestFits(inUse[c], classPages[i]), NEW run, run = RunAt(g.off, classPages[i]),
           inUse' = [inUse EXCEPT ![c] = @ \cup {run}], UNCHANGED <<subpages, pools>>,
           NEW x, x.chunk = c, x.handle = Handle(run, -1), OfClass(x, i), NEW K, K = H \cup {x}
    PROVE  MemoryOK(K)' /\ x \notin H
<1>1. PICK p, runs : p = run.off /\ runs = inUse[c] \cup {run}
  OBVIOUS
<1>2. RunsOK /\ SubpagesOK /\ BlocksOK(H) /\ ClaimedOK(H) /\ PoolsOK
  BY DEF MemoryOK
<1>3. RunsApart(inUse[c]) /\ classPages[i] \in 1..nPages
  BY <1>2, SlotsOfClass DEF RunsOK
<1>4. p \in Pages /\ run.pages = classPages[i] /\ (\A r \in inUse[c] : r.off # p) /\ RunsApart(runs)
  BY <1>1, <1>3, FitsRun
<1>5. subpages[c][p] = NoSubpage /\ \A y \in H : ~(y.chunk = c /\ y.handle.run.off = p)
  BY <1>4, NothingThere
<1>6. CellChanges(c, p, runs, NoSubpage)
  <2>1. DOMAIN inUse' = DOMAIN inUse /\ inUse'[c] = runs /\ \A d \in Chunks : d # c
         => inUse'[d] = inUse[d]
    BY <1>1, <1>2 DEF RunsOK
  <2>2. \A r : r.off # p => (r \in runs <=> r \in inUse[c])
    BY <1>1
  <2> QED
    BY <1>5, <2>1, <2>2 DEF CellChanges
<1>7. RunsOK' /\ SubpagesOK'
  BY <1>2, <1>4, <1>6, CellRuns
<1>8. PoolsOK'
  BY <1>2, <1>4, <1>5, <1>6, CellNoPool
<1>9. x.handle.run = run /\ x.handle.slot = -1
  BY DEF Handle
<1>10. x \notin H
  BY <1>1, <1>5, <1>9
<1>11. BlocksOK(K)' /\ ClaimedOK(K)'
  <2>1. \A y : ~(y.chunk = c /\ y.handle.run.off = p) => (y \in K <=> y \in H)
    BY <1>1, <1>9
  <2>2. \A y \in K : y.chunk = c /\ y.handle.run.off = p => y = x
    BY <1>5
  <2>3. BlockIn(x, runs, NoSubpage)
    BY <1>1, <1>4, <1>9 DEF BlockIn
  <2>4. \A y \in K : y.chunk = c /\ y.handle.run.off = p => BlockIn(y, runs, NoSubpage)
    BY <2>2, <2>3
  <2>5. \A y, z \in K : y.chunk = c /\ y.handle.run.off = p /\ y.chunk = z.chunk
         /\ y.handle = z.handle => y = z
    BY <2>2
  <2>6. ASSUME NEW r \in runs, r.off = p PROVE ClaimedRun(K, c, r, NoSubpage)
    <3>1. r = run
      BY <1>1, <1>4, <2>6
    <3>2. Has(K, c, run, -1)
      BY DEF Has
    <3> QED
      BY <3>1, <3>2 DEF ClaimedRun
  <2>7. \A r \in runs : r.off = p => ClaimedRun(K, c, r, NoSubpage)
    BY <2>6
  <2>8. CellHolders(H, K, c, p, runs, NoSubpage)
    BY <2>1, <2>4, <2>5, <2>7 DEF CellHolders
  <2> QED
    BY <1>2, <1>4, <1>6, <2>8, CellBlocks
<1> QED
  BY <1>7, <1>8, <1>10, <1>11 DEF MemoryOK

(* A subpage from its construction to its first slot. *)
FreshSubpage(i) == [class |-> i, bits |-> {}, nextAvail |-> 0]

(* A run for a subpage, which is in its pool and has no block yet. *)
LEMMA NewSubpage ==
    ASSUME NEW H, MemoryOK(H), NEW c \in Chunks, NEW i \in Classes, i <= m_smallMaxSizeIdx,
           NEW g \in BestFits(inUse[c], classPages[i]), NEW run, run = RunAt(g.off, classPages[i]),
           inUse' = [inUse EXCEPT ![c] = @ \cup {run}],
           subpages' = [subpages EXCEPT ![c][g.off] = FreshSubpage(i)],
           pools' = [pools EXCEPT ![i] = <<<<c, g.off>>>> \o @]
    PROVE  MemoryOK(H)' /\ g.off \in Pages /\ subpages[c][g.off] = NoSubpage
<1>1. PICK p, runs, s : p = g.off /\ runs = inUse[c] \cup {run} /\ s = FreshSubpage(i)
  OBVIOUS
<1>2. RunsOK /\ SubpagesOK /\ BlocksOK(H) /\ ClaimedOK(H) /\ PoolsOK
  BY DEF MemoryOK
<1>3. RunsApart(inUse[c]) /\ classPages[i] \in 1..nPages
  BY <1>2, SlotsOfClass DEF RunsOK
<1>4. p \in Pages /\ run.off = p /\ run.pages = classPages[i] /\ (\A r \in inUse[c] : r.off # p)
       /\ RunsApart(runs)
  BY <1>1, <1>3, FitsRun
<1>5. subpages[c][p] = NoSubpage /\ \A y \in H : ~(y.chunk = c /\ y.handle.run.off = p)
  BY <1>4, NothingThere
<1>6. s.class = i /\ s.bits = {} /\ s.nextAvail = 0
       /\ s = [class |-> i, bits |-> {}, nextAvail |-> 0]
  BY <1>1 DEF FreshSubpage
<1>7. s # NoSubpage
  <2>1. i # -1
    BY ClassesAssumption DEF Classes
  <2> QED
    BY <1>6, <2>1 DEF NoSubpage
<1>8. 0 \in Slots(i) /\ ~isFull(s)
  <2>1. 0 \in Slots(i)
    BY SlotsOfClass DEF Slots
  <2> QED
    BY <1>6, <2>1, FullIs
<1>9. SubpageIn(s, p, runs)
  BY <1>1, <1>4, <1>6, <1>8 DEF SubpageIn
<1>10. CellChanges(c, p, runs, s)
  <2>1. DOMAIN subpages = Chunks /\ \A d \in Chunks : DOMAIN subpages[d] = Pages
    BY <1>2 DEF SubpagesOK
  <2>2. DOMAIN subpages' = DOMAIN subpages /\ subpages'[c] = [subpages[c] EXCEPT ![p] = s]
    BY <1>1, <2>1
  <2>3. \A d \in Chunks : d # c => subpages'[d] = subpages[d]
    BY <2>1
  <2>4. subpages'[c][p] = s /\ DOMAIN subpages'[c] = Pages /\ \A q \in Pages : q # p
         => subpages'[c][q] = subpages[c][q]
    BY <1>4, <2>1, <2>2
  <2>5. /\ \A d \in Chunks : DOMAIN subpages'[d] = DOMAIN subpages[d]
        /\ \A d \in Chunks, q \in Pages : d # c \/ q # p => subpages'[d][q] = subpages[d][q]
    BY <2>1, <2>3, <2>4
  <2>6. DOMAIN inUse' = DOMAIN inUse /\ inUse'[c] = runs /\ \A d \in Chunks : d # c
         => inUse'[d] = inUse[d]
    BY <1>1, <1>2 DEF RunsOK
  <2>7. \A r : r.off # p => (r \in runs <=> r \in inUse[c])
    BY <1>1, <1>4
  <2> QED
    BY <2>2, <2>4, <2>5, <2>6, <2>7 DEF CellChanges
<1>11. RunsOK' /\ SubpagesOK'
  BY <1>2, <1>4, <1>9, <1>10, CellRuns
<1>12. PoolsOK'
  <2>1. PICK e, q, r, S : e = <<c, p>> /\ q = pools[i] /\ r = <<e>> \o q /\ S = Chunks \X Pages
    OBVIOUS
  <2>2. \A j : ~HasRoom(NoSubpage, j)
    BY DEF HasRoom
  <2>3. \A j : HasRoom(s, j) <=> j = i
    BY <1>6, <1>7, <1>8 DEF HasRoom
  <2>4. Listing(q, S) /\ e \in S /\ e \notin ToSet(q)
    BY <1>2, <1>4, <1>5, <2>1, <2>2 DEF PoolsOK, PoolOK
  <2>5. r = <<e>> \o q
    BY <2>1
  <2>6. Listing(r, S) /\ \A y : y \in ToSet(r) <=> y = e \/ y \in ToSet(q)
    BY <2>4, <2>5, Linked
  <2>7. DOMAIN pools' = Classes /\ pools'[i] = r /\ \A j \in Classes : j # i => pools'[j] = pools[j]
    BY <1>1, <1>2, <2>1 DEF PoolsOK
  <2>8. Listing(pools'[i], Chunks \X Pages)
    BY <2>1, <2>6, <2>7
  <2>9. \A y : y # <<c, p>> => (y \in ToSet(pools'[i]) <=> y \in ToSet(pools[i]))
    BY <2>1, <2>6, <2>7
  <2>10. <<c, p>> \in ToSet(pools'[i]) <=> HasRoom(s, i)
    BY <2>1, <2>3, <2>6, <2>7
  <2>11. PoolChanges(c, p, i, NoSubpage, s)
    BY <2>2, <2>3, <2>7, <2>8, <2>9, <2>10 DEF PoolChanges
  <2> QED
    BY <1>2, <1>4, <1>5, <1>10, <2>11, CellPools
<1>13. BlocksOK(H)' /\ ClaimedOK(H)'
  <2>1. ClaimedRun(H, c, run, s)
    BY <1>6, <1>7 DEF ClaimedRun
  <2>2. \A r \in runs : r.off = p => ClaimedRun(H, c, r, s)
    BY <1>1, <1>4, <2>1
  <2>3. CellHolders(H, H, c, p, runs, s)
    BY <1>5, <2>2 DEF CellHolders
  <2> QED
    BY <1>2, <1>4, <1>10, <2>3, CellBlocks
<1> QED
  BY <1>1, <1>4, <1>5, <1>11, <1>12, <1>13 DEF MemoryOK

-----------------------------------------------------------------------------
(* The lists of chunks. *)
LEMMA ChunkSize == m_chunkSize \in Nat \ {0}
<1>1. nPages \in Nat \ {0} /\ pageSize \in Nat \ {0} /\ m_chunkSize = nPages * pageSize
  BY ChunksAssumption, PagesAssumption
<1>2. PICK a, b : a = nPages /\ b = pageSize
  OBVIOUS
<1>3. a \in Nat \ {0} /\ b \in Nat \ {0} /\ m_chunkSize = a * b
  BY <1>1, <1>2
<1>4. a * b \in Nat /\ a * b # 0
  BY <1>3
<1> QED
  BY <1>3, <1>4

(* The free bytes of a chunk: all of them when it has no run.              *)
LEMMA FreeBytes ==
    ASSUME NEW runs, runs \subseteq Run
    PROVE  /\ freeBytes(runs) \in 0..m_chunkSize
           /\ freeBytes(runs) = m_chunkSize => runs = {}
           /\ \A more : runs \subseteq more /\ more \subseteq Run
               => freeBytes(more) <= freeBytes(runs)
<1>1. nPages \in Nat \ {0} /\ pageSize \in Nat \ {0} /\ m_chunkSize = nPages * pageSize
  BY ChunksAssumption, PagesAssumption
<1>2. IsFiniteSet(Pages) /\ Cardinality(Pages) = nPages
  <2>1. 0 \in Int /\ nPages - 1 \in Int
    BY <1>1
  <2>2. IsFiniteSet(0..(nPages - 1))
         /\ Cardinality(0..(nPages - 1)) = IF 0 <= nPages - 1 THEN (nPages - 1) - 0 + 1 ELSE 0
    BY <1>1, <2>1, FS_Interval
  <2> QED
    BY <1>1, <2>2 DEF Pages
<1>3. ASSUME NEW some, some \subseteq Run
      PROVE  /\ Covered(some) \subseteq Pages /\ IsFiniteSet(Covered(some))
             /\ Cardinality(Covered(some)) \in 0..nPages
  <2>1. \A r \in some : pagesOf(r) \subseteq Pages
    BY <1>1, <1>3 DEF pagesOf, end, Run, Pages
  <2>2. Covered(some) \subseteq Pages
    BY <2>1 DEF Covered
  <2>3. IsFiniteSet(Covered(some)) /\ Cardinality(Covered(some)) <= Cardinality(Pages)
    BY <1>2, <2>2, FS_Subset
  <2>4. Cardinality(Covered(some)) \in Nat
    BY <2>3, FS_CardinalityType
  <2> QED
    BY <1>1, <1>2, <2>2, <2>3, <2>4
<1>4. PICK a, b : a = nPages /\ b = pageSize
  OBVIOUS
<1>5. a \in Nat \ {0} /\ b \in Nat \ {0} /\ m_chunkSize = a * b
  BY <1>1, <1>4
<1>6. PICK n : n = Cardinality(Covered(runs))
  OBVIOUS
<1>7. n \in 0..a /\ freeBytes(runs) = (a - n) * b
  BY <1>3, <1>4, <1>6 DEF freeBytes
<1>8. (a - n) * b \in 0..(a * b)
  <2>1. PICK d : d = a - n
    OBVIOUS
  <2>2. d \in Nat /\ d <= a
    BY <1>5, <1>7, <2>1
  <2>3. d * b >= 0 /\ d * b <= a * b /\ d * b \in Int /\ a * b \in Int
    BY <1>5, <2>2
  <2> QED
    BY <2>1, <2>3
<1>9. ASSUME freeBytes(runs) = m_chunkSize PROVE runs = {}
  <2>1. n = 0
    <3>1. PICK d : d = a - n
      OBVIOUS
    <3>2. d \in Nat /\ d * b = a * b
      BY <1>5, <1>7, <1>9, <3>1
    <3>3. d < a => d * b < a * b
      BY <1>5, <3>2
    <3>4. d >= a
      BY <1>5, <3>2, <3>3
    <3> QED
      BY <1>5, <1>7, <3>1, <3>4
  <2>2. Covered(runs) = {}
    BY <1>3, <1>6, <2>1, FS_EmptySet
  <2>3. \A r \in runs : r.off \in pagesOf(r)
    BY <1>1 DEF pagesOf, end, Run
  <2> QED
    BY <2>2, <2>3 DEF Covered
<1>10. ASSUME NEW more, runs \subseteq more,
              more \subseteq Run PROVE freeBytes(more) <= freeBytes(runs)
  <2>1. PICK m : m = Cardinality(Covered(more))
    OBVIOUS
  <2>2. Covered(runs) \subseteq Covered(more) /\ IsFiniteSet(Covered(more))
    BY <1>3, <1>10 DEF Covered
  <2>3. n <= m /\ m \in 0..a
    BY <1>3, <1>4, <1>6, <1>10, <2>1, <2>2, FS_Subset
  <2>4. freeBytes(more) = (a - m) * b
    BY <1>4, <2>1 DEF freeBytes
  <2>5. PICK d, e : d = a - n /\ e = a - m
    OBVIOUS
  <2>6. d \in Nat /\ e \in Nat /\ e <= d
    BY <1>5, <1>7, <2>3, <2>5
  <2>7. e * b <= d * b
    BY <1>5, <2>6
  <2> QED
    BY <1>7, <2>4, <2>5, <2>7
<1> QED
  BY <1>5, <1>7, <1>8, <1>9, <1>10

(* The bounds of the lists overlap, and what moves a chunk down is more    *)
(* than the assertions of move() ask for.                                  *)
LEMMA Thresholds ==
    /\ \A l \in Lists : freeMinThreshold(l) \in Int /\ freeMaxThreshold(l) \in Int
    /\ \A l \in 0..4 : freeMinThreshold(l) <= freeMaxThreshold(l + 1)
    /\ freeMaxThreshold(0) >= m_chunkSize /\ freeMaxThreshold(1) = m_chunkSize - 1
    /\ freeMinThreshold(5) = -1
<1>1. PICK n : n = m_chunkSize
  OBVIOUS
<1>2. n \in Nat \ {0}
  BY <1>1, ChunkSize
<1>3. \A p \in Int : percentBytes(p) = (n * (101 - p) - 1) \div 100
  BY <1>1 DEF percentBytes
<1>4. /\ percentBytes(0) = (n * 101 - 1) \div 100 /\ percentBytes(1) = (n * 100 - 1) \div 100
      /\ percentBytes(25) = (n * 76 - 1) \div 100 /\ percentBytes(50) = (n * 51 - 1) \div 100
      /\ percentBytes(75) = (n * 26 - 1) \div 100
  BY <1>3
<1>5. /\ freeMinThreshold(0) = percentBytes(25) /\ freeMinThreshold(1) = percentBytes(50)
      /\ freeMinThreshold(2) = percentBytes(75) /\ freeMinThreshold(3) = 0
      /\ freeMinThreshold(4) = 0 /\ freeMinThreshold(5) = -1
  BY DEF freeMinThreshold, maxUsage
<1>6. /\ freeMaxThreshold(0) = percentBytes(0) /\ freeMaxThreshold(1) = percentBytes(1)
      /\ freeMaxThreshold(2) = percentBytes(25) /\ freeMaxThreshold(3) = percentBytes(50)
      /\ freeMaxThreshold(4) = percentBytes(75) /\ freeMaxThreshold(5) = 0
  BY DEF freeMaxThreshold, minUsage
<1>7. \A l : l \in Lists <=> l = 0 \/ l = 1 \/ l = 2 \/ l = 3 \/ l = 4 \/ l = 5
  BY DEF Lists
<1>8. /\ percentBytes(0) \in Int /\ percentBytes(1) = n - 1 /\ percentBytes(25) \in Int
      /\ percentBytes(50) \in Int /\ percentBytes(75) \in Int /\ percentBytes(0) >= n
      /\ percentBytes(25) <= percentBytes(1) /\ percentBytes(50) <= percentBytes(25)
      /\ percentBytes(75) <= percentBytes(50) /\ 0 <= percentBytes(75)
  BY <1>2, <1>4
<1>9. \A l \in Lists : freeMinThreshold(l) \in Int /\ freeMaxThreshold(l) \in Int
  BY <1>5, <1>6, <1>7, <1>8, <1>2
<1>10. \A l \in 0..4 : freeMinThreshold(l) <= freeMaxThreshold(l + 1)
  <2>1. \A l \in 0..4 : l = 0 \/ l = 1 \/ l = 2 \/ l = 3 \/ l = 4
    OBVIOUS
  <2>2. /\ freeMinThreshold(0) <= freeMaxThreshold(1) /\ freeMinThreshold(1) <= freeMaxThreshold(2)
        /\ freeMinThreshold(2) <= freeMaxThreshold(3) /\ freeMinThreshold(3) <= freeMaxThreshold(4)
        /\ freeMinThreshold(4) <= freeMaxThreshold(5)
    BY <1>5, <1>6, <1>8
  <2> QED
    BY <2>1, <2>2
<1> QED
  BY <1>1, <1>5, <1>6, <1>8, <1>9, <1>10

(* What moves below a list is less used than that list asks for. *)
LEMMA UsageBelow ==
    ASSUME NEW k \in 1..4, NEW free \in 0..m_chunkSize, free > freeMaxThreshold(k + 1)
    PROVE  usage(free) < maxUsage(k)
<1>1. PICK n : n = m_chunkSize
  OBVIOUS
<1>2. n \in Nat \ {0} /\ free \in 0..n /\ free * 100 \in Nat
  BY <1>1, ChunkSize
<1>3. PICK q : q = (free * 100) \div n
  OBVIOUS
<1>4. q \in Nat /\ q * n <= free * 100 /\ free * 100 < q * n + n
  BY <1>2, <1>3, Quotient
<1>5. usage(free) = IF free = 0 THEN 100 ELSE IF q = 0 THEN 99 ELSE 100 - q
  BY <1>1, <1>3 DEF usage
<1>6. /\ maxUsage(1) = 50 /\ maxUsage(2) = 75 /\ maxUsage(3) = 100 /\ maxUsage(4) = 100
  BY DEF maxUsage
<1>7. /\ freeMaxThreshold(2) = percentBytes(25) /\ freeMaxThreshold(3) = percentBytes(50)
      /\ freeMaxThreshold(4) = percentBytes(75) /\ freeMaxThreshold(5) = 0
  BY DEF freeMaxThreshold, minUsage
<1>8. /\ percentBytes(25) = (n * 76 - 1) \div 100 /\ percentBytes(50) = (n * 51 - 1) \div 100
      /\ percentBytes(75) = (n * 26 - 1) \div 100
  BY <1>1, <1>2 DEF percentBytes
<1>9. ASSUME NEW a \in 1..100, NEW b \in Nat, free * 100 >= n * a, b < a PROVE q > b
  <2>1. q * n + n > a * n
    BY <1>2, <1>4, <1>9
  <2>2. ASSUME q + 1 <= a PROVE FALSE
    <3>1. q * n + n <= a * n
      BY <1>2, <1>4, <2>2
    <3> QED
      BY <1>2, <1>4, <2>1, <3>1
  <2> QED
    BY <1>4, <1>9, <2>2
<1>10. CASE k = 1
  <2>1. free > (n * 76 - 1) \div 100
    BY <1>7, <1>8, <1>10
  <2>2. free * 100 >= n * 76
    BY <1>2, <2>1
  <2>3. q > 50
    BY <1>9, <2>2
  <2> QED
    BY <1>2, <1>4, <1>5, <1>6, <1>10, <2>2, <2>3
<1>11. CASE k = 2
  <2>1. free > (n * 51 - 1) \div 100
    BY <1>7, <1>8, <1>11
  <2>2. free * 100 >= n * 51
    BY <1>2, <2>1
  <2>3. q > 25
    BY <1>9, <2>2
  <2> QED
    BY <1>2, <1>4, <1>5, <1>6, <1>11, <2>2, <2>3
<1>12. CASE k = 3
  <2>1. free > (n * 26 - 1) \div 100
    BY <1>7, <1>8, <1>12
  <2>2. free * 100 >= n * 26
    BY <1>2, <2>1
  <2>3. q > 0
    BY <1>9, <2>2
  <2> QED
    BY <1>2, <1>4, <1>5, <1>6, <1>12, <2>2, <2>3
<1>13. CASE k = 4
  <2>1. free > 0
    BY <1>7, <1>13
  <2> QED
    BY <1>2, <1>4, <1>5, <1>6, <1>13, <2>1
<1> QED
  BY <1>10, <1>11, <1>12, <1>13

(* A list for a chunk with so many free bytes. *)
Suits(l, free) == freeMinThreshold(l) < free /\ free <= freeMaxThreshold(l)

(* The lists are six. *)
LEMMA ListKinds == \A l : l \in Lists <=> l \in Int /\ 0 <= l /\ l <= 5
BY DEF Lists

(* add(): there is a list to go to, and it suits the chunk. *)
LEMMA AddsTo ==
    ASSUME NEW l \in Lists, NEW free \in Nat, free <= freeMaxThreshold(l), NEW m,
           m = listAfterAdd(l, free)
    PROVE  m \in Lists /\ Suits(m, free)
<1>1. l \in Int /\ 0 <= l /\ l <= 5
  BY ListKinds
<1>2. PICK S : S = {k \in l..5 : free > freeMinThreshold(k)}
  OBVIOUS
<1>3. 5 \in S
  BY <1>1, <1>2, Thresholds
<1>4. S \in SUBSET Nat
  BY <1>1, <1>2
<1>5. PICK j \in S : \A k \in S : j <= k
  BY <1>3, <1>4, Least
<1>6. j \in l..5 /\ free > freeMinThreshold(j)
  BY <1>2, <1>5
<1>7. ASSUME NEW k \in l..(j - 1) PROVE free <= freeMinThreshold(k)
  <2>1. k \in l..5 /\ ~(j <= k)
    BY <1>1, <1>6
  <2>2. k \notin S
    BY <1>5, <2>1
  <2>3. k \in Lists
    BY <1>1, <2>1 DEF Lists
  <2>4. freeMinThreshold(k) \in Int
    BY <2>3, Thresholds
  <2> QED
    BY <1>2, <2>1, <2>2, <2>4
<1>8. m \in l..5 /\ free > freeMinThreshold(m) /\ \A k \in l..(m - 1) : free <= freeMinThreshold(k)
  <2>1. \E a \in l..5 : free > freeMinThreshold(a)
         /\ \A k \in l..(a - 1) : free <= freeMinThreshold(k)
    BY <1>6, <1>7
  <2> QED
    BY <2>1 DEF listAfterAdd
<1>9. m \in Lists
  BY <1>1, <1>8 DEF Lists
<1>10. free <= freeMaxThreshold(m)
  <2>1. CASE m = l
    BY <2>1
  <2>2. CASE m # l
    <3>1. PICK k : k = m - 1
      OBVIOUS
    <3>2. k \in l..(m - 1) /\ k \in 0..4 /\ k + 1 = m /\ k \in Lists
      BY <1>1, <1>8, <2>2, <3>1 DEF Lists
    <3>3. free <= freeMinThreshold(k) /\ freeMinThreshold(k) <= freeMaxThreshold(m)
      BY <1>8, <3>2, Thresholds
    <3>4. freeMinThreshold(k) \in Int /\ freeMaxThreshold(m) \in Int
      BY <1>9, <3>2, Thresholds
    <3> QED
      BY <3>3, <3>4
  <2> QED
    BY <2>1, <2>2
<1>11. freeMinThreshold(m) \in Int
  BY <1>9, Thresholds
<1> QED
  BY <1>8, <1>9, <1>10, <1>11 DEF Suits

(* A set of such numbers has a greatest one. *)
LEMMA Greatest ==
    ASSUME NEW S, S \subseteq 1..5, S # {}
    PROVE  \E m \in S : \A k \in S : k <= m
<1>1. \A k \in S : k = 1 \/ k = 2 \/ k = 3 \/ k = 4 \/ k = 5
  OBVIOUS
<1>2. CASE 5 \in S
  BY <1>1, <1>2
<1>3. CASE 5 \notin S /\ 4 \in S
  BY <1>1, <1>3
<1>4. CASE 5 \notin S /\ 4 \notin S /\ 3 \in S
  BY <1>1, <1>4
<1>5. CASE 5 \notin S /\ 4 \notin S /\ 3 \notin S /\ 2 \in S
  BY <1>1, <1>5
<1>6. CASE 5 \notin S /\ 4 \notin S /\ 3 \notin S /\ 2 \notin S /\ 1 \in S
  BY <1>1, <1>6
<1> QED
  BY <1>1, <1>2, <1>3, <1>4, <1>5, <1>6

(* The first list that move() passes through. *)
LEMMA MaxOne == \A m \in Int : Max({1, m}) \in Int /\ Max({1, m}) >= 1 /\ Max({1, m}) >= m
<1> TAKE m \in Int
<1>1. PICK S : S = {1, m}
  OBVIOUS
<1>2. \E x \in S : \A y \in S : x >= y
  <2>1. CASE m <= 1
    BY <1>1, <2>1
  <2>2. CASE ~(m <= 1)
    BY <1>1, <2>2
  <2> QED
    BY <2>1, <2>2
<1>3. Max(S) \in S /\ \A y \in S : Max(S) >= y
  BY <1>2 DEF Max
<1> QED
  BY <1>1, <1>3

(* free() and move0(): the list that a chunk goes down to suits it, one    *)
(* that is destroyed is wholly free, and no assertion of move() fails.     *)
LEMMA FreesTo ==
    ASSUME NEW l \in Lists, NEW free \in 0..m_chunkSize, freeMinThreshold(l) < free,
           NEW m, m = listAfterFree(l, free)
    PROVE  /\ m \in Lists \cup {NoList}
           /\ m \in Lists => Suits(m, free)
           /\ m = NoList => free = m_chunkSize /\ usage(free) = 0
           /\ \A k \in Max({1, m})..(l - 1) : usage(free) < maxUsage(k)
<1>1. l \in Int /\ 0 <= l /\ l <= 5 /\ free \in Nat /\ free <= m_chunkSize
       /\ m_chunkSize \in Nat \ {0}
  BY ListKinds, ChunkSize
<1>2. PICK S : S = {k \in 1..l : free <= freeMaxThreshold(k)}
  OBVIOUS
<1>3. m = IF l = 0 THEN 0 ELSE IF S = {} THEN NoList ELSE CHOOSE a \in S : \A k \in S : k <= a
  BY <1>2 DEF listAfterFree
<1>4. NoList = -1 /\ NoList \notin Lists
  BY DEF NoList, Lists
<1>5. CASE l = 0
  <2>1. m = 0 /\ m \in Lists
    BY <1>3, <1>5 DEF Lists
  <2>2. free <= freeMaxThreshold(0)
    <3>1. freeMaxThreshold(0) \in Int /\ freeMaxThreshold(0) >= m_chunkSize
      BY <2>1, Thresholds
    <3> QED
      BY <1>1, <3>1
  <2>3. \A k \in Max({1, m})..(l - 1) : FALSE
    <3>1. Max({1, 0}) \in Int /\ Max({1, 0}) >= 1
      BY MaxOne
    <3> QED
      BY <1>5, <2>1, <3>1
  <2> QED
    BY <1>4, <1>5, <2>1, <2>2, <2>3 DEF Suits
<1>6. CASE l # 0
  <2>1. \A k \in 1..l : k \in Lists /\ freeMaxThreshold(k) \in Int /\ freeMinThreshold(k) \in Int
    <3>1. \A k \in 1..l : k \in Lists
      BY <1>1 DEF Lists
    <3> QED
      BY <3>1, Thresholds
  <2>2. \/ S = {} /\ m = NoList
        \/ S # {} /\ m \in S /\ \A k \in S : k <= m
    <3>1. S \subseteq 1..5
      BY <1>1, <1>2
    <3>2. CASE S = {}
      BY <1>3, <1>6, <3>2
    <3>3. CASE S # {}
      <4>1. \E a \in S : \A k \in S : k <= a
        BY <3>1, <3>3, Greatest
      <4>2. m = CHOOSE a \in S : \A k \in S : k <= a
        BY <1>3, <1>6, <3>3
      <4> QED
        BY <3>3, <4>1, <4>2
    <3> QED
      BY <3>2, <3>3
  <2>3. m \in Int /\ (m = -1 \/ m \in 1..l)
    BY <1>1, <1>2, <1>4, <2>2
  <2>4. \A k \in 1..l : k > m => free > freeMaxThreshold(k)
    <3> SUFFICES ASSUME NEW k \in 1..l, k > m PROVE free > freeMaxThreshold(k)
      OBVIOUS
    <3>1. k \notin S
      BY <1>1, <2>2, <2>3
    <3> QED
      BY <1>1, <1>2, <2>1, <3>1
  <2>5. m \in Lists \cup {NoList}
    BY <1>4, <2>1, <2>3
  <2>6. ASSUME m \in Lists PROVE Suits(m, free)
    <3>1. m \in 1..l /\ free <= freeMaxThreshold(m)
      BY <1>2, <1>4, <2>2, <2>6
    <3>2. freeMinThreshold(m) < free
      <4>1. CASE m = l
        BY <4>1
      <4>2. CASE m # l
        <5>1. m + 1 \in 1..l /\ m + 1 > m /\ m \in 0..4
          BY <1>1, <3>1, <4>2
        <5>2. free > freeMaxThreshold(m + 1) /\ freeMinThreshold(m) <= freeMaxThreshold(m + 1)
          BY <2>4, <5>1, Thresholds
        <5>3. freeMaxThreshold(m + 1) \in Int /\ freeMinThreshold(m) \in Int
          BY <2>1, <3>1, <5>1
        <5> QED
          BY <1>1, <5>2, <5>3
      <4> QED
        BY <4>1, <4>2
    <3> QED
      BY <3>1, <3>2 DEF Suits
  <2>7. ASSUME m = NoList PROVE free = m_chunkSize /\ usage(free) = 0
    <3>1. 1 \in 1..l /\ 1 > m
      BY <1>1, <1>4, <1>6, <2>7
    <3>2. free > freeMaxThreshold(1)
      BY <2>4, <3>1
    <3>3. free = m_chunkSize
      BY <1>1, <3>2, Thresholds
    <3>4. PICK n : n = m_chunkSize
      OBVIOUS
    <3>5. n \in Nat \ {0}
      BY <1>1, <3>4
    <3>6. (n * 100) \div n = 100
      <4>1. PICK q : q = (n * 100) \div n
        OBVIOUS
      <4>2. n * 100 \in Nat
        BY <3>5
      <4>3. q \in Nat /\ q * n <= n * 100 /\ n * 100 < q * n + n
        BY <3>5, <4>1, <4>2, Quotient
      <4>4. q >= 101 => q * n >= 101 * n
        BY <3>5, <4>3
      <4>5. q <= 99 => q * n + n <= 100 * n
        BY <3>5, <4>3
      <4> QED
        BY <3>5, <4>1, <4>3, <4>4, <4>5
    <3>7. usage(n) = 0
      BY <3>4, <3>5, <3>6 DEF usage
    <3> QED
      BY <3>3, <3>4, <3>7
  <2>8. ASSUME NEW k \in Max({1, m})..(l - 1) PROVE usage(free) < maxUsage(k)
    <3>1. Max({1, m}) \in Int /\ Max({1, m}) >= 1 /\ Max({1, m}) >= m
      BY <2>3, MaxOne
    <3>2. k \in 1..4 /\ k + 1 \in 1..l /\ k + 1 > m
      BY <1>1, <2>3, <3>1
    <3>3. free > freeMaxThreshold(k + 1)
      BY <2>4, <3>2
    <3> QED
      BY <3>2, <3>3, UsageBelow
  <2> QED
    BY <1>4, <2>5, <2>6, <2>7, <2>8
<1> QED
  BY <1>5, <1>6

(* The lists of chunks are what m_parent says. *)
ListsOK ==
    /\ DOMAIN lists = Lists /\ DOMAIN parent = Chunks
    /\ \A c \in Chunks : parent[c] \in Lists \cup {NoList}
    /\ \A l \in Lists : Listing(lists[l], Chunks)
    /\ \A l \in Lists : \A c \in Chunks : c \in ToSet(lists[l]) <=> parent[c] = l

(* A chunk goes from one to the other. *)
LEMMA Relists ==
    ASSUME ListsOK, NEW c \in Chunks, NEW l, l = parent[c], NEW m \in Lists \cup {NoList},
           parent' = [parent EXCEPT ![c] = m], lists' = Relisted(c, l, m)
    PROVE  ListsOK'
<1>1. NoList \notin Lists
  BY DEF NoList, Lists
<1>2. /\ DOMAIN lists = Lists /\ DOMAIN parent = Chunks
      /\ l \in Lists \cup {NoList}
      /\ \A k \in Lists : Listing(lists[k], Chunks)
      /\ \A k \in Lists : \A d \in Chunks : d \in ToSet(lists[k]) <=> parent[d] = k
  BY DEF ListsOK
<1>3. /\ DOMAIN parent' = Chunks /\ parent'[c] = m /\ \A d \in Chunks : d # c
          => parent'[d] = parent[d]
      /\ \A d \in Chunks : parent'[d] \in Lists \cup {NoList}
  BY DEF ListsOK
<1>4. CASE l = m
  <2>1. lists' = lists /\ \A d \in Chunks : parent'[d] = parent[d]
    BY <1>3, <1>4 DEF Relisted
  <2> QED
    BY <1>2, <1>3, <2>1 DEF ListsOK, Listing
<1>5. CASE l # m
  <2>1. lists' = [k \in Lists |->
            IF k = m THEN <<c>> \o lists[k] ELSE IF k = l THEN Unlinked(lists[k], c) ELSE lists[k]]
    BY <1>5 DEF Relisted
  <2>2. ASSUME NEW k \in Lists
        PROVE  Listing(lists'[k], Chunks)
                /\ \A d \in Chunks : d \in ToSet(lists'[k]) <=> parent'[d] = k
    <3>1. PICK q, r : q = lists[k] /\ r = lists'[k]
      OBVIOUS
    <3>2. Listing(q, Chunks) /\ \A d \in Chunks : d \in ToSet(q) <=> parent[d] = k
      BY <1>2, <3>1
    <3>3. CASE k = m
      <4>1. r = <<c>> \o q
        BY <2>1, <3>1, <3>3
      <4>2. c \notin ToSet(q)
        BY <1>5, <3>2, <3>3
      <4>3. Listing(r, Chunks) /\ \A y : y \in ToSet(r) <=> y = c \/ y \in ToSet(q)
        BY <3>2, <4>1, <4>2, Linked
      <4> QED
        BY <1>3, <3>1, <3>2, <3>3, <4>3
    <3>4. CASE k # m /\ k = l
      <4>1. r = Unlinked(q, c)
        BY <2>1, <3>1, <3>4
      <4>2. Listing(r, Chunks) /\ \A y : y \in ToSet(r) <=> y \in ToSet(q) /\ y # c
        BY <3>2, <4>1, UnlinkedIs
      <4> QED
        BY <1>3, <3>1, <3>2, <3>4, <4>2
    <3>5. CASE k # m /\ k # l
      <4>1. r = q
        BY <2>1, <3>1, <3>5
      <4>2. c \notin ToSet(q)
        BY <3>2, <3>5
      <4> QED
        BY <1>3, <3>1, <3>2, <3>5, <4>1, <4>2
    <3> QED
      BY <3>3, <3>4, <3>5
  <2>3. DOMAIN lists' = Lists
    BY <2>1
  <2> QED
    BY <1>3, <2>2, <2>3 DEF ListsOK, Listing
<1> QED
  BY <1>4, <1>5

-----------------------------------------------------------------------------
(* The chunks.  A are the subpages being made: their runs are in use, but  *)
(* their chunk is not weighed yet.                                         *)
LiveOK(A) == \A c \in Chunks : parent[c] = NoList => \A r \in inUse[c] : <<c, r.off>> \in A

(* The free bytes of a chunk suit its list. *)
WeighedOK(A) == \A c \in Chunks : parent[c] # NoList =>
    /\ freeBytes(inUse[c]) <= freeMaxThreshold(parent[c])
    /\ (\A p \in Pages : <<c, p>> \notin A) => freeMinThreshold(parent[c]) < freeBytes(inUse[c])

(* The lists, what is in use of a chunk in none, and their bounds. *)
ChunksOK(A) == ListsOK /\ LiveOK(A) /\ WeighedOK(A)

(* A chunk whose runs have changed goes to a list that suits it. *)
LEMMA Weighs ==
    ASSUME RunsOK, NEW A, ChunksOK(A), NEW c \in Chunks, NEW runs, NEW m \in Lists \cup {NoList},
           inUse'[c] = runs, \A d \in Chunks : d # c => inUse'[d] = inUse[d],
           parent' = [parent EXCEPT ![c] = m], lists' = Relisted(c, parent[c], m),
           m = NoList => runs = {}, m # NoList => Suits(m, freeBytes(runs)),
           NEW B, \A d \in Chunks : d # c => \A p : <<d, p>> \in A => <<d, p>> \in B,
           \A d \in Chunks : d # c => \A p : <<d, p>> \in B => <<d, p>> \in A
    PROVE  ChunksOK(B)'
<1>1. ListsOK /\ DOMAIN parent = Chunks /\ LiveOK(A) /\ WeighedOK(A)
  BY DEF ChunksOK, ListsOK
<1>2. ListsOK'
  BY <1>1, Relists
<1>3. parent'[c] = m /\ \A d \in Chunks : d # c => parent'[d] = parent[d]
  BY <1>1
<1>4. LiveOK(B)'
  <2>1. ASSUME NEW d \in Chunks, parent'[d] = NoList, NEW r \in inUse'[d] PROVE <<d, r.off>> \in B
    <3>1. CASE d = c
      BY <1>3, <2>1, <3>1
    <3>2. CASE d # c
      <4>1. parent[d] = NoList /\ r \in inUse[d]
        BY <1>3, <2>1, <3>2
      <4>2. <<d, r.off>> \in A
        BY <1>1, <4>1 DEF LiveOK
      <4> QED
        BY <3>2, <4>2
    <3> QED
      BY <3>1, <3>2
  <2> QED
    BY <2>1 DEF LiveOK
<1>5. WeighedOK(B)'
  <2>1. ASSUME NEW d \in Chunks, parent'[d] # NoList
        PROVE  /\ freeBytes(inUse'[d]) <= freeMaxThreshold(parent'[d])
               /\ (\A p \in Pages : <<d, p>> \notin B)
                   => freeMinThreshold(parent'[d]) < freeBytes(inUse'[d])
    <3>1. CASE d = c
      BY <1>3, <2>1, <3>1 DEF Suits
    <3>2. CASE d # c
      <4>1. parent'[d] = parent[d] /\ inUse'[d] = inUse[d]
        BY <1>3, <3>2
      <4>2. /\ freeBytes(inUse[d]) <= freeMaxThreshold(parent[d])
            /\ (\A p \in Pages : <<d, p>> \notin A)
                => freeMinThreshold(parent[d]) < freeBytes(inUse[d])
        BY <1>1, <2>1, <4>1 DEF WeighedOK
      <4>3. (\A p \in Pages : <<d, p>> \notin B) => (\A p \in Pages : <<d, p>> \notin A)
        BY <3>2
      <4> QED
        BY <4>1, <4>2, <4>3
    <3> QED
      BY <3>1, <3>2
  <2> QED
    BY <2>1 DEF WeighedOK, freeBytes, freeMaxThreshold, freeMinThreshold
<1> QED
  BY <1>2, <1>4, <1>5 DEF ChunksOK

(* freeChunk(): memory and chunks stay in order, and no assertion fails.   *)
LEMMA FreeArena ==
    ASSUME NEW H, MemoryOK(H), NEW A, A = {}, ChunksOK(A), NEW x \in H, FreeChunk(x), NEW K,
           K = H \ {x}
    PROVE  MemoryOK(K)' /\ ChunksOK(A)' /\ failed' = failed
<1>1. PICK c, runs, l, m, s, slot :
        /\ c = x.chunk /\ runs = inUse'[c] /\ l = parent[c] /\ m = listAfterFree(l, freeBytes(runs))
        /\ slot = x.handle.slot /\ s = subpages[c][x.handle.run.off]
  OBVIOUS
<1>2. /\ MemoryOK(K)' /\ c \in Chunks /\ inUse' = [inUse EXCEPT ![c] = runs]
          /\ runs \subseteq inUse[c]
      /\ slot >= 0 => s # NoSubpage /\ slot \in s.bits
  BY <1>1, FreeMemory
<1>3. x.handle.run \in inUse[c] /\ RunsOK
  BY <1>1, TheBlock DEF MemoryOK
<1>4. DOMAIN inUse = Chunks /\ inUse[c] \subseteq Run /\ runs \subseteq Run
  BY <1>2, <1>3 DEF RunsOK, RunsApart
<1>5. l \in Lists /\ l # NoList
  <2>1. l # NoList
    BY <1>1, <1>2, <1>3 DEF ChunksOK, LiveOK
  <2> QED
    BY <1>1, <1>2, <2>1 DEF ChunksOK, ListsOK
<1>6. PICK free : free = freeBytes(runs)
  OBVIOUS
<1>7. free \in 0..m_chunkSize /\ freeMinThreshold(l) < free /\ (free = m_chunkSize => runs = {})
  <2>1. free \in 0..m_chunkSize /\ (free = m_chunkSize => runs = {})
    BY <1>4, <1>6, FreeBytes
  <2>2. freeBytes(inUse[c]) <= free /\ freeBytes(inUse[c]) \in 0..m_chunkSize
    BY <1>2, <1>4, <1>6, FreeBytes
  <2>3. freeMinThreshold(l) < freeBytes(inUse[c]) /\ freeMinThreshold(l) \in Int
    BY <1>1, <1>2, <1>5, Thresholds DEF ChunksOK, WeighedOK
  <2>4. m_chunkSize \in Nat
    BY ChunkSize
  <2> QED
    BY <2>1, <2>2, <2>3, <2>4
<1>8. /\ m \in Lists \cup {NoList} /\ (m \in Lists => Suits(m, free))
      /\ m = NoList => free = m_chunkSize /\ usage(free) = 0
      /\ \A k \in Max({1, m})..(l - 1) : usage(free) < maxUsage(k)
  <2>1. m = listAfterFree(l, free)
    BY <1>1, <1>6
  <2> QED
    BY <1>5, <1>7, <2>1, FreesTo
<1>9. /\ parent' = [parent EXCEPT ![c] = m] /\ lists' = Relisted(c, parent[c], m)
      /\ failed' = failed
            \cup (IF slot >= 0 /\ (s = NoSubpage \/ slot \notin s.bits) THEN {"slot"} ELSE {})
            \cup (IF \E k \in Max({1, m})..(l - 1) : usage(free) >= maxUsage(k)
                  THEN {"move"} ELSE {})
            \cup (IF m = NoList /\ usage(free) # 0 THEN {"move0"} ELSE {})
  <2>1. PICK R : /\ inUse' = [inUse EXCEPT ![c] = R]
                 /\ parent' = [parent EXCEPT ![c] = listAfterFree(l, freeBytes(R))]
                 /\ lists' = Relisted(c, l, listAfterFree(l, freeBytes(R)))
                 /\ failed' = failed
                      \cup (IF slot >= 0 /\ (s = NoSubpage \/ slot \notin s.bits) THEN {"slot"} ELSE {})
                      \cup (IF \E k \in Max({1, listAfterFree(l, freeBytes(R))})..(l - 1) :
                                  usage(freeBytes(R)) >= maxUsage(k)
                            THEN {"move"} ELSE {})
                      \cup (IF listAfterFree(l, freeBytes(R)) = NoList /\ usage(freeBytes(R)) # 0
                            THEN {"move0"} ELSE {})
    BY <1>1 DEF FreeChunk
  <2>2. R = runs
    BY <1>1, <1>2, <1>4, <2>1
  <2> QED
    BY <1>1, <1>6, <2>1, <2>2
<1>10. failed' = failed
  <2>1. usage(free) \in Int /\ \A k \in Max({1, m})..(l - 1) : maxUsage(k) \in Int
    <3>1. m_chunkSize \in Nat \ {0} /\ free \in Nat /\ free * 100 \in Nat
      BY <1>7, ChunkSize
    <3>2. (free * 100) \div m_chunkSize \in Nat
      BY <3>1, Quotient
    <3>3. usage(free) \in Int
      BY <3>2 DEF usage
    <3>4. ASSUME NEW k \in Max({1, m})..(l - 1) PROVE maxUsage(k) \in Int
      <4>1. m \in Int /\ l \in Int /\ l <= 5
        BY <1>5, <1>8, ListKinds DEF NoList
      <4>2. Max({1, m}) \in Int /\ Max({1, m}) >= 1
        BY <4>1, MaxOne
      <4>3. k = 1 \/ k = 2 \/ k = 3 \/ k = 4
        BY <4>1, <4>2
      <4>4. maxUsage(1) = 50 /\ maxUsage(2) = 75 /\ maxUsage(3) = 100 /\ maxUsage(4) = 100
        BY DEF maxUsage
      <4> QED
        BY <4>3, <4>4
    <3> QED
      BY <3>3, <3>4
  <2>2. ASSUME NEW k \in Max({1, m})..(l - 1), usage(free) >= maxUsage(k) PROVE FALSE
    <3>1. usage(free) < maxUsage(k)
      BY <1>8
    <3>2. usage(free) \in Int /\ maxUsage(k) \in Int
      BY <2>1
    <3> QED
      BY <2>2, <3>1, <3>2
  <2>3. ~(slot >= 0 /\ (s = NoSubpage \/ slot \notin s.bits)) /\ ~(m = NoList /\ usage(free) # 0)
    BY <1>2, <1>8
  <2> QED
    BY <1>9, <2>2, <2>3
<1>11. ChunksOK(A)'
  <2>1. inUse'[c] = runs /\ \A d \in Chunks : d # c => inUse'[d] = inUse[d]
    BY <1>1, <1>2, <1>4
  <2>2. (m = NoList => runs = {}) /\ (m # NoList => Suits(m, freeBytes(runs)))
    BY <1>6, <1>7, <1>8
  <2>3. \A d \in Chunks : d # c => \A p : <<d, p>> \in A => <<d, p>> \in A
    OBVIOUS
  <2>4. parent' = [parent EXCEPT ![c] = m] /\ lists' = Relisted(c, parent[c], m)
    BY <1>9
  <2>5. c \in Chunks /\ RunsOK /\ m \in Lists \cup {NoList} /\ ChunksOK(A)
    BY <1>2, <1>3, <1>8
  <2> QED
    BY <2>1, <2>2, <2>3, <2>4, <2>5, Weighs
<1> QED
  BY <1>2, <1>10, <1>11

(* add(): the chunk that has served goes where its usage belongs. *)
LEMMA AddedTo ==
    ASSUME RunsOK, NEW A, ChunksOK(A), NEW c \in Chunks, NEW runs, inUse[c] \subseteq runs,
           runs \subseteq Run,
           inUse'[c] = runs, \A d \in Chunks : d # c => inUse'[d] = inUse[d],
           NEW l, l = IF c \in live THEN parent[c] ELSE 0, NEW m,
           m = listAfterAdd(l, freeBytes(runs)),
           parent' = [parent EXCEPT ![c] = m], lists' = Relisted(c, parent[c], m),
           NEW B, \A d \in Chunks : d # c => \A p : <<d, p>> \in A => <<d, p>> \in B,
           \A d \in Chunks : d # c => \A p : <<d, p>> \in B => <<d, p>> \in A
    PROVE  ChunksOK(B)'
<1>1. PICK free : free = freeBytes(runs)
  OBVIOUS
<1>2. inUse[c] \subseteq Run
  BY DEF RunsOK, RunsApart
<1>3. free \in 0..m_chunkSize /\ free <= freeBytes(inUse[c])
       /\ freeBytes(inUse[c]) \in 0..m_chunkSize
  BY <1>1, <1>2, FreeBytes
<1>4. l \in Lists /\ free <= freeMaxThreshold(l)
  <2>1. CASE c \in live
    <3>1. l = parent[c] /\ l # NoList
      BY <2>1 DEF live
    <3>2. l \in Lists
      BY <3>1 DEF ChunksOK, ListsOK
    <3>3. freeBytes(inUse[c]) <= freeMaxThreshold(l) /\ freeMaxThreshold(l) \in Int
      BY <3>1, <3>2, Thresholds DEF ChunksOK, WeighedOK
    <3> QED
      BY <1>3, <3>2, <3>3
  <2>2. CASE c \notin live
    <3>1. l = 0 /\ l \in Lists
      BY <2>2 DEF Lists
    <3>2. freeMaxThreshold(l) \in Int /\ freeMaxThreshold(l) >= m_chunkSize /\ m_chunkSize \in Nat
      BY <3>1, Thresholds, ChunkSize
    <3> QED
      BY <1>3, <3>1, <3>2
  <2> QED
    BY <2>1, <2>2
<1>5. free \in Nat
  BY <1>3
<1>6. m = listAfterAdd(l, free)
  BY <1>1
<1>7. m \in Lists /\ Suits(m, free)
  BY <1>4, <1>5, <1>6, AddsTo
<1>8. (m = NoList => runs = {}) /\ (m # NoList => Suits(m, freeBytes(runs)))
       /\ m \in Lists \cup {NoList}
  BY <1>1, <1>7 DEF NoList, Lists
<1> QED
  BY <1>8, Weighs

(* A subpage is made: its chunk is not moved yet. *)
LEMMA WorkBegins ==
    ASSUME RunsOK, NEW A, A = {}, ChunksOK(A), NEW c \in Chunks, NEW run,
           inUse' = [inUse EXCEPT ![c] = @ \cup {run}], run \in Run, UNCHANGED <<parent, lists>>,
           NEW p, p = run.off, p \in Pages, NEW B, B = {<<c, p>>}
    PROVE  ChunksOK(B)'
<1>1. PICK runs : runs = inUse[c] \cup {run}
  OBVIOUS
<1>2. inUse[c] \subseteq Run /\ inUse[c] \subseteq runs /\ runs \subseteq Run
       /\ DOMAIN inUse = Chunks
  BY <1>1 DEF RunsOK, RunsApart
<1>3. inUse'[c] = runs /\ \A d \in Chunks : d # c => inUse'[d] = inUse[d]
  BY <1>1, <1>2
<1>4. LiveOK(B)'
  <2>1. ASSUME NEW d \in Chunks, parent[d] = NoList, NEW r \in inUse'[d] PROVE <<d, r.off>> \in B
    <3>1. inUse[d] = {}
      BY <2>1 DEF ChunksOK, LiveOK
    <3>2. CASE d = c
      BY <1>1, <1>3, <2>1, <3>1, <3>2
    <3>3. CASE d # c
      BY <1>3, <2>1, <3>1, <3>3
    <3> QED
      BY <3>2, <3>3
  <2> QED
    BY <2>1 DEF LiveOK
<1>5. WeighedOK(B)'
  <2>1. ASSUME NEW d \in Chunks, parent[d] # NoList
        PROVE  /\ freeBytes(inUse'[d]) <= freeMaxThreshold(parent[d])
               /\ (\A q \in Pages : <<d, q>> \notin B)
                   => freeMinThreshold(parent[d]) < freeBytes(inUse'[d])
    <3>1. /\ freeBytes(inUse[d]) <= freeMaxThreshold(parent[d])
          /\ freeMinThreshold(parent[d]) < freeBytes(inUse[d])
      BY <2>1 DEF ChunksOK, WeighedOK
    <3>2. CASE d = c
      <4>1. freeBytes(runs) <= freeBytes(inUse[c]) /\ freeBytes(inUse[c]) \in 0..m_chunkSize
             /\ freeBytes(runs) \in 0..m_chunkSize
        BY <1>2, FreeBytes
      <4>2. parent[c] \in Lists
        BY <2>1, <3>2 DEF ChunksOK, ListsOK
      <4>3. freeMaxThreshold(parent[c]) \in Int
        BY <4>2, Thresholds
      <4>4. freeBytes(runs) <= freeMaxThreshold(parent[c])
        BY <3>1, <3>2, <4>1, <4>3
      <4>5. \E q \in Pages : <<d, q>> \in B
        BY <3>2
      <4> QED
        BY <1>3, <3>2, <4>4, <4>5
    <3>3. CASE d # c
      BY <1>3, <3>1, <3>3
    <3> QED
      BY <3>2, <3>3
  <2> QED
    BY <2>1 DEF WeighedOK, freeBytes, freeMaxThreshold, freeMinThreshold
<1>6. ListsOK'
  BY DEF ChunksOK, ListsOK, Listing
<1> QED
  BY <1>4, <1>5, <1>6 DEF ChunksOK

-----------------------------------------------------------------------------
(* The threads that hold the lock of the arena: one at a time, between the *)
(* steps that make a subpage and take its first slot.                      *)
Working(t) == call[t].pc \in {"slot", "take"}

(* The subpages being made. *)
AtWork == {call[t].at : t \in {u \in Threads : Working(u)}}

(* The subpage that a thread has made: it is still there, and no slot of   *)
(* it is taken.                                                            *)
SubpageAt(t) == \E c \in Chunks, p \in Pages :
    /\ call[t].at = <<c, p>> /\ subpages[c][p] # NoSubpage
    /\ subpages[c][p].class = size2sizeIdx(call[t].size) /\ subpages[c][p].bits = {}
    /\ call[t].pc = "take" => call[t].slot \in Slots(size2sizeIdx(call[t].size))

(* One thread at a time makes a subpage. *)
WorkOK == \A t \in Threads : Working(t) => SubpageAt(t) /\ \A u \in Threads : Working(u) => t = u

(* What holds of the arena and of those who hold its memory. *)
Shared == HoldersOK /\ WorkOK /\ MemoryOK(AllOf(own)) /\ ChunksOK(AtWork)

(* The parts of Shared after a step, with its sets named.                  *)
LEMMA SharedNext ==
    ASSUME HoldersOK', WorkOK', NEW K, K = AllOf(own'), MemoryOK(K)', NEW B, B = AtWork',
           ChunksOK(B)'
    PROVE  Shared'
<1>1. ASSUME K = AllOf(own)' PROVE MemoryOK(AllOf(own))'
  BY <1>1 DEF MemoryOK, BlocksOK, ClaimedOK, ClaimedRun, Has
<1>2. ASSUME B = AtWork' PROVE ChunksOK(AtWork)'
  BY <1>2 DEF ChunksOK, LiveOK, WeighedOK
<1>3. K = AllOf(own)'
  BY DEF AllOf
<1> QED
  BY <1>1, <1>2, <1>3 DEF Shared

(* No thread takes a slot of a class from its pool while another makes a   *)
(* subpage for that class: from when this one has found the pool empty     *)
(* until it has the first slot.                                            *)
MadeAlone == \A t \in Threads : call[t].pc \in {"arena", "slot", "take"} => ~Meets(t)

(* Then what the thread does without the lock of the pool is not torn. *)
LEMMA NotTorn ==
    ASSUME MadeAlone, NEW t \in Threads, call[t].pc \in {"arena", "slot", "take"}
    PROVE  Torn(t) = {{}}
BY DEF MadeAlone, Torn

(* The lock of the arena is free when nobody makes a subpage. *)
LEMMA NobodyWorks == arenaUnlocked <=> \A t \in Threads : ~Working(t)
BY DEF arenaUnlocked, Working

(* Then no subpage is being made. *)
LEMMA Unlocked ==
    ASSUME arenaUnlocked
    PROVE  AtWork = {}
BY NobodyWorks DEF AtWork

(* Where the arena is not touched. *)
LEMMA ArenaStays ==
    ASSUME Shared, UNCHANGED arenaVars, HoldersOK', AllOf(own') = AllOf(own),
           NEW t \in Threads, ~Working(t), ~(Working(t)'), \A u \in Threads : u # t
               => call'[u] = call[u]
    PROVE  Shared'
<1>1. \A u \in Threads : u # t => call'[u] = call[u]
  OBVIOUS
<1>2. \A u \in Threads : Working(u)' <=> Working(u)
  BY <1>1 DEF Working
<1>3. \A u \in Threads : Working(u) => call'[u] = call[u]
  BY <1>1
<1>4. AtWork' = AtWork
  BY <1>2, <1>3 DEF AtWork
<1>5. subpages' = subpages /\ inUse' = inUse /\ parent' = parent /\ lists' = lists /\ pools' = pools
  BY DEF arenaVars
<1>6. WorkOK'
  <2>1. ASSUME NEW u \in Threads, Working(u) PROVE SubpageAt(u)'
    <3>1. SubpageAt(u) /\ call'[u] = call[u]
      BY <1>3, <2>1 DEF Shared, WorkOK
    <3> QED
      BY <1>5, <3>1 DEF SubpageAt, Slots
  <2> QED
    BY <1>2, <2>1 DEF Shared, WorkOK
<1>7. PICK K : K = AllOf(own)
  OBVIOUS
<1>8. PICK B : B = AtWork
  OBVIOUS
<1>9. MemoryOK(K)'
  <2>1. MemoryOK(K)
    BY <1>7 DEF Shared
  <2> QED
    BY <1>5, <2>1 DEF MemoryOK, RunsOK, RunsApart, SubpagesOK, SubpageIn, BlocksOK, BlockIn,
       ClaimedOK, ClaimedRun, Has,
                      PoolsOK, PoolOK, HasRoom, isFull, Listing
<1>10. ChunksOK(B)'
  <2>1. ChunksOK(B)
    BY <1>8 DEF Shared
  <2> QED
    BY <1>5, <2>1 DEF ChunksOK, ListsOK, Listing, LiveOK, WeighedOK, freeBytes, freeMaxThreshold,
       freeMinThreshold
<1> QED
  BY <1>4, <1>6, <1>7, <1>8, <1>9, <1>10, SharedNext

(* The next step of a call that has its block, or found none in the cache. *)
LEMMA ServedPc ==
    ASSUME NEW c, DOMAIN c = CallFields, NEW d, d = Served(c)
    PROVE  d.pc \in {"idle", "free"}
<1>1. CASE c.old = NoBlock
  BY <1>1 DEF Served, Quiet
<1>2. CASE c.old # NoBlock
  BY <1>2 DEF Served, CallFields
<1> QED
  BY <1>1, <1>2

(* And of one that goes on after its cache. *)
LEMMA AfterCachePc ==
    ASSUME NEW c, DOMAIN c = CallFields, NEW hit, NEW d, d = AfterCache(c, hit)
    PROVE  d.pc \in {"idle", "free", "pool", "arena"}
<1>1. CASE hit
  BY <1>1, ServedPc DEF AfterCache
<1>2. CASE ~hit
  <2>1. PICK pc, todo : /\ pc = IF size2sizeIdx(c.size) <= m_smallMaxSizeIdx THEN "pool" ELSE "arena"
                        /\ todo = [i \in Classes |-> 0]
    OBVIOUS
  <2>2. d = [c EXCEPT !.pc = pc, !.todo = todo]
    BY <1>2, <2>1 DEF AfterCache
  <2>3. pc \in {"pool", "arena"}
    BY <2>1
  <2>4. d.pc = pc
    BY <2>2 DEF CallFields
  <2> QED
    BY <2>3, <2>4
<1> QED
  BY <1>1, <1>2

(* allocate() does not touch the arena before it takes a lock. *)
LEMMA AllocateArena ==
    ASSUME IndexInv, NEW t \in Threads, NEW c, DOMAIN c = CallFields, Allocate(t, c)
    PROVE  UNCHANGED <<arenaVars, failed>> /\ ~(Working(t)') /\ \A u \in Threads : u # t
            => call'[u] = call[u]
<1>1. DOMAIN call = Threads
  BY DEF IndexInv, CallsOK
<1>2. \E d : call' = [call EXCEPT ![t] = d] /\ d.pc \notin {"slot", "take"}
  <2>1. CASE size2sizeIdx(c.size) = m_nSizes
    <3>1. PICK d : d = Served(c)
      OBVIOUS
    <3>2. call' = [call EXCEPT ![t] = d]
      BY <2>1, <3>1 DEF Allocate, AllocateHuge
    <3>3. d.pc \in {"idle", "free"}
      BY <3>1, ServedPc
    <3> QED
      BY <3>2, <3>3
  <2>2. CASE size2sizeIdx(c.size) # m_nSizes
    <3>1. \/ \E hit : call' = [call EXCEPT ![t] = AfterCache(c, hit)]
          \/ \E hit, todo : call' = [call EXCEPT ![t] = [c EXCEPT !.pc = "trim", !.hit = hit, !.todo = todo]]
      BY <2>2 DEF Allocate, CacheAllocate
    <3>2. CASE \E hit : call' = [call EXCEPT ![t] = AfterCache(c, hit)]
      <4>1. PICK hit, d : call' = [call EXCEPT ![t] = d] /\ d = AfterCache(c, hit)
        BY <3>2
      <4>2. d.pc \in {"idle", "free", "pool", "arena"}
        BY <4>1, AfterCachePc
      <4> QED
        BY <4>1, <4>2
    <3>3. CASE \E hit, todo : call' = [call EXCEPT ![t] = [c EXCEPT !.pc = "trim", !.hit = hit, !.todo = todo]]
      <4>1. PICK hit, todo, d : call' = [call EXCEPT ![t] = d]
                  /\ d = [c EXCEPT !.pc = "trim", !.hit = hit, !.todo = todo]
        BY <3>3
      <4>2. d.pc = "trim"
        BY <4>1 DEF CallFields
      <4> QED
        BY <4>1, <4>2
    <3> QED
      BY <3>1, <3>2, <3>3
  <2> QED
    BY <2>1, <2>2
<1>3. UNCHANGED <<arenaVars, failed>>
  BY DEF Allocate
<1> QED
  BY <1>1, <1>2, <1>3 DEF Working

(* The steps of a thread that does not work in the arena, and those that   *)
(* give a block back to it.                                                *)
LEMMA ArenaGetsBack ==
    ASSUME Shared, HoldersOK', GivesBack(AllOf(own), AllOf(own')),
           NEW t \in Threads, ~Working(t), ~(Working(t)'), \A u \in Threads : u # t
               => call'[u] = call[u]
    PROVE  Shared' /\ failed' = failed
<1>1. CASE AllOf(own') = AllOf(own) /\ UNCHANGED <<arenaVars, failed>>
  BY <1>1, ArenaStays
<1>2. ASSUME NEW x \in AllOf(own), FreeChunk(x), AllOf(own') = AllOf(own) \ {x} PROVE Shared'
              /\ failed' = failed
  <2>1. PICK H, K, A : H = AllOf(own) /\ K = AllOf(own') /\ A = AtWork
    OBVIOUS
  <2>2. arenaUnlocked
    BY <1>2 DEF FreeChunk
  <2>3. A = {} /\ \A u \in Threads : ~Working(u)
    BY <2>1, <2>2, Unlocked, NobodyWorks
  <2>4. \A u \in Threads : ~(Working(u)')
    BY <2>3 DEF Working
  <2>5. A = AtWork' /\ WorkOK'
    BY <2>3, <2>4 DEF AtWork, WorkOK
  <2>6. MemoryOK(H) /\ ChunksOK(A) /\ x \in H /\ K = H \ {x}
    BY <1>2, <2>1 DEF Shared
  <2>7. MemoryOK(K)' /\ ChunksOK(A)' /\ failed' = failed
    BY <1>2, <2>3, <2>6, FreeArena
  <2> QED
    BY <2>1, <2>5, <2>7, SharedNext
<1> QED
  BY <1>1, <1>2 DEF GivesBack

(* The assertion that fails in a thread without a cache: of the others     *)
(* none does.                                                              *)
CacheMissing == {"threadCache"}

(* What a step keeps. *)
Keeps == Shared' /\ failed' \ failed \subseteq CacheMissing

(* capacity(): growth and shrinking up to the first lock. *)
LEMMA SetCapacityShared ==
    ASSUME IndexInv, Shared, NEW t \in Threads, NEW b \in Bufs, NEW new \in AskedSizes, NEW n,
           SetCapacity(t, b, new, n)
    PROVE  Keeps
<1>1. Begins(t, b) /\ HoldersOK /\ ~Working(t)
  BY DEF SetCapacity, Shared, Begins, Working, Quiet
<1>2. CASE UNCHANGED <<arenaVars, cacheVars, block, m_cache, call, failed>>
  <2>1. UNCHANGED <<arenaVars, failed>> /\ UNCHANGED <<queues, block, m_cache, call>>
    BY <1>2 DEF cacheVars
  <2>2. HoldersOK' /\ own' = own
    BY <1>1, <2>1, StillOwn
  <2>3. AllOf(own') = AllOf(own) /\ ~(Working(t)')
    BY <1>1, <2>1, <2>2 DEF Working
  <2> QED
    BY <1>1, <2>1, <2>2, <2>3, ArenaStays DEF Keeps
<1>3. CASE Allocate(t, Allocating(b, new, block[b], n))
  <2>1. PICK c : c = Allocating(b, new, block[b], n)
    OBVIOUS
  <2>2. DOMAIN c = CallFields /\ Allocate(t, c)
    BY <1>3, <2>1, NewCall
  <2>3. HoldersOK' /\ AllOf(own') = AllOf(own)
    BY <1>1, <2>1, <2>2, AllocateOwn
  <2>4. UNCHANGED <<arenaVars, failed>> /\ ~(Working(t)') /\ \A u \in Threads : u # t
         => call'[u] = call[u]
    BY <2>2, AllocateArena
  <2> QED
    BY <1>1, <2>3, <2>4, ArenaStays DEF Keeps
<1>4. CASE failed' = failed \cup {"threadCache"}
            /\ UNCHANGED <<arenaVars, cacheVars, bufVars, call>>
  <2>1. UNCHANGED arenaVars /\ UNCHANGED <<queues, block, m_cache, call>>
    BY <1>4 DEF cacheVars, bufVars
  <2>2. HoldersOK' /\ own' = own
    BY <1>1, <2>1, StillOwn
  <2>3. AllOf(own') = AllOf(own) /\ ~(Working(t)')
    BY <1>1, <2>1, <2>2 DEF Working
  <2>4. Shared'
    BY <1>1, <2>1, <2>2, <2>3, ArenaStays
  <2> QED
    BY <1>4, <2>4 DEF Keeps, CacheMissing
<1> QED
  BY <1>2, <1>3, <1>4 DEF SetCapacity

(* poolBuffer(), up to the first lock. *)
LEMMA PoolBufferShared ==
    ASSUME IndexInv, Shared, NEW t \in Threads, NEW b \in Bufs, PoolBuffer(t, b)
    PROVE  Keeps
<1>1. Begins(t, b) /\ block[b] = NoBlock /\ HoldersOK /\ ~Working(t)
  BY DEF PoolBuffer, Shared, Begins, Working, Quiet
<1>2. PICK size \in AskedSizes : Allocate(t, Allocating(b, size, block[b], 0))
  BY <1>1 DEF PoolBuffer, AskedSizes
<1>3. PICK c : c = Allocating(b, size, block[b], 0) /\ Allocate(t, c)
  BY <1>2
<1>4. DOMAIN c = CallFields
  BY <1>3, NewCall
<1>5. HoldersOK' /\ AllOf(own') = AllOf(own)
  BY <1>1, <1>3, AllocateOwn
<1>6. UNCHANGED <<arenaVars, failed>> /\ ~(Working(t)') /\ \A u \in Threads : u # t
       => call'[u] = call[u]
  BY <1>4, <1>3, AllocateArena
<1> QED
  BY <1>1, <1>5, <1>6, ArenaStays DEF Keeps

(* What a thread does with the bytes of a buffer. *)
LEMMA BytesShared ==
    ASSUME Shared, NEW t \in Threads, NEW b \in Bufs, Begins(t, b),
           UNCHANGED <<arenaVars, cacheVars, block, m_cache, call, failed>>
    PROVE  Keeps
<1>1. ~Working(t) /\ HoldersOK
  BY DEF Begins, Working, Quiet, Shared
<1>2. UNCHANGED <<arenaVars, failed>> /\ UNCHANGED <<queues, block, m_cache, call>>
  BY DEF cacheVars
<1>3. HoldersOK' /\ own' = own
  BY <1>1, <1>2, StillOwn
<1>4. AllOf(own') = AllOf(own) /\ ~(Working(t)')
  BY <1>1, <1>2, <1>3 DEF Working
<1> QED
  BY <1>1, <1>2, <1>3, <1>4, ArenaStays DEF Keeps

(* writeBytes(), with the growth it may need. *)
LEMMA WriteBytesShared ==
    ASSUME IndexInv, Shared, NEW t \in Threads, NEW b \in Bufs, WriteBytes(t, b)
    PROVE  Keeps
<1>1. PICK target : target = m_writerIndex[b] + WriteSize
  OBVIOUS
<1>2. Begins(t, b) /\ target <= MaxWritten /\ block[b] # NoBlock
  BY <1>1 DEF WriteBytes
<1>3. CASE target > m_length[b]
  <2>1. SetCapacity(t, b, calculateNewCapacity(target), WriteSize)
    BY <1>1, <1>3 DEF WriteBytes
  <2>2. target \in 1..MaxWritten
    BY <1>1, <1>2, BufAssumption DEF IndexInv, BufsOK
  <2>3. PICK new \in AskedSizes : new = calculateNewCapacity(target)
    BY <2>2 DEF AskedSizes
  <2> QED
    BY <2>1, <2>3, SetCapacityShared
<1>4. CASE ~(target > m_length[b])
  <2>1. UNCHANGED <<arenaVars, cacheVars, block, m_cache, call, failed>>
    BY <1>1, <1>4 DEF WriteBytes
  <2> QED
    BY <1>2, <2>1, BytesShared
<1> QED
  BY <1>3, <1>4

(* The calls on a buffer. *)
LEMMA BufferShared ==
    ASSUME IndexInv, Shared, NEW t \in Threads, NEW b \in Bufs,
           PoolBuffer(t, b) \/ Capacity(t, b) \/ WriteBytes(t, b) \/ Retrieve(t, b)
               \/ Deallocate(t, b)
    PROVE  Keeps
<1>1. CASE Capacity(t, b)
  <2>1. PICK new \in AskedSizes : SetCapacity(t, b, new, 0)
    BY <1>1 DEF Capacity, AskedSizes
  <2> QED
    BY <2>1, SetCapacityShared
<1>2. CASE Retrieve(t, b)
  BY <1>2, BytesShared DEF Retrieve
<1>3. CASE Deallocate(t, b)
  <2>1. Begins(t, b) /\ ~Working(t) /\ HoldersOK /\ UNCHANGED call
    BY <1>3 DEF Deallocate, Begins, Working, Quiet, Shared
  <2>2. HoldersOK' /\ GivesBack(AllOf(own), AllOf(own'))
    BY <1>3, <2>1, DeallocateOwn
  <2>3. ~(Working(t)')
    BY <2>1 DEF Working
  <2> QED
    BY <2>1, <2>2, <2>3, ArenaGetsBack DEF Keeps
<1> QED
  BY <1>1, <1>2, <1>3, PoolBufferShared, WriteBytesShared

(* trim(), and the end of reallocate(). *)
LEMMA TrimShared ==
    ASSUME IndexInv, Shared, NEW t \in Threads, Trim(t)
    PROVE  Keeps
<1>1. PICK c : c = call[t]
  OBVIOUS
<1>2. c.pc = "trim" /\ ~Working(t) /\ HoldersOK
  BY <1>1 DEF Trim, Working, Shared
<1>3. DOMAIN c = CallFields /\ DOMAIN call = Threads
  BY <1>1, <1>2, TheCall DEF IndexInv, CallsOK
<1>4. HoldersOK' /\ GivesBack(AllOf(own), AllOf(own'))
  BY <1>2, TrimOwn
<1>5. ~(Working(t)') /\ \A u \in Threads : u # t => call'[u] = call[u]
  <2>1. CASE call' = [call EXCEPT ![t] = AfterCache(@, @.hit)]
    <3>1. PICK d : d = AfterCache(c, c.hit)
      OBVIOUS
    <3>2. d.pc \in {"idle", "free", "pool", "arena"}
      BY <1>3, <3>1, AfterCachePc
    <3>3. call' = [call EXCEPT ![t] = d]
      BY <1>1, <2>1, <3>1
    <3> QED
      BY <1>3, <3>2, <3>3 DEF Working
  <2>2. CASE \E todo : call' = [call EXCEPT ![t].todo = todo]
    <3>1. PICK todo : call' = [call EXCEPT ![t].todo = todo]
      BY <2>2
    <3>2. call'[t].pc = c.pc
      BY <1>1, <1>3, <3>1 DEF CallFields
    <3> QED
      BY <1>2, <1>3, <3>1, <3>2 DEF Working
  <2> QED
    BY <2>1, <2>2 DEF Trim
<1> QED
  BY <1>2, <1>4, <1>5, ArenaGetsBack DEF Keeps

(* The end of reallocate(): the block that was replaced. *)
LEMMA FreeOldShared ==
    ASSUME IndexInv, Shared, NEW t \in Threads, FreeOld(t)
    PROVE  Keeps
<1>1. ~Working(t) /\ HoldersOK
  BY DEF FreeOld, Working, Shared
<1>2. DOMAIN call = Threads
  BY DEF IndexInv, CallsOK
<1>3. HoldersOK' /\ GivesBack(AllOf(own), AllOf(own'))
  BY <1>1, FreeOldOwn
<1>4. ~(Working(t)') /\ \A u \in Threads : u # t => call'[u] = call[u]
  BY <1>2 DEF FreeOld, Working, Quiet
<1> QED
  BY <1>1, <1>3, <1>4, ArenaGetsBack DEF Keeps

(* Slot k of a subpage of class i is taken, and x is the block it becomes. *)
SlotGiven(c, p, s, i, k, q, x) ==
    /\ c \in Chunks /\ p \in Pages /\ s = subpages[c][p] /\ s # NoSubpage
    /\ i = s.class /\ k \in Slots(i) /\ q = <<c, p>>
    /\ TakeSlot(i, q, k, {}) /\ UNCHANGED inUse /\ \E tmp : x = slotBlock(i, q, k, tmp)

(* What that means: only the assertion on the bit may fail, and x lies in  *)
(* the chunk.                                                              *)
SlotGives(c, s, i, k, x) ==
    /\ failed' = failed \cup (IF k \in s.bits THEN {"bit"} ELSE {})
    /\ x.chunk = c /\ OfClass(x, i)
    /\ \A d \in Chunks, r \in Pages : subpages[d][r] # NoSubpage =>
          subpages'[d][r] # NoSubpage /\ subpages'[d][r].class = subpages[d][r].class
    /\ \A d \in Chunks, r \in Pages : subpages[d][r].class # i => subpages'[d][r] = subpages[d][r]

(* PoolSubpage::allocate(): of the assertions only that on the bit may     *)
(* fail; if it does not, the memory has one block more.                    *)
LEMMA SlotStep ==
    ASSUME NEW H, MemoryOK(H), NEW c, NEW p, NEW s, NEW i, NEW k, NEW q, NEW x,
           SlotGiven(c, p, s, i, k, q, x), NEW K, K = H \cup {x}
    PROVE  /\ SlotGives(c, s, i, k, x)
           /\ k \notin s.bits => MemoryOK(K)' /\ x \notin H
<1>1. /\ c \in Chunks /\ p \in Pages /\ s = subpages[c][p] /\ s # NoSubpage
      /\ i = s.class /\ k \in Slots(i) /\ q = <<c, p>> /\ TakeSlot(i, q, k, {})
      /\ UNCHANGED inUse
  BY DEF SlotGiven
<1>2. PICK tmp : x = slotBlock(i, q, k, tmp)
  BY DEF SlotGiven
<1>3. q[1] = c /\ q[2] = p
  BY <1>1
<1>4. /\ subpages' = [subpages EXCEPT ![c][p] = Taken(s, k)]
      /\ pools' = IF isFull(Taken(s, k)) THEN [pools EXCEPT ![i] = Unlinked(@, q)] ELSE pools
      /\ failed' = failed \cup (IF s.class # i THEN {"class"} ELSE {}) \cup (IF k \in s.bits THEN {"bit"} ELSE {})
  BY <1>3, <1>1 DEF TakeSlot, poolAfterTake
<1>5. x.chunk = c /\ x.handle = Handle(RunAt(p, classPages[i]), k) /\ x.norm = sizeIdx2size(i)
  BY <1>3, <1>2 DEF slotBlock, BlockOf
<1>6. SlotTaken(c, p, i, s, k)
  BY <1>4, <1>1 DEF SlotTaken
<1>7. OfClass(x, i)
  BY <1>5 DEF OfClass
<1>8. k \notin s.bits => MemoryOK(K)' /\ x \notin H
  BY <1>5, <1>6, <1>7, <1>1, TakeMemory
<1>9. /\ DOMAIN subpages = Chunks /\ \A d \in Chunks : DOMAIN subpages[d] = Pages
      /\ SubpageIn(s, p, inUse[c])
  BY <1>1 DEF MemoryOK, SubpagesOK
<1>10. PICK u : u = Taken(s, k)
  OBVIOUS
<1>11. u.class = i /\ i \in Classes
  BY <1>9, <1>10, <1>1 DEF SubpageIn, Taken
<1>12. u # NoSubpage
  <2>1. i # -1
    BY <1>11, ClassesAssumption DEF Classes
  <2> QED
    BY <1>11, <2>1 DEF NoSubpage
<1>13. \A d \in Chunks, r \in Pages : subpages'[d][r] = IF d = c /\ r = p THEN u ELSE subpages[d][r]
  BY <1>4, <1>9, <1>10, <1>1
<1>14. \A d \in Chunks, r \in Pages : subpages[d][r] # NoSubpage =>
                 subpages'[d][r] # NoSubpage /\ subpages'[d][r].class = subpages[d][r].class
  BY <1>11, <1>12, <1>13, <1>1
<1>15. \A d \in Chunks, r \in Pages : subpages[d][r].class # i => subpages'[d][r] = subpages[d][r]
  BY <1>13, <1>1
<1> QED
  BY <1>4, <1>5, <1>7, <1>8, <1>14, <1>15, <1>1 DEF SlotGives

(* tcacheAllocateSmall(): a slot of the first subpage of the pool. *)
LEMMA FromPoolShared ==
    ASSUME IndexInv, Shared, MadeAlone, NEW t \in Threads, AllocateFromPool(t)
    PROVE  Shared' /\ failed' = failed
<1>1. PICK call0, i, q, H, A : /\ call0 = call[t] /\ i = size2sizeIdx(call0.size)
            /\ q = Head(pools[i])
                               /\ H = AllOf(own) /\ A = AtWork
  OBVIOUS
<1>2. PICK k : k = nextSlot(subpages[q[1]][q[2]])
  OBVIOUS
<1>3. PICK x, K : x = slotBlock(i, q, k, -1) /\ K = H \cup {x}
  OBVIOUS
<1>4. /\ call0.pc = "pool" /\ pools[i] # <<>> /\ TakeSlot(i, q, k, {})
      /\ Given(t, call0, x, call0.size)
      /\ call' = [call EXCEPT ![t] = Served(call0)]
      /\ UNCHANGED inUse /\ UNCHANGED <<parent, lists>> /\ UNCHANGED queues
  BY <1>1, <1>2, <1>3 DEF AllocateFromPool, cacheVars
<1>5. i \in Classes /\ DOMAIN call0 = CallFields /\ Pending(call0)
  BY <1>1, <1>4, TheCall DEF Pending
<1>6. MemoryOK(H) /\ ChunksOK(A) /\ HoldersOK /\ WorkOK
  BY <1>1 DEF Shared
<1>7. Listing(pools[i], Chunks \X Pages)
       /\ \A c \in Chunks, p \in Pages : <<c, p>> \in ToSet(pools[i]) <=> HasRoom(subpages[c][p], i)
  BY <1>5, <1>6 DEF MemoryOK, PoolsOK, PoolOK
<1>8. q \in Chunks \X Pages /\ q \in ToSet(pools[i])
  <2>1. PICK l, S : l = pools[i] /\ S = Chunks \X Pages
    OBVIOUS
  <2>2. l \in Seq(S) /\ l # <<>> /\ q = Head(l)
    BY <1>1, <1>4, <1>7, <2>1 DEF Listing
  <2>3. q = l[1] /\ 1 \in DOMAIN l /\ q \in S
    BY <2>2
  <2> QED
    BY <2>1, <2>3 DEF ToSet
<1>9. PICK c \in Chunks : \E p \in Pages : q = <<c, p>>
  BY <1>8
<1>10. PICK p \in Pages : q = <<c, p>>
  BY <1>9
<1>11. PICK s : s = subpages[c][p]
  OBVIOUS
<1>12. s # NoSubpage /\ s.class = i /\ ~isFull(s)
  BY <1>7, <1>8, <1>10, <1>11 DEF HasRoom
<1>13. SubpageIn(s, p, inUse[c])
  BY <1>6, <1>11, <1>12 DEF MemoryOK, SubpagesOK
<1>14. k \in Slots(i) /\ k \notin s.bits
  <2>1. k = nextSlot(s)
    BY <1>2, <1>10, <1>11
  <2> QED
    BY <1>12, <1>13, <2>1, NextSlot
<1>15. PICK tmp : tmp = -1
  OBVIOUS
<1>16. x = slotBlock(i, q, k, tmp)
  BY <1>3, <1>15
<1>17. /\ failed' = failed /\ x.chunk = c /\ MemoryOK(K)' /\ x \notin H
       /\ \A d \in Chunks, r \in Pages : subpages[d][r] # NoSubpage =>
              subpages'[d][r] # NoSubpage /\ subpages'[d][r].class = subpages[d][r].class
       /\ \A d \in Chunks, r \in Pages : subpages[d][r].class # i
              => subpages'[d][r] = subpages[d][r]
  <2>1. SlotGiven(c, p, s, i, k, q, x)
    BY <1>4, <1>10, <1>11, <1>12, <1>14, <1>16 DEF SlotGiven
  <2>2. SlotGives(c, s, i, k, x) /\ (k \notin s.bits => MemoryOK(K)' /\ x \notin H)
    BY <1>3, <1>6, <2>1, SlotStep
  <2> QED
    BY <1>14, <2>2 DEF SlotGives
<1>18. HoldersOK' /\ AllOf(own') = K
  <2>1. x \notin AllOf(own) /\ x.chunk \in Chunks
    BY <1>1, <1>17
  <2>2. HoldersOK' /\ AllOf(own') = AllOf(own) \cup {x}
    BY <1>1, <1>4, <1>5, <1>6, <2>1, CallGivenOwn
  <2> QED
    BY <1>1, <1>3, <2>2
<1>19. /\ ~Working(t) /\ ~(Working(t)') /\ \A u \in Threads : u # t => call'[u] = call[u]
  <2>1. PICK d : d = Served(call0)
    OBVIOUS
  <2>2. d.pc \in {"idle", "free"}
    BY <1>5, <2>1, ServedPc
  <2>3. DOMAIN call = Threads /\ call' = [call EXCEPT ![t] = d]
    BY <1>4, <2>1 DEF IndexInv, CallsOK
  <2> QED
    BY <1>1, <1>4, <2>2, <2>3 DEF Working
<1>20. (\A u \in Threads : Working(u)' <=> Working(u)) /\ \A u \in Threads : Working(u)
        => call'[u] = call[u]
  BY <1>19 DEF Working
<1>21. AtWork' = A
  BY <1>1, <1>20 DEF AtWork
<1>22. WorkOK'
  <2>1. ASSUME NEW u \in Threads, Working(u) PROVE SubpageAt(u)'
    <3>1. PICK d \in Chunks, r \in Pages :
              /\ call[u].at = <<d, r>> /\ subpages[d][r] # NoSubpage
              /\ subpages[d][r].class = size2sizeIdx(call[u].size) /\ subpages[d][r].bits = {}
              /\ call[u].pc = "take" => call[u].slot \in Slots(size2sizeIdx(call[u].size))
      BY <1>6, <2>1 DEF WorkOK, SubpageAt
    <3>2. ~Meets(u)
      BY <2>1 DEF MadeAlone, Working
    <3>3. u # t /\ size2sizeIdx(call[u].size) # i
      BY <1>1, <1>4, <1>19, <2>1, <3>2 DEF Meets
    <3>4. subpages'[d][r] = subpages[d][r] /\ call'[u] = call[u]
      BY <1>17, <1>20, <2>1, <3>1, <3>3
    <3> QED
      BY <3>1, <3>4 DEF SubpageAt, Slots
  <2> QED
    BY <1>6, <1>20, <2>1 DEF WorkOK
<1>23. ChunksOK(A)'
  BY <1>4, <1>6 DEF ChunksOK, ListsOK, Listing, LiveOK, WeighedOK, freeBytes, freeMaxThreshold,
     freeMinThreshold
<1> QED
  BY <1>17, <1>18, <1>21, <1>22, <1>23, SharedNext

(* The pool has none. *)
LEMMA PoolEmptyShared ==
    ASSUME IndexInv, Shared, NEW t \in Threads, PoolEmpty(t)
    PROVE  Keeps
<1>1. PICK c, d : c = call[t] /\ d = [c EXCEPT !.pc = "arena"]
  OBVIOUS
<1>2. c.pc = "pool" /\ call' = [call EXCEPT ![t] = d] /\ UNCHANGED <<queues, bufVars>>
       /\ UNCHANGED <<arenaVars, failed>>
  BY <1>1 DEF PoolEmpty, cacheVars
<1>3. DOMAIN c = CallFields /\ DOMAIN call = Threads
  BY <1>1, <1>2, TheCall DEF IndexInv, CallsOK
<1>4. DOMAIN d = CallFields /\ d.pc = "arena" /\ d.old = c.old /\ d.buf = c.buf
  BY <1>1, <1>3 DEF CallFields
<1>5. HoldersOK' /\ own' = own
  BY <1>1, <1>2, <1>4, SearchOwn DEF Shared
<1>6. /\ ~Working(t) /\ ~(Working(t)') /\ \A u \in Threads : u # t => call'[u] = call[u]
  BY <1>1, <1>2, <1>3, <1>4 DEF Working
<1>7. AllOf(own') = AllOf(own)
  BY <1>5
<1> QED
  BY <1>2, <1>5, <1>6, <1>7, ArenaStays DEF Keeps

(* The first slot of a subpage that is being made is free: it has some,    *)
(* and none is taken.                                                      *)
LEMMA FirstFree ==
    ASSUME IndexInv, Shared, NEW t \in Threads, Working(t), NEW s,
           s = subpages[call[t].at[1]][call[t].at[2]]
    PROVE  ~isFull(s) /\ s.bits = {}
<1>1. PICK c \in Chunks, p \in Pages :
          /\ call[t].at = <<c, p>> /\ subpages[c][p].class = size2sizeIdx(call[t].size)
          /\ subpages[c][p].bits = {}
  BY DEF Shared, WorkOK, SubpageAt
<1>2. PICK i, call0 : call0 = call[t] /\ i = size2sizeIdx(call0.size)
  OBVIOUS
<1>3. s.bits = {} /\ s.class = i
  BY <1>1, <1>2
<1>4. call0.pc \in {"slot", "take"}
  BY <1>2 DEF Working
<1>5. i \in Classes
  BY <1>2, <1>4, TheCall
<1>6. maxNumElems[i] \in Nat \ {0}
  BY <1>5, SlotsOfClass
<1>7. 0 \in Slots(i)
  BY <1>6 DEF Slots
<1> QED
  BY <1>3, <1>5, <1>7, FullIs

(* allocateSubpage() reads which slot is the first. *)
LEMMA ChooseShared ==
    ASSUME IndexInv, Shared, MadeAlone, NEW t \in Threads, ChooseFirstSlot(t)
    PROVE  Shared' /\ failed' = failed
<1>1. PICK c, s : c = call[t] /\ s = subpages[c.at[1]][c.at[2]]
  OBVIOUS
<1>2. c.pc = "slot" /\ Working(t)
  BY <1>1 DEF ChooseFirstSlot, Working
<1>3. ~isFull(s) /\ Torn(t) = {{}}
  BY <1>1, <1>2, FirstFree, NotTorn
<1>4. /\ ~isFull(s) /\ call' = [call EXCEPT ![t].pc = "take", ![t].slot = nextSlot(s)]
      /\ UNCHANGED failed /\ UNCHANGED <<arenaVars, cacheVars, bufVars>>
  BY <1>1, <1>3 DEF ChooseFirstSlot
<1>5. c.pc = "slot" /\ Working(t) /\ UNCHANGED arenaVars /\ UNCHANGED <<queues, bufVars>>
       /\ UNCHANGED <<queues, block, m_cache>>
  BY <1>2, <1>4 DEF cacheVars, bufVars
<1>6. DOMAIN c = CallFields /\ DOMAIN call = Threads
  BY <1>1, <1>5, TheCall DEF IndexInv, CallsOK
<1>7. PICK a \in Chunks, p \in Pages :
          /\ c.at = <<a, p>> /\ subpages[a][p] # NoSubpage
              /\ subpages[a][p].class = size2sizeIdx(c.size) /\ subpages[a][p].bits = {}
  BY <1>1, <1>5 DEF Shared, WorkOK, SubpageAt
<1>8. PICK H, A : H = AllOf(own) /\ A = AtWork
  OBVIOUS
<1>9. MemoryOK(H) /\ ChunksOK(A) /\ HoldersOK /\ WorkOK
  BY <1>8 DEF Shared
<1>10. s = subpages[a][p] /\ SubpageIn(s, p, inUse[a])
  BY <1>1, <1>7, <1>9 DEF MemoryOK, SubpagesOK
<1>11. subpages' = subpages /\ inUse' = inUse /\ parent' = parent /\ lists' = lists /\ pools' = pools
  BY <1>5 DEF arenaVars
<1>12. MemoryOK(H)'
  BY <1>9, <1>11 DEF MemoryOK, RunsOK, RunsApart, SubpagesOK, SubpageIn, BlocksOK, BlockIn,
     ClaimedOK, ClaimedRun, Has,
                    PoolsOK, PoolOK, HasRoom, isFull, Listing
<1>13. ChunksOK(A)'
  BY <1>9, <1>11 DEF ChunksOK, ListsOK, Listing, LiveOK, WeighedOK, freeBytes, freeMaxThreshold,
     freeMinThreshold
<1>14. PICK k, d : k = nextSlot(s) /\ d = [[c EXCEPT !.pc = "take"] EXCEPT !.slot = k]
  OBVIOUS
<1>15. call' = [call EXCEPT ![t] = d]
  BY <1>1, <1>6, <1>4, <1>14
<1>16. /\ DOMAIN d = CallFields /\ d.buf = c.buf /\ d.size = c.size /\ d.old = c.old
          /\ d.pc = "take"
      /\ d.at = c.at /\ d.slot = k
  BY <1>6, <1>14 DEF CallFields
<1>17. HoldersOK' /\ own' = own
  BY <1>1, <1>5, <1>9, <1>15, <1>16, SearchOwn
<1>18. k \in Slots(size2sizeIdx(c.size))
  BY <1>7, <1>10, <1>4, <1>14, NextSlot
<1>19. call'[t] = d /\ \A u \in Threads : u # t => call'[u] = call[u]
  BY <1>6, <1>15
<1>20. \A u \in Threads : Working(u)' <=> Working(u)
  BY <1>5, <1>16, <1>19 DEF Working
<1>21. \A u \in Threads : call'[u].at = call[u].at
  BY <1>1, <1>16, <1>19
<1>22. AtWork' = A
  BY <1>8, <1>20, <1>21 DEF AtWork
<1>23. WorkOK'
  <2>1. SubpageAt(t)'
    BY <1>7, <1>11, <1>16, <1>18, <1>19 DEF SubpageAt, Slots
  <2>2. \A u \in Threads : Working(u) => u = t
    BY <1>5, <1>9 DEF WorkOK
  <2> QED
    BY <1>20, <2>1, <2>2 DEF WorkOK
<1>24. H = AllOf(own')
  BY <1>8, <1>17
<1>25. Shared'
  BY <1>12, <1>13, <1>17, <1>22, <1>23, <1>24, SharedNext
<1> QED
  BY <1>4, <1>25

(* The first slot of a new subpage is taken, and the chunk goes where its  *)
(* usage belongs.                                                          *)
LEMMA TakeShared ==
    ASSUME IndexInv, Shared, MadeAlone, NEW t \in Threads, TakeFirstSlot(t)
    PROVE  Shared' /\ failed' = failed
<1>1. PICK call0, i, q, k, H, A : /\ call0 = call[t] /\ i = size2sizeIdx(call0.size)
            /\ q = call0.at /\ k = call0.slot
                                  /\ H = AllOf(own) /\ A = AtWork
  OBVIOUS
<1>2. PICK x, K, B : x = slotBlock(i, q, k, cachedBuffer(q[1])) /\ K = H \cup {x} /\ B = {}
  OBVIOUS
<1>3. Torn(t) = {{}}
  BY NotTorn DEF TakeFirstSlot
<1>4. /\ call0.pc = "take" /\ Working(t) /\ TakeSlot(i, q, k, {})
      /\ ChunkGives(t, q[1], inUse[q[1]], x) /\ UNCHANGED inUse
  BY <1>3, <1>1, <1>2 DEF TakeFirstSlot, Working
<1>5. i \in Classes /\ DOMAIN call0 = CallFields /\ Pending(call0)
  BY <1>1, <1>4, TheCall DEF Pending
<1>6. MemoryOK(H) /\ ChunksOK(A) /\ HoldersOK /\ WorkOK
  BY <1>1 DEF Shared
<1>7. PICK c \in Chunks, p \in Pages :
          /\ q = <<c, p>> /\ subpages[c][p] # NoSubpage /\ subpages[c][p].class = i
              /\ k \in Slots(i)
  BY <1>1, <1>4, <1>6 DEF WorkOK, SubpageAt
<1>8. PICK s, runs : s = subpages[c][p] /\ runs = inUse[c]
  OBVIOUS
<1>9. SlotGiven(c, p, s, i, k, q, x)
  BY <1>2, <1>4, <1>7, <1>8 DEF SlotGiven
<1>10. SlotGives(c, s, i, k, x) /\ (k \notin s.bits => MemoryOK(K)' /\ x \notin H)
  BY <1>2, <1>6, <1>9, SlotStep
<1>11. k \notin s.bits
  <2>1. s = subpages[call[t].at[1]][call[t].at[2]]
    BY <1>1, <1>7, <1>8
  <2> QED
    BY <1>4, <2>1, FirstFree
<1>12. failed' = failed /\ x.chunk = c /\ MemoryOK(K)' /\ x \notin H
  BY <1>10, <1>11 DEF SlotGives
<1>13. PICK l, m : l = (IF c \in live THEN parent[c] ELSE 0)
            /\ m = listAfterAdd(l, freeBytes(runs))
  OBVIOUS
<1>14. /\ parent' = [parent EXCEPT ![c] = m] /\ lists' = Relisted(c, parent[c], m)
       /\ Given(t, call0, x, call0.size) /\ call' = [call EXCEPT ![t] = Served(call0)]
       /\ UNCHANGED queues
  BY <1>1, <1>4, <1>7, <1>8, <1>13 DEF ChunkGives, cacheVars
<1>15. HoldersOK' /\ AllOf(own') = K
  <2>1. x \notin AllOf(own) /\ x.chunk \in Chunks
    BY <1>1, <1>12
  <2>2. HoldersOK' /\ AllOf(own') = AllOf(own) \cup {x}
    BY <1>1, <1>5, <1>6, <1>14, <2>1, CallGivenOwn
  <2> QED
    BY <1>1, <1>2, <2>2
<1>16. ~(Working(t)') /\ \A u \in Threads : u # t => call'[u] = call[u]
  <2>1. PICK d : d = Served(call0)
    OBVIOUS
  <2>2. d.pc \in {"idle", "free"}
    BY <1>5, <2>1, ServedPc
  <2>3. DOMAIN call = Threads /\ call' = [call EXCEPT ![t] = d]
    BY <1>14, <2>1 DEF IndexInv, CallsOK
  <2> QED
    BY <2>2, <2>3 DEF Working
<1>17. \A u \in Threads : ~(Working(u)')
  <2>1. \A u \in Threads : u # t => ~Working(u)
    BY <1>4, <1>6 DEF WorkOK
  <2> QED
    BY <1>16, <2>1 DEF Working
<1>18. B = AtWork' /\ WorkOK'
  BY <1>2, <1>17 DEF AtWork, WorkOK
<1>19. \A e \in A : e = <<c, p>>
  <2>1. \A u \in Threads : Working(u) => u = t
    BY <1>4, <1>6 DEF WorkOK
  <2> QED
    BY <1>1, <1>7, <2>1 DEF AtWork
<1>20. RunsOK /\ inUse[c] \subseteq runs /\ runs \subseteq Run
  BY <1>6, <1>8 DEF MemoryOK, RunsOK, RunsApart
<1>21. inUse'[c] = runs /\ \A d \in Chunks : d # c => inUse'[d] = inUse[d]
  BY <1>4, <1>8
<1>22. /\ \A d \in Chunks : d # c => \A r : <<d, r>> \in A => <<d, r>> \in B
       /\ \A d \in Chunks : d # c => \A r : <<d, r>> \in B => <<d, r>> \in A
  BY <1>2, <1>19
<1>23. ChunksOK(B)'
  BY <1>6, <1>13, <1>14, <1>20, <1>21, <1>22, AddedTo
<1> QED
  BY <1>12, <1>15, <1>18, <1>23, SharedNext

(* allocateNormal(): a block of a normal class, or a new subpage.          *)
LEMMA NormalShared ==
    ASSUME IndexInv, Shared, MadeAlone, NEW t \in Threads, AllocateNormal(t)
    PROVE  Shared' /\ failed' = failed
<1>1. PICK call0, i, H, A : call0 = call[t] /\ i = size2sizeIdx(call0.size) /\ H = AllOf(own)
            /\ A = AtWork
  OBVIOUS
<1>2. call0.pc = "arena" /\ arenaUnlocked /\ Search(t, 0) /\ Torn(t) = {{}}
  BY <1>1, NotTorn DEF AllocateNormal
<1>3. A = {} /\ \A u \in Threads : ~Working(u)
  BY <1>1, <1>2, Unlocked, NobodyWorks
<1>4. i \in Classes /\ DOMAIN call0 = CallFields /\ Pending(call0) /\ DOMAIN call = Threads
  BY <1>1, <1>2, TheCall DEF Pending, IndexInv, CallsOK
<1>5. MemoryOK(H) /\ ChunksOK(A) /\ HoldersOK /\ WorkOK /\ RunsOK
  BY <1>1 DEF Shared, MemoryOK
<1>6. PICK c \in Chunks : \E g \in BestFits(inUse[c], classPages[i]) :
          /\ inUse' = [inUse EXCEPT ![c] = @ \cup {RunAt(g.off, classPages[i])}]
          /\ IF i > m_smallMaxSizeIdx
             THEN /\ ChunkGives(t, c, inUse[c] \cup {RunAt(g.off, classPages[i])},
                            BlockOf(c, Handle(RunAt(g.off, classPages[i]), -1), classPages[i] * pageSize,
                                    cachedBuffer(c)))
                  /\ UNCHANGED <<subpages, pools, failed>>
             ELSE /\ subpages' = [subpages EXCEPT ![c][g.off] = FreshSubpage(i)]
                  /\ pools' = [pools EXCEPT ![i] = <<<<c, g.off>>>> \o @]
                  /\ call' = [call EXCEPT ![t].pc = "slot", ![t].at = <<c, g.off>>]
                  /\ \E race \in Torn(t) : failed' = failed \cup race \cup
                       (IF subpages[c][g.off] # NoSubpage THEN {"subpage"} ELSE {})
                  /\ UNCHANGED <<buffers, parent, lists, cacheVars, bufVars>>
  BY <1>1, <1>2 DEF Search, FreshSubpage
<1>7. PICK g \in BestFits(inUse[c], classPages[i]) :
          /\ inUse' = [inUse EXCEPT ![c] = @ \cup {RunAt(g.off, classPages[i])}]
          /\ \/ /\ i > m_smallMaxSizeIdx
                /\ ChunkGives(t, c, inUse[c] \cup {RunAt(g.off, classPages[i])},
                            BlockOf(c, Handle(RunAt(g.off, classPages[i]), -1), classPages[i] * pageSize,
                                    cachedBuffer(c)))
                /\ UNCHANGED <<subpages, pools, failed>>
             \/ /\ ~(i > m_smallMaxSizeIdx)
                /\ subpages' = [subpages EXCEPT ![c][g.off] = FreshSubpage(i)]
                /\ pools' = [pools EXCEPT ![i] = <<<<c, g.off>>>> \o @]
                /\ call' = [call EXCEPT ![t].pc = "slot", ![t].at = <<c, g.off>>]
                /\ \E race \in Torn(t) : failed' = failed \cup race \cup
                     (IF subpages[c][g.off] # NoSubpage THEN {"subpage"} ELSE {})
                /\ UNCHANGED <<buffers, parent, lists, cacheVars, bufVars>>
  BY <1>6
<1>8. PICK run, runs : run = RunAt(g.off, classPages[i]) /\ runs = inUse[c] \cup {run}
  OBVIOUS
<1>9. inUse' = [inUse EXCEPT ![c] = @ \cup {run}]
  BY <1>7, <1>8
<1>10. /\ run \in Run /\ run.off \in Pages /\ run.off = g.off /\ RunsApart(runs)
  BY <1>4, <1>5, <1>8, SlotsOfClass, FitsRun DEF RunsOK
<1>11. CASE /\ i > m_smallMaxSizeIdx
            /\ ChunkGives(t, c, inUse[c] \cup {RunAt(g.off, classPages[i])},
                            BlockOf(c, Handle(RunAt(g.off, classPages[i]), -1), classPages[i] * pageSize,
                                    cachedBuffer(c)))
            /\ UNCHANGED <<subpages, pools, failed>>
  <2>1. PICK x, K : x = BlockOf(c, Handle(run, -1), classPages[i] * pageSize, cachedBuffer(c))
              /\ K = H \cup {x}
    OBVIOUS
  <2>2. ChunkGives(t, c, runs, x) /\ UNCHANGED <<subpages, pools>> /\ failed' = failed
    BY <1>8, <1>11, <2>1
  <2>3. classPages[i] * pageSize = sizeIdx2size(i)
    BY <1>4, <1>11, SizesOK
  <2>4. x.chunk = c /\ x.handle = Handle(run, -1) /\ x.norm = sizeIdx2size(i)
    BY <2>1, <2>3 DEF BlockOf
  <2>5. OfClass(x, i)
    BY <2>4 DEF OfClass
  <2>6. MemoryOK(K)' /\ x \notin H
    BY <1>4, <1>5, <1>8, <1>9, <2>1, <2>2, <2>4, <2>5, NewRun
  <2>7. PICK l, m : l = (IF c \in live THEN parent[c] ELSE 0)
              /\ m = listAfterAdd(l, freeBytes(runs))
    OBVIOUS
  <2>8. /\ parent' = [parent EXCEPT ![c] = m] /\ lists' = Relisted(c, parent[c], m)
        /\ Given(t, call0, x, call0.size) /\ call' = [call EXCEPT ![t] = Served(call0)]
            /\ UNCHANGED queues
    BY <1>1, <2>2, <2>7 DEF ChunkGives, cacheVars
  <2>9. HoldersOK' /\ AllOf(own') = K
    <3>1. x \notin AllOf(own) /\ x.chunk \in Chunks
      BY <1>1, <2>4, <2>6
    <3>2. HoldersOK' /\ AllOf(own') = AllOf(own) \cup {x}
      BY <1>1, <1>4, <1>5, <2>8, <3>1, CallGivenOwn
    <3> QED
      BY <1>1, <2>1, <3>2
  <2>10. \A u \in Threads : ~(Working(u)')
    <3>1. PICK d : d = Served(call0)
      OBVIOUS
    <3>2. d.pc \in {"idle", "free"}
      BY <1>4, <3>1, ServedPc
    <3>3. call' = [call EXCEPT ![t] = d]
      BY <2>8, <3>1
    <3> QED
      BY <1>3, <1>4, <3>2, <3>3 DEF Working
  <2>11. A = AtWork' /\ WorkOK'
    BY <1>3, <2>10 DEF AtWork, WorkOK
  <2>12. inUse[c] \subseteq runs /\ runs \subseteq Run
    BY <1>8, <1>10 DEF RunsApart
  <2>13. inUse'[c] = runs /\ \A d \in Chunks : d # c => inUse'[d] = inUse[d]
    BY <1>5, <1>8, <1>9 DEF RunsOK
  <2>14. \A d \in Chunks : d # c => \A r : <<d, r>> \in A => <<d, r>> \in A
    OBVIOUS
  <2>15. ChunksOK(A)'
    BY <1>5, <2>7, <2>8, <2>12, <2>13, <2>14, AddedTo
  <2> QED
    BY <2>2, <2>6, <2>9, <2>11, <2>15, SharedNext
<1>12. CASE /\ ~(i > m_smallMaxSizeIdx)
            /\ subpages' = [subpages EXCEPT ![c][g.off] = FreshSubpage(i)]
            /\ pools' = [pools EXCEPT ![i] = <<<<c, g.off>>>> \o @]
            /\ call' = [call EXCEPT ![t].pc = "slot", ![t].at = <<c, g.off>>]
            /\ \E race \in Torn(t) : failed' = failed \cup race \cup
                 (IF subpages[c][g.off] # NoSubpage THEN {"subpage"} ELSE {})
            /\ UNCHANGED <<buffers, parent, lists, cacheVars, bufVars>>
  <2>1. PICK p, B, q, s : p = g.off /\ q = <<c, p>> /\ B = {<<c, p>>} /\ s = FreshSubpage(i)
    OBVIOUS
  <2>2. i <= m_smallMaxSizeIdx
    BY <1>4, <1>12, ClassesAssumption DEF Classes
  <2>3. MemoryOK(H)' /\ p \in Pages /\ subpages[c][p] = NoSubpage
    BY <1>4, <1>5, <1>8, <1>9, <1>12, <2>1, <2>2, NewSubpage
  <2>4. failed' = failed
    <3>1. PICK race \in Torn(t) : failed' = failed \cup race \cup
              (IF subpages[c][g.off] # NoSubpage THEN {"subpage"} ELSE {})
      BY <1>12
    <3>2. race = {}
      BY <1>2
    <3> QED
      BY <2>1, <2>3, <3>1, <3>2
  <2>5. p = run.off /\ UNCHANGED <<parent, lists>> /\ UNCHANGED <<queues, bufVars>>
    BY <1>10, <1>12, <2>1 DEF cacheVars
  <2>6. ChunksOK(B)'
    BY <1>3, <1>5, <1>9, <1>10, <2>1, <2>3, <2>5, WorkBegins
  <2>7. PICK d : d = [[call0 EXCEPT !.pc = "slot"] EXCEPT !.at = q]
    OBVIOUS
  <2>8. call' = [call EXCEPT ![t] = d]
    BY <1>1, <1>4, <1>12, <2>1, <2>7
  <2>9. /\ DOMAIN d = CallFields /\ d.pc = "slot" /\ d.at = q /\ d.old = call0.old
            /\ d.buf = call0.buf /\ d.size = call0.size
    BY <1>4, <2>7 DEF CallFields
  <2>10. HoldersOK' /\ own' = own
    BY <1>1, <1>2, <1>5, <2>5, <2>8, <2>9, SearchOwn
  <2>11. call'[t] = d /\ \A u \in Threads : u # t => call'[u] = call[u]
    BY <1>4, <2>8
  <2>12. \A u \in Threads : Working(u)' <=> u = t
    BY <1>3, <2>9, <2>11 DEF Working
  <2>13. B = AtWork'
    BY <2>1, <2>9, <2>11, <2>12 DEF AtWork
  <2>14. SubpageAt(t)'
    <3>1. DOMAIN subpages = Chunks /\ DOMAIN subpages[c] = Pages
      BY <1>5 DEF MemoryOK, SubpagesOK
    <3>2. subpages'[c][p] = s
      BY <1>12, <2>1, <2>3, <3>1
    <3>3. s.class = i /\ i # -1 /\ s.bits = {}
      BY <1>4, <2>1, ClassesAssumption DEF FreshSubpage, Classes
    <3>4. s # NoSubpage
      BY <3>3 DEF NoSubpage
    <3>5. call'[t].at = <<c, p>> /\ call'[t].pc = "slot" /\ size2sizeIdx(call'[t].size) = i
      BY <1>1, <2>1, <2>9, <2>11
    <3> QED
      BY <2>3, <3>2, <3>3, <3>4, <3>5 DEF SubpageAt
  <2>15. WorkOK'
    BY <2>12, <2>14 DEF WorkOK
  <2>16. H = AllOf(own')
    BY <1>1, <2>10
  <2> QED
    BY <2>3, <2>4, <2>6, <2>10, <2>13, <2>15, <2>16, SharedNext
<1> QED
  BY <1>7, <1>11, <1>12

-----------------------------------------------------------------------------

(* The inductive invariant for any number of threads, as long as MadeAlone *)
(* holds.                                                                  *)
SharedInv == IndexInv /\ Shared /\ failed \subseteq CacheMissing

(* It holds at the start. *)
LEMMA SharedInit == Init => SharedInv
<1> SUFFICES ASSUME Init PROVE SharedInv
  OBVIOUS
<1>1. IndexInv /\ failed = {}
  BY IndexInit DEF Init
<1>2. /\ \A b \in Bufs : block[b] = NoBlock /\ m_cache[b] = None
      /\ \A t \in Threads : call[t] = Quiet /\ \A i \in Classes : queues[t][i] = <<>>
      /\ DOMAIN m_cache = Bufs
  BY DEF Init
<1>3. NoBlock.chunk \notin Chunks
  BY ChunksAssumption DEF NoBlock
<1>4. \A t \in Threads : ~replaced(t) /\ ~Working(t)
  BY <1>2 DEF replaced, Working, Quiet
<1>5. \A o \in Owners : own[o] = {}
  <2>1. \A b \in Bufs : own[<<"buffer", b>>] = {}
    BY <1>2, <1>3, OwnNow DEF Pooled
  <2>2. \A t \in Threads : own[<<"call", t>>] = {}
    BY <1>4, OwnNow DEF Pooled, Replaced
  <2>3. \A t \in Threads, i \in Classes : own[<<"cache", <<t, i>>>>] = {}
    BY <1>2, OwnNow DEF Pooled, ToSet
  <2> QED
    BY <2>1, <2>2, <2>3, OwnerKinds
<1>6. HoldersOK
  <2>1. \A t \in Threads : CallHolds(t) /\ \A i \in Classes : CacheHolds(t, i)
    BY <1>2 DEF CallHolds, CacheHolds, Apart
  <2> QED
    BY <1>2, <1>5, <2>1 DEF HoldersOK, OneOwner, Known
<1>7. PICK H, A : H = AllOf(own) /\ A = AtWork
  OBVIOUS
<1>8. H = {} /\ A = {}
  BY <1>4, <1>5, <1>7 DEF AllOf, AtWork
<1>9. /\ inUse = [c \in Chunks |-> {}] /\ subpages = [c \in Chunks |-> [p \in Pages |-> NoSubpage]]
      /\ parent = [c \in Chunks |-> NoList] /\ lists = [l \in Lists |-> <<>>]
          /\ pools = [i \in Classes |-> <<>>]
  BY DEF Init, Pages
<1>10. \A S : Listing(<<>>, S) /\ ToSet(<<>>) = {}
  BY DEF Listing, ToSet
<1>11. RunsOK /\ SubpagesOK
  BY <1>9 DEF RunsOK, RunsApart, SubpagesOK
<1>12. BlocksOK(H) /\ ClaimedOK(H)
  BY <1>8, <1>9 DEF BlocksOK, ClaimedOK
<1>13. PoolsOK
  <2>1. ASSUME NEW i \in Classes PROVE PoolOK(i)
    <3>1. pools[i] = <<>> /\ \A c \in Chunks, p \in Pages : subpages[c][p] = NoSubpage
      BY <1>9
    <3> QED
      BY <1>10, <3>1 DEF PoolOK, HasRoom
  <2> QED
    BY <1>9, <2>1 DEF PoolsOK
<1>14. ChunksOK(A)
  <2>1. NoList \notin Lists
    BY DEF NoList, Lists
  <2>2. ListsOK
    BY <1>9, <1>10, <2>1 DEF ListsOK
  <2>3. LiveOK(A) /\ WeighedOK(A)
    BY <1>9 DEF LiveOK, WeighedOK
  <2> QED
    BY <2>2, <2>3 DEF ChunksOK
<1>15. WorkOK
  BY <1>4 DEF WorkOK
<1>16. Shared
  BY <1>6, <1>7, <1>11, <1>12, <1>13, <1>14, <1>15 DEF Shared, MemoryOK
<1> QED
  BY <1>1, <1>16 DEF SharedInv

(* It is about the variables only. *)
LEMMA SharedStays == Shared /\ UNCHANGED vars => Shared'
<1> SUFFICES ASSUME Shared, UNCHANGED vars PROVE Shared'
  OBVIOUS
<1>1. UNCHANGED arenaVars /\ UNCHANGED <<queues, block, m_cache, call>> /\ HoldersOK
  BY DEF vars, cacheVars, bufVars, Shared
<1>2. HoldersOK' /\ own' = own
  BY <1>1, StillOwn
<1>3. PICK H, A : H = AllOf(own) /\ A = AtWork
  OBVIOUS
<1>4. MemoryOK(H) /\ ChunksOK(A) /\ WorkOK
  BY <1>3 DEF Shared
<1>5. subpages' = subpages /\ inUse' = inUse /\ parent' = parent /\ lists' = lists /\ pools' = pools
  BY <1>1 DEF arenaVars
<1>6. MemoryOK(H)'
  BY <1>4, <1>5 DEF MemoryOK, RunsOK, RunsApart, SubpagesOK, SubpageIn, BlocksOK, BlockIn,
     ClaimedOK, ClaimedRun, Has,
                    PoolsOK, PoolOK, HasRoom, isFull, Listing
<1>7. ChunksOK(A)'
  BY <1>4, <1>5 DEF ChunksOK, ListsOK, Listing, LiveOK, WeighedOK, freeBytes, freeMaxThreshold,
     freeMinThreshold
<1>8. A = AtWork' /\ H = AllOf(own')
  BY <1>1, <1>2, <1>3 DEF AtWork, Working
<1>9. WorkOK'
  BY <1>1, <1>4, <1>5 DEF WorkOK, SubpageAt, Working, Slots
<1> QED
  BY <1>2, <1>6, <1>7, <1>8, <1>9, SharedNext

(* Each action keeps it. *)
LEMMA SharedStep ==
    ASSUME IndexInv, Shared, MadeAlone, failed = {}, Next
    PROVE  Shared' /\ failed' \subseteq CacheMissing
<1>1. PICK t \in Threads :
    \/ \E b \in Bufs : \/ PoolBuffer(t, b) \/ Capacity(t, b) \/ WriteBytes(t, b)
                       \/ Retrieve(t, b) \/ Deallocate(t, b)
    \/ Trim(t) \/ AllocateFromPool(t) \/ PoolEmpty(t) \/ AllocateNormal(t)
    \/ ChooseFirstSlot(t) \/ TakeFirstSlot(t) \/ FreeOld(t)
  BY DEF Next
<1>2. CASE \E b \in Bufs : PoolBuffer(t, b) \/ Capacity(t, b) \/ WriteBytes(t, b) \/ Retrieve(t, b)
            \/ Deallocate(t, b)
  BY <1>2, BufferShared DEF Keeps
<1>3. CASE Trim(t) \/ FreeOld(t) \/ PoolEmpty(t)
  BY <1>3, TrimShared, FreeOldShared, PoolEmptyShared DEF Keeps
<1>4. CASE AllocateFromPool(t) \/ AllocateNormal(t) \/ ChooseFirstSlot(t) \/ TakeFirstSlot(t)
  BY <1>4, FromPoolShared, NormalShared, ChooseShared, TakeShared
<1> QED
  BY <1>1, <1>2, <1>3, <1>4

(* It is inductive. *)
LEMMA SharedInductive == MadeAlone => (SharedInv /\ [Next]_vars => SharedInv')
<1> SUFFICES ASSUME MadeAlone, SharedInv, [Next]_vars PROVE SharedInv'
  OBVIOUS
<1>1. IndexInv /\ IndexInv' /\ Shared
  BY IndexNext DEF SharedInv
<1>2. CASE Next
  <2>1. failed = {}
    BY <1>2 DEF Next
  <2> QED
    BY <1>1, <1>2, <2>1, SharedStep DEF SharedInv, CacheMissing
<1>3. CASE UNCHANGED vars
  <2>1. failed' = failed
    BY <1>3 DEF vars
  <2> QED
    BY <1>1, <1>3, <2>1, SharedStays DEF SharedInv, CacheMissing
<1> QED
  BY <1>2, <1>3

(* Any number of threads, no two of which meet over a subpage that is      *)
(* being made: only the assertion that a thread has a cache can fail.  No  *)
(* chunk is moved to a list that its usage has not reached, no subpage is  *)
(* made over another or found full, no slot is taken or freed twice, no    *)
(* pool holds a subpage of another class.                                  *)
THEOREM OnlyCacheMissing == Spec /\ []MadeAlone => [](ThreadHasCache => AssertionsHold)
<1>1. SharedInv => (ThreadHasCache => AssertionsHold)
  BY DEF SharedInv, CacheMissing, ThreadHasCache, AssertionsHold
<1>2. MadeAlone /\ SharedInv /\ [Next]_vars => SharedInv'
  BY SharedInductive
<1> QED
  BY <1>1, <1>2, SharedInit, PTL DEF Spec

-----------------------------------------------------------------------------
(* What the structure says of the blocks that somebody holds.              *)
(* The holders of Held are the owners: buffers, calls, places of a cache.  *)
ByBuffer(h, b) == h = [by |-> <<b>>, blk |-> block[b]]
ByCall(h, t) == h = [by |-> <<t>>, blk |-> call[t].old] /\ replaced(t)
ByCache(h, t, i, n) == h = [by |-> <<t, i, n>>, blk |-> queues[t][i][n]]
    /\ n \in 1..Len(queues[t][i])

(* The members of Held. *)
LEMMA HeldKinds ==
    ASSUME IndexInv
    PROVE  \A h : h \in Held <=> /\ h.blk.chunk \in Chunks
                                 /\ \/ \E b \in Bufs : ByBuffer(h, b)
                                    \/ \E t \in Threads : ByCall(h, t)
                                    \/ \E t \in Threads, i \in Classes : \E n : ByCache(h, t, i, n)
<1>1. \A t \in Threads, i \in Classes : DOMAIN queues[t][i] = 1..Len(queues[t][i])
  BY DEF IndexInv, QueuesOK, QueueOf
<1> DEFINE A == {[by |-> <<b>>, blk |-> block[b]] : b \in Bufs}
           B == {[by |-> <<t>>, blk |-> call[t].old] : t \in {u \in Threads : replaced(u)}}
           Q(t, i) == {[by |-> <<t, i, n>>, blk |-> queues[t][i][n]] : n \in DOMAIN queues[t][i]}
           C == UNION {Q(t, i) : t \in Threads, i \in Classes}
<1>2. Held = {h \in A \cup B \cup C : h.blk.chunk \in Chunks}
  BY DEF Held
<1> TAKE h
<1>3. h \in A <=> \E b \in Bufs : ByBuffer(h, b)
  BY DEF ByBuffer
<1>4. h \in B <=> \E t \in Threads : ByCall(h, t)
  BY DEF ByCall
<1>5. h \in C <=> \E t \in Threads, i \in Classes : \E n : ByCache(h, t, i, n)
  <2>1. ASSUME h \in C PROVE \E t \in Threads, i \in Classes : \E n : ByCache(h, t, i, n)
    <3>1. PICK t \in Threads, i \in Classes : h \in Q(t, i)
      <4> HIDE DEF Q
      <4> QED
        BY <2>1
    <3>2. PICK n \in DOMAIN queues[t][i] : h = [by |-> <<t, i, n>>, blk |-> queues[t][i][n]]
      BY <3>1
    <3> QED
      BY <1>1, <3>2 DEF ByCache
  <2>2. ASSUME NEW t \in Threads, NEW i \in Classes, NEW n, ByCache(h, t, i, n) PROVE h \in C
    <3>1. n \in DOMAIN queues[t][i] /\ h = [by |-> <<t, i, n>>, blk |-> queues[t][i][n]]
      BY <1>1, <2>2 DEF ByCache
    <3>2. h \in Q(t, i)
      BY <3>1
    <3> HIDE DEF Q
    <3> QED
      BY <3>2
  <2> QED
    BY <2>1, <2>2
<1> HIDE DEF A, B, C
<1> QED
  BY <1>2, <1>3, <1>4, <1>5

(* A holder of Held holds what its owner does. *)
Holds(h, o) == o \in Owners /\ h.blk \in own[o]

(* Each of them is in what its holder owns. *)
LEMMA HeldOwner ==
    ASSUME IndexInv, NEW h, h.blk.chunk \in Chunks
    PROVE  /\ \A b \in Bufs : ByBuffer(h, b) => Holds(h, <<"buffer", b>>)
           /\ \A t \in Threads : ByCall(h, t) => Holds(h, <<"call", t>>)
           /\ \A t \in Threads, i \in Classes : \A n : ByCache(h, t, i, n)
               => Holds(h, <<"cache", <<t, i>>>>)
<1>1. ASSUME NEW b \in Bufs, ByBuffer(h, b) PROVE Holds(h, <<"buffer", b>>)
  BY <1>1, OwnNow, OwnerKinds DEF ByBuffer, Holds, Pooled
<1>2. ASSUME NEW t \in Threads, ByCall(h, t) PROVE Holds(h, <<"call", t>>)
  BY <1>2, OwnNow, OwnerKinds DEF ByCall, Holds, Pooled, Replaced
<1>3. ASSUME NEW t \in Threads, NEW i \in Classes, NEW n,
             ByCache(h, t, i, n) PROVE Holds(h, <<"cache", <<t, i>>>>)
  <2>1. DOMAIN queues[t][i] = 1..Len(queues[t][i])
    BY DEF IndexInv, QueuesOK, QueueOf
  <2>2. h.blk \in ToSet(queues[t][i])
    BY <1>3, <2>1 DEF ByCache, ToSet
  <2> QED
    BY <2>2, OwnNow, OwnerKinds DEF Holds, Pooled
<1> QED
  BY <1>1, <1>2, <1>3

(* Each block that is held has one holder in Held. *)
LEMMA HeldIs ==
    ASSUME IndexInv, HoldersOK
    PROVE  /\ \A h \in Held : h.blk \in AllOf(own)
           /\ \A x \in AllOf(own) : \E h \in Held : h.blk = x
           /\ \A g, h \in Held : g.blk = h.blk => g = h
<1>1. \A o, w \in Owners : \A x : x \in own[o] /\ x \in own[w] => o = w
  BY DEF HoldersOK, OneOwner
<1>2. ASSUME NEW h \in Held PROVE h.blk \in AllOf(own)
  <2>1. \E o \in Owners : h.blk \in own[o]
    BY <1>2, HeldKinds, HeldOwner DEF Holds
  <2> QED
    BY <2>1 DEF AllOf
<1>3. ASSUME NEW x \in AllOf(own) PROVE \E h \in Held : h.blk = x
  <2>1. PICK o \in Owners : x \in own[o]
    BY DEF AllOf
  <2>2. ASSUME NEW b \in Bufs, o = <<"buffer", b>> PROVE \E h \in Held : h.blk = x
    <3>1. PICK h : ByBuffer(h, b)
      BY DEF ByBuffer
    <3>2. h.blk = x /\ x.chunk \in Chunks
      BY <2>1, <2>2, <3>1, OwnNow DEF ByBuffer, Pooled
    <3> QED
      BY <3>1, <3>2, HeldKinds
  <2>3. ASSUME NEW t \in Threads, o = <<"call", t>> PROVE \E h \in Held : h.blk = x
    <3>1. x \in Pooled(Replaced(t))
      BY <2>1, <2>3, OwnNow
    <3>2. replaced(t) /\ x = call[t].old /\ x.chunk \in Chunks
      BY <3>1 DEF Pooled, Replaced
    <3>3. PICK h : ByCall(h, t)
      BY <3>2 DEF ByCall
    <3>4. h.blk = x
      BY <3>2, <3>3 DEF ByCall
    <3> QED
      BY <3>2, <3>3, <3>4, HeldKinds
  <2>4. ASSUME NEW t \in Threads, NEW i \in Classes,
               o = <<"cache", <<t, i>>>> PROVE \E h \in Held : h.blk = x
    <3>1. x \in ToSet(queues[t][i]) /\ x.chunk \in Chunks
      BY <2>1, <2>4, OwnNow DEF Pooled
    <3>2. DOMAIN queues[t][i] = 1..Len(queues[t][i])
      BY DEF IndexInv, QueuesOK, QueueOf
    <3>3. PICK n \in 1..Len(queues[t][i]) : queues[t][i][n] = x
      BY <3>1, <3>2 DEF ToSet
    <3>4. PICK h : ByCache(h, t, i, n)
      BY <3>3 DEF ByCache
    <3>5. h.blk = x
      BY <3>3, <3>4 DEF ByCache
    <3> QED
      BY <3>1, <3>4, <3>5, HeldKinds
  <2> QED
    BY <2>1, <2>2, <2>3, <2>4, OwnerKinds
<1>4. ASSUME NEW g \in Held, NEW h \in Held, g.blk = h.blk PROVE g = h
  <2>1. \A o, w : Holds(g, o) /\ Holds(h, w) => o = w
    BY <1>1, <1>4 DEF Holds
  <2>2. g.blk.chunk \in Chunks /\ h.blk.chunk \in Chunks
    BY HeldKinds
  <2>3. ASSUME NEW b \in Bufs, ByBuffer(g, b) PROVE g = h
    <3>1. \A w : Holds(h, w) => w = <<"buffer", b>>
      BY <2>1, <2>2, <2>3, HeldOwner
    <3>2. ASSUME NEW d \in Bufs, ByBuffer(h, d) PROVE g = h
      <4>1. <<"buffer", d>> = <<"buffer", b>>
        BY <2>2, <3>1, <3>2, HeldOwner
      <4>2. b = d
        BY <4>1
      <4> QED
        BY <2>3, <3>2, <4>2 DEF ByBuffer
    <3>3. ASSUME NEW t \in Threads, ByCall(h, t) PROVE FALSE
      <4>1. <<"call", t>> = <<"buffer", b>>
        BY <2>2, <3>1, <3>3, HeldOwner
      <4> QED
        BY <4>1
    <3>4. ASSUME NEW t \in Threads, NEW i \in Classes, NEW n, ByCache(h, t, i, n) PROVE FALSE
      <4>1. <<"cache", <<t, i>>>> = <<"buffer", b>>
        BY <2>2, <3>1, <3>4, HeldOwner
      <4> QED
        BY <4>1
    <3> QED
      BY <3>2, <3>3, <3>4, HeldKinds
  <2>4. ASSUME NEW b \in Threads, ByCall(g, b) PROVE g = h
    <3>1. \A w : Holds(h, w) => w = <<"call", b>>
      BY <2>1, <2>2, <2>4, HeldOwner
    <3>2. ASSUME NEW d \in Threads, ByCall(h, d) PROVE g = h
      <4>1. <<"call", d>> = <<"call", b>>
        BY <2>2, <3>1, <3>2, HeldOwner
      <4>2. b = d
        BY <4>1
      <4> QED
        BY <2>4, <3>2, <4>2 DEF ByCall
    <3>3. ASSUME NEW t \in Bufs, ByBuffer(h, t) PROVE FALSE
      <4>1. <<"buffer", t>> = <<"call", b>>
        BY <2>2, <3>1, <3>3, HeldOwner
      <4> QED
        BY <4>1
    <3>4. ASSUME NEW t \in Threads, NEW i \in Classes, NEW n, ByCache(h, t, i, n) PROVE FALSE
      <4>1. <<"cache", <<t, i>>>> = <<"call", b>>
        BY <2>2, <3>1, <3>4, HeldOwner
      <4> QED
        BY <4>1
    <3> QED
      BY <3>2, <3>3, <3>4, HeldKinds
  <2>5. ASSUME NEW u \in Threads, NEW k \in Classes, NEW m, ByCache(g, u, k, m) PROVE g = h
    <3>1. \A w : Holds(h, w) => w = <<"cache", <<u, k>>>>
      BY <2>1, <2>2, <2>5, HeldOwner
    <3>2. ASSUME NEW d \in Bufs, ByBuffer(h, d) PROVE FALSE
      <4>1. <<"buffer", d>> = <<"cache", <<u, k>>>>
        BY <2>2, <3>1, <3>2, HeldOwner
      <4> QED
        BY <4>1
    <3>3. ASSUME NEW t \in Threads, ByCall(h, t) PROVE FALSE
      <4>1. <<"call", t>> = <<"cache", <<u, k>>>>
        BY <2>2, <3>1, <3>3, HeldOwner
      <4> QED
        BY <4>1
    <3>4. ASSUME NEW t \in Threads, NEW i \in Classes, NEW n, ByCache(h, t, i, n) PROVE g = h
      <4>1. <<"cache", <<t, i>>>> = <<"cache", <<u, k>>>>
        BY <2>2, <3>1, <3>4, HeldOwner
      <4>2. t = u /\ i = k
        BY <4>1
      <4>3. queues[u][k][m] = queues[u][k][n] /\ m \in 1..Len(queues[u][k])
             /\ n \in 1..Len(queues[u][k])
        BY <1>4, <2>5, <3>4, <4>2 DEF ByCache
      <4>4. m = n
        BY <4>3 DEF HoldersOK, CacheHolds, Apart
      <4> QED
        BY <2>5, <3>4, <4>2, <4>4 DEF ByCache
    <3> QED
      BY <3>2, <3>3, <3>4, HeldKinds
  <2> QED
    BY <2>3, <2>4, <2>5, HeldKinds
<1> QED
  BY <1>2, <1>3, <1>4

(* Multiples of a number keep their order. *)
LEMMA Multiples ==
    /\ \A a, b, m \in Nat : a <= b => a * m <= b * m
    /\ \A a, b, m \in Nat : a * m + b * m = (a + b) * m
    /\ \A a, b \in Nat : a * b \in Nat
<1>1. ASSUME NEW a \in Nat, NEW b \in Nat, NEW m \in Nat, a <= b PROVE a * m <= b * m
  <2>1. PICK d \in Nat : b = a + d
    <3>1. b - a \in Nat /\ b = a + (b - a)
      BY <1>1
    <3> QED
      BY <3>1
  <2>2. b * m = a * m + d * m /\ d * m \in Nat /\ a * m \in Nat
    BY <2>1
  <2> QED
    BY <2>2
<1> QED
  BY <1>1

(* A block lies in its run. *)
LEMMA InItsRun ==
    ASSUME NEW H, MemoryOK(H), NEW x \in H, NEW r, r = x.handle.run
    PROVE  /\ offsetOf(x.handle, x.norm) \in Nat /\ x.norm \in Nat
           /\ r.off * pageSize <= offsetOf(x.handle, x.norm)
           /\ offsetOf(x.handle, x.norm) + x.norm <= (r.off + r.pages) * pageSize
<1>1. PICK s, i, slot, n : s = subpages[x.chunk][r.off] /\ i = size2sizeIdx(x.norm)
            /\ slot = x.handle.slot /\ n = x.norm
  OBVIOUS
<1>2. /\ r.off \in Pages /\ i \in Classes /\ n = sizeIdx2size(i) /\ r.pages = classPages[i]
      /\ \/ slot = -1 /\ s = NoSubpage
         \/ slot \in Nat /\ slot \in s.bits /\ s.class = i /\ SubpageIn(s, r.off, inUse[x.chunk])
  BY <1>1, TheBlock
<1>3. PICK off, pages, size, max : off = r.off /\ pages = r.pages /\ size = pageSize
            /\ max = maxNumElems[i]
  OBVIOUS
<1>4. /\ off \in Nat /\ pages \in Nat /\ size \in Nat /\ n \in Nat /\ max \in Nat
      /\ max * n <= pages * size /\ n <= pages * size
  BY <1>2, <1>3, SlotsOfClass, ClassesAssumption DEF Pages
<1>5. off * size \in Nat /\ pages * size \in Nat /\ off * size + pages * size = (off + pages) * size
  BY <1>4, Multiples
<1>6. offsetOf(x.handle, n) = off * size + (IF slot < 0 THEN 0 ELSE slot * n)
  BY <1>1, <1>3 DEF offsetOf
<1>7. CASE slot = -1
  <2>1. offsetOf(x.handle, n) = off * size
    BY <1>5, <1>6, <1>7
  <2> QED
    BY <1>1, <1>3, <1>4, <1>5, <2>1
<1>8. CASE slot \in Nat /\ slot \in s.bits /\ s.class = i /\ SubpageIn(s, r.off, inUse[x.chunk])
  <2>1. slot \in Slots(i)
    BY <1>8 DEF SubpageIn
  <2>2. slot + 1 <= max /\ slot + 1 \in Nat
    BY <1>3, <1>4, <1>8, <2>1 DEF Slots
  <2>3. (slot + 1) * n <= max * n /\ slot * n + 1 * n = (slot + 1) * n /\ slot * n \in Nat
    BY <1>4, <1>8, <2>2, Multiples
  <2>4. 1 * n = n
    BY <1>4
  <2>5. offsetOf(x.handle, n) = off * size + slot * n
    BY <1>5, <1>6, <1>8
  <2>6. slot * n + n <= pages * size
    <3>1. PICK a, b : a = slot * n /\ b = max * n
      OBVIOUS
    <3>2. a \in Nat /\ a + n <= b /\ b <= pages * size
      BY <1>4, <2>3, <2>4, <3>1
    <3>3. b \in Nat
      BY <1>4, <3>1, Multiples
    <3> QED
      BY <1>4, <1>5, <3>1, <3>2, <3>3
  <2>7. PICK a, b, d : a = off * size /\ b = slot * n /\ d = pages * size
    OBVIOUS
  <2>8. a \in Nat /\ b \in Nat /\ d \in Nat /\ b + n <= d /\ a + d = (off + pages) * size
    BY <1>5, <2>3, <2>6, <2>7
  <2>9. a + b \in Nat /\ a <= a + b /\ (a + b) + n <= a + d
    BY <1>4, <2>8
  <2> QED
    BY <1>1, <1>3, <1>4, <2>5, <2>7, <2>8, <2>9
<1> QED
  BY <1>2, <1>7, <1>8

(* Two blocks of a chunk have no byte in common. *)
LEMMA BytesApart ==
    ASSUME NEW H, MemoryOK(H), NEW x \in H, NEW y \in H, x # y, x.chunk = y.chunk
    PROVE  \/ offsetOf(y.handle, y.norm) + y.norm <= offsetOf(x.handle, x.norm)
           \/ offsetOf(x.handle, x.norm) + x.norm <= offsetOf(y.handle, y.norm)
<1>1. PICK r, q, s, f, g : /\ r = x.handle.run /\ q = y.handle.run /\ s = subpages[x.chunk][r.off]
                           /\ f = offsetOf(x.handle, x.norm) /\ g = offsetOf(y.handle, y.norm)
  OBVIOUS
<1>2. /\ f \in Nat /\ x.norm \in Nat /\ r.off * pageSize <= f
          /\ f + x.norm <= (r.off + r.pages) * pageSize
      /\ g \in Nat /\ y.norm \in Nat /\ q.off * pageSize <= g
          /\ g + y.norm <= (q.off + q.pages) * pageSize
  BY <1>1, InItsRun
<1>3. r \in Run /\ q \in Run /\ r \in inUse[x.chunk] /\ q \in inUse[x.chunk] /\ x.chunk \in Chunks
  BY <1>1, TheBlock
<1>4. /\ r.off \in Nat /\ r.pages \in Nat /\ q.off \in Nat /\ q.pages \in Nat /\ pageSize \in Nat
      /\ r.off + r.pages \in Nat /\ q.off + q.pages \in Nat
  BY <1>3, PagesAssumption, ChunksAssumption DEF Run
<1>5. CASE r.off # q.off
  <2>1. ~Overlap(r, q)
    BY <1>3, <1>5 DEF MemoryOK, RunsOK, RunsApart
  <2>2. q.off + q.pages <= r.off \/ r.off + r.pages <= q.off
    BY <1>4, <2>1 DEF Overlap, end
  <2>3. CASE q.off + q.pages <= r.off
    <3>1. PICK a, b : a = (q.off + q.pages) * pageSize /\ b = r.off * pageSize
      OBVIOUS
    <3>2. a <= b /\ a \in Nat /\ b \in Nat
      BY <1>4, <2>3, <3>1, Multiples
    <3>3. g + y.norm <= f
      BY <1>2, <3>1, <3>2
    <3> QED
      BY <1>1, <3>3
  <2>4. CASE r.off + r.pages <= q.off
    <3>1. PICK a, b : a = (r.off + r.pages) * pageSize /\ b = q.off * pageSize
      OBVIOUS
    <3>2. a <= b /\ a \in Nat /\ b \in Nat
      BY <1>4, <2>4, <3>1, Multiples
    <3>3. f + x.norm <= g
      BY <1>2, <3>1, <3>2
    <3> QED
      BY <1>1, <3>3
  <2> QED
    BY <2>2, <2>3, <2>4
<1>6. CASE r.off = q.off
  <2>1. PICK k, m, n, o : k = x.handle.slot /\ m = y.handle.slot /\ n = x.norm
              /\ o = r.off * pageSize
    OBVIOUS
  <2>2. r = q /\ s # NoSubpage /\ m \in s.bits /\ k \in s.bits /\ m # k
    BY <1>1, <1>6, <2>1, Neighbours
  <2>3. k \in Nat /\ m \in Nat /\ s.class = size2sizeIdx(x.norm) /\ s.class = size2sizeIdx(y.norm)
    <3>1. s = subpages[y.chunk][q.off]
      BY <1>1, <1>6
    <3>2. k \in Nat /\ s.class = size2sizeIdx(x.norm)
      <4>1. (k = -1 /\ s = NoSubpage) \/ (s.class = size2sizeIdx(x.norm) /\ k \in Nat)
        BY <1>1, <2>1, TheBlock
      <4> QED
        BY <2>2, <4>1
    <3>3. m \in Nat /\ s.class = size2sizeIdx(y.norm)
      <4>1. (m = -1 /\ s = NoSubpage) \/ (s.class = size2sizeIdx(y.norm) /\ m \in Nat)
        BY <1>1, <2>1, <3>1, TheBlock
      <4> QED
        BY <2>2, <4>1
    <3> QED
      BY <3>2, <3>3
  <2>4. y.norm = n
    BY <1>1, <2>1, <2>3, TheBlock
  <2>5. f = o + k * n /\ g = o + m * n
    <3>1. f = o + (IF k < 0 THEN 0 ELSE k * n) /\ g = o + (IF m < 0 THEN 0 ELSE m * n)
      BY <1>1, <2>1, <2>2, <2>4 DEF offsetOf
    <3>2. ~(k < 0) /\ ~(m < 0)
      BY <2>3
    <3> QED
      BY <3>1, <3>2
  <2>6. PICK a, b : a = k * n /\ b = m * n
    OBVIOUS
  <2>7. a \in Nat /\ b \in Nat /\ o \in Nat /\ n \in Nat
    BY <1>2, <1>4, <2>1, <2>3, <2>6, Multiples
  <2>8. \A c, d \in Nat : c < d => c * n + n <= d * n
    <3>1. ASSUME NEW c \in Nat, NEW d \in Nat, c < d PROVE c * n + n <= d * n
      <4>1. (c + 1) * n <= d * n /\ c * n + 1 * n = (c + 1) * n
        BY <2>7, <3>1, Multiples
      <4>2. 1 * n = n
        BY <2>7
      <4> QED
        BY <4>1, <4>2
    <3> QED
      BY <3>1
  <2>9. CASE k < m
    <3>1. a + n <= b
      BY <2>3, <2>6, <2>8, <2>9
    <3> QED
      BY <1>1, <2>1, <2>5, <2>6, <2>7, <3>1
  <2>10. CASE m < k
    <3>1. b + n <= a
      BY <2>3, <2>6, <2>8, <2>10
    <3> QED
      BY <1>1, <2>1, <2>4, <2>5, <2>6, <2>7, <3>1
  <2> QED
    BY <2>2, <2>3, <2>9, <2>10
<1> QED
  BY <1>5, <1>6

(* No byte of a chunk belongs to two holders, where no block is in a       *)
(* subpage that is being made.                                             *)
LEMMA GivesBytes ==
    ASSUME IndexInv, Shared, \A x \in AllOf(own) : <<x.chunk, x.handle.run.off>> \notin AtWork
    PROVE  NoSharedBytes
<1>1. PICK H : H = AllOf(own)
  OBVIOUS
<1>2. MemoryOK(H) /\ HoldersOK /\ LiveOK(AtWork)
  BY <1>1 DEF Shared, ChunksOK
<1>3. ASSUME NEW h \in Held
      PROVE  h.blk.chunk \in live /\ h.blk.handle.run \in inUse[h.blk.chunk]
  <2>1. h.blk \in H
    BY <1>1, <1>2, HeldIs
  <2>2. PICK x, c, r : x = h.blk /\ c = x.chunk /\ r = x.handle.run
    OBVIOUS
  <2>3. c \in Chunks /\ r \in inUse[c]
    BY <1>2, <2>1, <2>2, TheBlock
  <2>4. <<c, r.off>> \notin AtWork
    BY <1>1, <2>1, <2>2
  <2>5. parent[c] # NoList
    BY <1>2, <2>3, <2>4 DEF LiveOK
  <2> QED
    BY <2>2, <2>3, <2>5 DEF live
<1>4. ASSUME NEW h \in Held, NEW g \in Held \ {h}, g.blk.chunk = h.blk.chunk
      PROVE  \/ offsetOf(g.blk.handle, g.blk.norm) + g.blk.norm <= offsetOf(h.blk.handle, h.blk.norm)
             \/ offsetOf(h.blk.handle, h.blk.norm) + h.blk.norm <= offsetOf(g.blk.handle, g.blk.norm)
  <2>1. h.blk \in H /\ g.blk \in H /\ h.blk # g.blk
    BY <1>1, <1>2, <1>4, HeldIs
  <2> QED
    BY <1>2, <1>4, <2>1, BytesApart
<1> QED
  BY <1>3, <1>4 DEF NoSharedBytes

(* A run in use of a live chunk is a block that somebody holds, or the     *)
(* slots of its subpage in use are.                                        *)
LEMMA GivesNoLeak ==
    ASSUME IndexInv, Shared
    PROVE  NothingLeaked
<1>1. PICK H : H = AllOf(own)
  OBVIOUS
<1>2. MemoryOK(H) /\ HoldersOK
  BY <1>1 DEF Shared
<1> DEFINE held == {<<h.blk.chunk, h.blk.handle>> : h \in Held}
           slots(c, r) == {p[2].slot : p \in {h \in held : h[1] = c /\ h[2].run = r}}
<1>3. ASSUME NEW c, NEW r, NEW k
      PROVE  k \in slots(c, r) <=> \E x \in H : x.chunk = c /\ x.handle.run = r /\ x.handle.slot = k
  <2>1. ASSUME k \in slots(c, r)
        PROVE  \E x \in H : x.chunk = c /\ x.handle.run = r /\ x.handle.slot = k
    <3>1. PICK p \in held : p[1] = c /\ p[2].run = r /\ p[2].slot = k
      BY <2>1
    <3>2. PICK h \in Held : p = <<h.blk.chunk, h.blk.handle>>
      BY <3>1
    <3>3. h.blk \in H
      BY <1>1, <1>2, HeldIs
    <3> QED
      BY <3>1, <3>2, <3>3
  <2>2. ASSUME NEW x \in H, x.chunk = c, x.handle.run = r, x.handle.slot = k
        PROVE  k \in slots(c, r)
    <3>1. PICK h \in Held : h.blk = x
      BY <1>1, <1>2, HeldIs
    <3>2. PICK p : p = <<c, x.handle>>
      OBVIOUS
    <3>3. p \in held
      BY <2>2, <3>1, <3>2
    <3>4. p[1] = c /\ p[2].run = r /\ p[2].slot = k
      BY <2>2, <3>2
    <3> QED
      BY <3>3, <3>4
  <2> QED
    BY <2>1, <2>2
<1>4. ASSUME NEW c \in live, NEW r \in inUse[c]
      PROVE  slots(c, r) = IF subpages[c][r.off] = NoSubpage THEN {-1} ELSE subpages[c][r.off].bits
  <2>1. PICK s : s = subpages[c][r.off]
    OBVIOUS
  <2>2. c \in Chunks /\ ClaimedRun(H, c, r, s)
    BY <1>2, <2>1 DEF live, MemoryOK, ClaimedOK
  <2>3. ASSUME NEW x \in H, x.chunk = c, x.handle.run = r
        PROVE  (x.handle.slot = -1 /\ s = NoSubpage) \/ (s # NoSubpage /\ x.handle.slot \in s.bits)
    BY <1>2, <2>1, <2>3, TheBlock
  <2>4. ASSUME NEW k, Has(H, c, r, k)
        PROVE  \E x \in H : x.chunk = c /\ x.handle.run = r /\ x.handle.slot = k
    BY <2>4 DEF Has, Handle
  <2> HIDE DEF slots, held
  <2>5. CASE s = NoSubpage
    <3>1. ASSUME NEW k PROVE k \in slots(c, r) <=> k = -1
      <4>1. k \in slots(c, r) => k = -1
        BY <1>3, <2>3, <2>5
      <4>2. Has(H, c, r, -1)
        BY <2>2, <2>5 DEF ClaimedRun
      <4>3. k = -1 => Has(H, c, r, k)
        BY <4>2
      <4>4. k = -1 => k \in slots(c, r)
        BY <1>3, <2>4, <4>3
      <4> QED
        BY <4>1, <4>4
    <3>2. slots(c, r) = {-1}
      BY <3>1
    <3> QED
      BY <2>1, <2>5, <3>2
  <2>6. CASE s # NoSubpage
    <3>1. ASSUME NEW k PROVE k \in slots(c, r) <=> k \in s.bits
      <4>1. k \in slots(c, r) => k \in s.bits
        BY <1>3, <2>3, <2>6
      <4>2. k \in s.bits => Has(H, c, r, k)
        BY <2>2, <2>6 DEF ClaimedRun
      <4>3. k \in s.bits => k \in slots(c, r)
        BY <1>3, <2>4, <4>2
      <4> QED
        BY <4>1, <4>3
    <3>2. slots(c, r) = s.bits
      BY <3>1
    <3> QED
      BY <2>1, <2>6, <3>2
  <2> QED
    BY <2>5, <2>6
<1> QED
  BY <1>4 DEF NothingLeaked

(* The pools hold the subpages with a free slot, each once. *)
LEMMA GivesPools ==
    ASSUME Shared
    PROVE  PoolsExact
<1>1. SubpagesOK /\ \A i \in Classes : PoolOK(i)
  BY DEF Shared, MemoryOK, PoolsOK
<1> DEFINE free == {p \in madeSubpages : ~isFull(subpages[p[1]][p[2]])}
<1>2. ASSUME NEW i \in Classes
      PROVE  /\ \A m, n \in DOMAIN pools[i] : m # n => pools[i][m] # pools[i][n]
             /\ ToSet(pools[i]) = {p \in free : subpages[p[1]][p[2]].class = i}
  <2>1. /\ pools[i] \in Seq(Chunks \X Pages)
        /\ \A m, n \in 1..Len(pools[i]) : pools[i][m] = pools[i][n] => m = n
        /\ \A c \in Chunks, p \in Pages : <<c, p>> \in ToSet(pools[i]) <=> HasRoom(subpages[c][p], i)
    BY <1>1 DEF PoolOK, Listing
  <2>2. DOMAIN pools[i] = 1..Len(pools[i]) /\ ToSet(pools[i]) \subseteq Chunks \X Pages
    BY <2>1 DEF ToSet
  <2>3. \A e : e \in {p \in free : subpages[p[1]][p[2]].class = i}
                 <=> e \in Chunks \X Pages /\ HasRoom(subpages[e[1]][e[2]], i)
    BY DEF madeSubpages, Pages, HasRoom
  <2>4. ASSUME NEW e \in Chunks \X Pages
        PROVE  e \in ToSet(pools[i]) <=> HasRoom(subpages[e[1]][e[2]], i)
    <3>1. PICK c \in Chunks, p \in Pages : e = <<c, p>>
      OBVIOUS
    <3> QED
      BY <2>1, <3>1
  <2>5. \A e : e \in ToSet(pools[i]) <=> e \in {p \in free : subpages[p[1]][p[2]].class = i}
    BY <2>2, <2>3, <2>4
  <2> HIDE DEF free
  <2>6. ToSet(pools[i]) = {p \in free : subpages[p[1]][p[2]].class = i}
    BY <2>5
  <2> QED
    BY <2>1, <2>2, <2>6
<1> QED
  BY <1>2 DEF PoolsExact

(* The chunks are in the lists of their usage, when no subpage is being    *)
(* made.                                                                   *)
LEMMA GivesLists ==
    ASSUME Shared, AtWork = {}
    PROVE  ListedByUsage
<1>1. ListsOK /\ WeighedOK(AtWork)
  BY DEF Shared, ChunksOK
<1>2. \A l \in Lists : \A m, n \in DOMAIN lists[l] : m # n => lists[l][m] # lists[l][n]
  BY <1>1 DEF ListsOK, Listing
<1>3. \A c \in Chunks : \A l \in Lists : c \in ToSet(lists[l]) <=> parent[c] = l
  BY <1>1 DEF ListsOK
<1>4. ASSUME NEW c \in live
      PROVE  /\ freeMinThreshold(parent[c]) < freeBytes(inUse[c])
             /\ freeBytes(inUse[c]) <= freeMaxThreshold(parent[c])
  <2>1. c \in Chunks /\ parent[c] # NoList
    BY DEF live
  <2>2. \A p \in Pages : <<c, p>> \notin AtWork
    OBVIOUS
  <2> QED
    BY <1>1, <2>1, <2>2 DEF WeighedOK
<1> QED
  BY <1>2, <1>3, <1>4 DEF ListedByUsage

(* Nobody holds a block of a subpage that is being made.                   *)
LEMMA SharedBytes ==
    ASSUME SharedInv
    PROVE  NoSharedBytes
<1>1. IndexInv /\ Shared
  BY DEF SharedInv
<1>2. ASSUME NEW x \in AllOf(own), <<x.chunk, x.handle.run.off>> \in AtWork PROVE FALSE
  <2>1. PICK t \in Threads : Working(t) /\ call[t].at = <<x.chunk, x.handle.run.off>>
    BY <1>2 DEF AtWork
  <2>2. PICK s : s = subpages[x.chunk][x.handle.run.off]
    OBVIOUS
  <2>3. s = subpages[call[t].at[1]][call[t].at[2]]
    BY <2>1, <2>2
  <2>4. s.bits = {}
    BY <1>1, <2>1, <2>3, FirstFree
  <2>5. s # NoSubpage
    BY <1>1, <2>1, <2>3 DEF Shared, WorkOK, SubpageAt
  <2>6. PICK H : H = AllOf(own)
    OBVIOUS
  <2>7. MemoryOK(H) /\ x \in H
    BY <1>1, <1>2, <2>6 DEF Shared
  <2>8. s = NoSubpage \/ x.handle.slot \in s.bits
    BY <2>2, <2>7, TheBlock
  <2> QED
    BY <2>4, <2>5, <2>8
<1> QED
  BY <1>1, <1>2, GivesBytes

(* Any number of threads, no two of which meet over a subpage that is      *)
(* being made: each run in use and each slot whose bit is set belongs to a *)
(* buffer, a call or a cache, so that free() of all of them frees all, and *)
(* the pool of a class holds exactly its subpages with a free slot, in     *)
(* every step of every thread.                                             *)
THEOREM NothingLeaks == Spec /\ []MadeAlone => [](NothingLeaked /\ PoolsExact)
<1>1. SharedInv => NothingLeaked /\ PoolsExact
  BY GivesNoLeak, GivesPools DEF SharedInv
<1>2. MadeAlone /\ SharedInv /\ [Next]_vars => SharedInv'
  BY SharedInductive
<1> QED
  BY <1>1, <1>2, SharedInit, PTL DEF Spec

(* Any number of threads, no two of which meet over a subpage that is      *)
(* being made: no byte belongs to two holders and no chunk is destroyed    *)
(* under a block, and whenever the lock of the arena is free, each is in   *)
(* the list of its usage.                                                  *)
THEOREM ArenaExact ==
    Spec /\ []MadeAlone => [](NoSharedBytes /\ (arenaUnlocked => ListedByUsage))
<1>1. ASSUME SharedInv, arenaUnlocked PROVE ListedByUsage
  BY <1>1, Unlocked, GivesLists DEF SharedInv
<1>2. SharedInv => NoSharedBytes /\ (arenaUnlocked => ListedByUsage)
  BY <1>1, SharedBytes
<1>3. MadeAlone /\ SharedInv /\ [Next]_vars => SharedInv'
  BY SharedInductive
<1> QED
  BY <1>2, <1>3, SharedInit, PTL DEF Spec

-----------------------------------------------------------------------------
(* One thread.  Of the subpages of a class with several slots at most one  *)
(* is wholly free.                                                         *)
Idle(s) == s # NoSubpage /\ s.bits = {}

(* OneIdleSubpage, with chunks and pages apart. *)
IdleOK == \A c, d \in Chunks, p, q \in Pages :
    /\ Idle(subpages[c][p]) /\ Idle(subpages[d][q])
    /\ subpages[c][p].class = subpages[d][q].class /\ maxNumElems[subpages[c][p].class] # 1
    => c = d /\ p = q

(* It is OneIdleSubpage. *)
LEMMA GivesIdle ==
    ASSUME IdleOK
    PROVE  OneIdleSubpage
<1> DEFINE idle == {p \in madeSubpages : subpages[p[1]][p[2]].bits = {}}
<1>1. ASSUME NEW e \in idle
      PROVE  \E c \in Chunks, p \in Pages : e = <<c, p>> /\ Idle(subpages[c][p])
  <2>1. e \in Chunks \X Pages /\ Idle(subpages[e[1]][e[2]])
    BY DEF madeSubpages, Pages, Idle
  <2>2. PICK c \in Chunks, p \in Pages : e = <<c, p>>
    BY <2>1
  <2> QED
    BY <2>1, <2>2
<1>2. ASSUME NEW e \in idle, NEW f \in idle, e # f
      PROVE  \/ subpages[e[1]][e[2]].class # subpages[f[1]][f[2]].class
             \/ maxNumElems[subpages[e[1]][e[2]].class] = 1
  <2> HIDE DEF idle
  <2>1. PICK c \in Chunks, p \in Pages : e = <<c, p>> /\ Idle(subpages[c][p])
    BY <1>1
  <2>2. PICK d \in Chunks, q \in Pages : f = <<d, q>> /\ Idle(subpages[d][q])
    BY <1>1
  <2> QED
    BY <1>2, <2>1, <2>2 DEF IdleOK
<1> QED
  BY <1>2 DEF OneIdleSubpage

(* A subpage with no slot in use is in the pool of its class. *)
LEMMA IdleInPool ==
    ASSUME SubpagesOK, PoolsOK, NEW c \in Chunks, NEW p \in Pages, NEW s, s = subpages[c][p],
           Idle(s)
    PROVE  s.class \in Classes /\ <<c, p>> \in ToSet(pools[s.class])
<1>1. SubpageIn(s, p, inUse[c]) /\ s # NoSubpage /\ s.bits = {}
  BY DEF SubpagesOK, Idle
<1>2. s.class \in Classes /\ s.bits \subseteq Slots(s.class)
  BY <1>1 DEF SubpageIn
<1>3. 0 \in Slots(s.class)
  <2>1. maxNumElems[s.class] \in Nat \ {0}
    BY <1>2, SlotsOfClass
  <2> QED
    BY <2>1 DEF Slots
<1>4. ~isFull(s)
  BY <1>1, <1>2, <1>3, FullIs
<1>5. HasRoom(s, s.class)
  BY <1>1, <1>4 DEF HasRoom
<1> QED
  BY <1>2, <1>5 DEF PoolsOK, PoolOK

(* A list without repetitions that has an element and no more than one.    *)
LEMMA OnlyElement ==
    ASSUME NEW S, NEW q, Listing(q, S), ~(Len(q) > 1), NEW a \in ToSet(q), NEW b \in ToSet(q)
    PROVE  a = b
<1>1. q \in Seq(S) /\ Len(q) \in Nat /\ DOMAIN q = 1..Len(q)
  BY DEF Listing
<1>2. PICK m \in 1..Len(q), n \in 1..Len(q) : a = q[m] /\ b = q[n]
  BY <1>1 DEF ToSet
<1>3. m = 1 /\ n = 1
  BY <1>1, <1>2
<1> QED
  BY <1>2, <1>3

(* No more of them. *)
LEMMA IdleFewer ==
    ASSUME IdleOK, \A c \in Chunks, p \in Pages : Idle(subpages'[c][p]) =>
                       Idle(subpages[c][p]) /\ subpages'[c][p].class = subpages[c][p].class
    PROVE  IdleOK'
<1>1. ASSUME NEW c \in Chunks, NEW d \in Chunks, NEW p \in Pages, NEW q \in Pages,
             Idle(subpages'[c][p]), Idle(subpages'[d][q]),
             subpages'[c][p].class = subpages'[d][q].class, maxNumElems[subpages'[c][p].class] # 1
      PROVE  c = d /\ p = q
  BY <1>1 DEF IdleOK
<1> QED
  BY <1>1 DEF IdleOK, Idle

(* One more, whose class has no other. *)
LEMMA IdleMore ==
    ASSUME IdleOK, NEW e \in Chunks, NEW r \in Pages, NEW i,
           \A c \in Chunks, p \in Pages : c # e \/ p # r => subpages'[c][p] = subpages[c][p],
           subpages'[e][r].class = i,
           \A c \in Chunks, p \in Pages : Idle(subpages[c][p]) /\ subpages[c][p].class = i
                                          /\ maxNumElems[i] # 1 => c = e /\ p = r
    PROVE  IdleOK'
<1>1. ASSUME NEW c \in Chunks, NEW d \in Chunks, NEW p \in Pages, NEW q \in Pages,
             Idle(subpages'[c][p]), Idle(subpages'[d][q]),
             subpages'[c][p].class = subpages'[d][q].class, maxNumElems[subpages'[c][p].class] # 1
      PROVE  c = d /\ p = q
  <2>1. CASE c = e /\ p = r
    <3>1. ASSUME d # e \/ q # r PROVE FALSE
      <4>1. subpages'[d][q] = subpages[d][q]
        BY <3>1
      <4>2. Idle(subpages[d][q]) /\ subpages[d][q].class = i /\ maxNumElems[i] # 1
        BY <1>1, <2>1, <4>1
      <4> QED
        BY <3>1, <4>2
    <3> QED
      BY <2>1, <3>1
  <2>2. CASE d = e /\ q = r
    <3>1. ASSUME c # e \/ p # r PROVE FALSE
      <4>1. subpages'[c][p] = subpages[c][p]
        BY <3>1
      <4>2. Idle(subpages[c][p]) /\ subpages[c][p].class = i /\ maxNumElems[i] # 1
        BY <1>1, <2>2, <4>1
      <4> QED
        BY <3>1, <4>2
    <3> QED
      BY <2>2, <3>1
  <2>3. CASE (c # e \/ p # r) /\ (d # e \/ q # r)
    <3>1. subpages'[c][p] = subpages[c][p] /\ subpages'[d][q] = subpages[d][q]
      BY <2>3
    <3> QED
      BY <1>1, <3>1 DEF IdleOK
  <2> QED
    BY <2>1, <2>2, <2>3
<1> QED
  BY <1>1 DEF IdleOK, Idle

(* freeChunk(): a subpage that becomes wholly free is released, unless the *)
(* pool of its class has no other.                                         *)
LEMMA FreeIdle ==
    ASSUME NEW H, MemoryOK(H), NEW x \in H, FreeChunk(x), IdleOK
    PROVE  IdleOK'
<1>1. PICK c, run, p, s, slot, i : /\ c = x.chunk /\ run = x.handle.run /\ p = run.off
            /\ s = subpages[c][p]
                                   /\ slot = x.handle.slot /\ i = size2sizeIdx(x.norm)
  OBVIOUS
<1>2. /\ c \in Chunks /\ p \in Pages
      /\ \/ slot = -1 /\ s = NoSubpage
         \/ s # NoSubpage /\ s.class = i /\ slot \in s.bits /\ slot \in Nat
             /\ SubpageIn(s, p, inUse[c])
  BY <1>1, TheBlock
<1>3. /\ SubpagesOK /\ PoolsOK /\ DOMAIN subpages = Chunks
          /\ \A d \in Chunks : DOMAIN subpages[d] = Pages
  BY DEF MemoryOK, SubpagesOK
<1>4. CASE slot = -1
  <2>1. subpages' = subpages
    BY <1>1, <1>4 DEF FreeChunk
  <2> QED
    BY <2>1, IdleFewer
<1>5. CASE s # NoSubpage /\ s.class = i /\ slot \in s.bits /\ slot \in Nat
            /\ SubpageIn(s, p, inUse[c])
  <2>1. PICK left : left = [s EXCEPT !.bits = @ \ {slot}, !.nextAvail = slot]
    OBVIOUS
  <2>2. PICK ends \in BOOLEAN : ends = releases(i, s, left)
    BY DEF releases
  <2>3. subpages' = [subpages EXCEPT ![c][p] = IF ends THEN NoSubpage ELSE left]
    <3>1. ~(slot < 0)
      BY <1>5
    <3> QED
      BY <1>1, <2>1, <2>2, <3>1 DEF FreeChunk
  <2>4. left.class = i /\ left.bits = s.bits \ {slot} /\ i \in Classes /\ s.bits \subseteq Slots(i)
    BY <1>5, <2>1 DEF SubpageIn
  <2>5. \A d \in Chunks, q \in Pages : d # c \/ q # p => subpages'[d][q] = subpages[d][q]
    BY <1>2, <1>3, <2>3
  <2>6. subpages'[c][p] = IF ends THEN NoSubpage ELSE left
    BY <1>2, <1>3, <2>3
  <2>7. CASE ends \/ left.bits # {}
    <3>1. ~Idle(subpages'[c][p])
      BY <2>6, <2>7 DEF Idle
    <3>2. ASSUME NEW d \in Chunks, NEW q \in Pages, Idle(subpages'[d][q])
          PROVE  Idle(subpages[d][q]) /\ subpages'[d][q].class = subpages[d][q].class
      <4>1. subpages'[d][q] = subpages[d][q]
        BY <2>5, <3>1, <3>2
      <4> QED
        BY <3>2, <4>1
    <3> QED
      BY <3>2, IdleFewer
  <2>8. CASE ~ends /\ left.bits = {}
    <3>1. isFull(s) \/ ~(Len(pools[i]) > 1)
      BY <2>2, <2>8 DEF releases
    <3>2. subpages'[c][p].class = i
      BY <2>4, <2>6, <2>8
    <3>3. ASSUME NEW d \in Chunks, NEW q \in Pages, Idle(subpages[d][q]), subpages[d][q].class = i,
                 maxNumElems[i] # 1
          PROVE  d = c /\ q = p
      <4>1. CASE isFull(s)
        <5>1. s.bits = Slots(i)
          BY <1>5, <2>4, <4>1, FullIs
        <5>2. PICK n : n = maxNumElems[i]
          OBVIOUS
        <5>3. n \in Nat \ {0} /\ n # 1
          BY <2>4, <3>3, <5>2, SlotsOfClass
        <5>4. 0 \in s.bits /\ 1 \in s.bits
          BY <5>1, <5>2, <5>3 DEF Slots
        <5> QED
          BY <2>4, <2>8, <5>4
      <4>2. CASE ~isFull(s)
        <5>1. HasRoom(s, i) /\ PoolOK(i)
          BY <1>3, <1>5, <2>4, <4>2 DEF HasRoom, PoolsOK
        <5>2. <<c, p>> \in ToSet(pools[i]) /\ Listing(pools[i], Chunks \X Pages)
          BY <1>1, <1>2, <5>1 DEF PoolOK
        <5>3. <<d, q>> \in ToSet(pools[i])
          BY <1>3, <3>3, IdleInPool
        <5>4. <<c, p>> = <<d, q>>
          BY <3>1, <4>2, <5>2, <5>3, OnlyElement
        <5> QED
          BY <5>4
      <4> QED
        BY <4>1, <4>2
    <3> QED
      BY <1>2, <2>5, <3>2, <3>3, IdleMore
  <2> QED
    BY <2>7, <2>8
<1> QED
  BY <1>2, <1>4, <1>5

(* free(): no more than one, and no assertion that another thread can make *)
(* fail is made there.                                                     *)
LEMMA GivesBackIdle ==
    ASSUME Shared, IdleOK, failed = {}, GivesBack(AllOf(own), AllOf(own'))
    PROVE  IdleOK' /\ failed' = {}
<1>1. CASE UNCHANGED <<arenaVars, failed>>
  BY <1>1, IdleFewer DEF arenaVars
<1>2. CASE \E x \in AllOf(own) : FreeChunk(x)
  <2>1. PICK H, A : H = AllOf(own) /\ A = AtWork
    OBVIOUS
  <2>2. PICK x \in H : FreeChunk(x)
    BY <1>2, <2>1
  <2>3. MemoryOK(H) /\ ChunksOK(A) /\ A = {}
    <3>1. arenaUnlocked
      BY <2>2 DEF FreeChunk
    <3> QED
      BY <2>1, <3>1, Unlocked DEF Shared
  <2>4. IdleOK'
    BY <2>2, <2>3, FreeIdle
  <2>5. PICK K : K = H \ {x}
    OBVIOUS
  <2>6. failed' = failed
    BY <2>2, <2>3, <2>5, FreeArena
  <2> QED
    BY <2>4, <2>6
<1> QED
  BY <1>1, <1>2 DEF GivesBack

(* A slot is taken: its subpage is not wholly free. *)
LEMMA TakeIdle ==
    ASSUME SubpagesOK, IdleOK, NEW i, NEW c \in Chunks, NEW p \in Pages, NEW q, q = <<c, p>>,
           NEW k, subpages[c][p] # NoSubpage, TakeSlot(i, q, k, {})
    PROVE  IdleOK'
<1>1. PICK s, u : s = subpages[c][p] /\ u = Taken(s, k)
  OBVIOUS
<1>2. DOMAIN subpages = Chunks /\ (\A d \in Chunks : DOMAIN subpages[d] = Pages)
       /\ SubpageIn(s, p, inUse[c])
  BY <1>1 DEF SubpagesOK
<1>3. subpages' = [subpages EXCEPT ![c][p] = u]
  BY <1>1 DEF TakeSlot
<1>4. u.bits = s.bits \cup {k}
  BY <1>1, <1>2 DEF SubpageIn, Taken
<1>5. ASSUME NEW d \in Chunks, NEW r \in Pages, Idle(subpages'[d][r])
      PROVE  Idle(subpages[d][r]) /\ subpages'[d][r].class = subpages[d][r].class
  <2>1. CASE d = c /\ r = p
    <3>1. subpages'[d][r] = u
      BY <1>2, <1>3, <2>1
    <3>2. u.bits # {}
      BY <1>4
    <3> QED
      BY <1>5, <3>1, <3>2 DEF Idle
  <2>2. CASE d # c \/ r # p
    <3>1. subpages'[d][r] = subpages[d][r]
      BY <1>2, <1>3, <2>2
    <3> QED
      BY <1>5, <3>1
  <2> QED
    BY <2>1, <2>2
<1> QED
  BY <1>5, IdleFewer

-----------------------------------------------------------------------------
(* There is no more than one thread. *)
Alone == \A t, u \in Threads : t = u

(* A call for a block of a small class. *)
Small(c) == size2sizeIdx(c.size) <= m_smallMaxSizeIdx

(* Nobody to meet. *)
LEMMA AloneMakes == Alone => MadeAlone
BY DEF Alone, MadeAlone, Meets

(* The pool that it has found empty is so still. *)
EmptyOK(t) == call[t].pc = "arena" /\ Small(call[t]) => pools[size2sizeIdx(call[t].size)] = <<>>
(* A thread in a call, or after the first of some thread. *)
Uses(t) == call[t] # Quiet \/ \E b \in Bufs : block[b] # NoBlock

(* It has a cache from its first call on. *)
CachedOK(t) == Uses(t) => t \in m_poolTheadCache

(* What one thread leaves undisturbed from one of its steps to the next.   *)
SoloOK == \A t \in Threads : EmptyOK(t) /\ CachedOK(t)

(* The inductive invariant for one thread. *)
SoloInv == SharedInv /\ failed = {} /\ IdleOK /\ SoloOK

(* What a step of the only thread keeps, where no race fails it. *)
Solos == IdleOK' /\ SoloOK' /\ failed' \cap CacheMissing = {}

(* A thread that neither makes a subpage nor is about to. *)
Elsewhere(t) == ~Working(t) /\ ~(call[t].pc = "arena" /\ Small(call[t]))

(* A step after which the thread makes no subpage. *)
LEMMA SoloElsewhere ==
    ASSUME Alone, NEW t \in Threads, Elsewhere(t)', t \in m_poolTheadCache'
    PROVE  SoloOK'
<1>1. \A u \in Threads : u = t
  BY DEF Alone
<1> QED
  BY <1>1 DEF SoloOK, EmptyOK, CachedOK, Elsewhere, Working

(* A class without subpages is not looked for in a pool. *)
LEMMA AfterCacheElsewhere ==
    ASSUME NEW c, DOMAIN c = CallFields, NEW hit, NEW d, d = AfterCache(c, hit)
    PROVE  d.pc \notin {"slot", "take"} /\ ~(d.pc = "arena" /\ Small(d))
<1>1. d.pc \in {"idle", "free", "pool", "arena"}
  BY AfterCachePc
<1>2. CASE hit
  <2>1. d.pc \in {"idle", "free"}
    BY <1>2, ServedPc DEF AfterCache
  <2> QED
    BY <2>1
<1>3. CASE ~hit
  <2>1. PICK pc, todo : /\ pc = IF Small(c) THEN "pool" ELSE "arena"
                        /\ todo = [i \in Classes |-> 0]
    OBVIOUS
  <2>2. d = [c EXCEPT !.pc = pc, !.todo = todo]
    BY <1>3, <2>1 DEF AfterCache, Small
  <2>3. d.pc = pc /\ d.size = c.size
    BY <2>2 DEF CallFields
  <2>4. Small(d) <=> Small(c)
    BY <2>3 DEF Small
  <2>5. Small(c) => pc = "pool"
    BY <2>1
  <2> QED
    BY <1>1, <2>3, <2>4, <2>5
<1> QED
  BY <1>2, <1>3

(* allocate() up to the first lock is one. *)
LEMMA AllocateElsewhere ==
    ASSUME IndexInv, NEW t \in Threads, NEW c, DOMAIN c = CallFields, Allocate(t, c)
    PROVE  UNCHANGED <<arenaVars, failed>> /\ Elsewhere(t)'
<1>1. DOMAIN call = Threads /\ UNCHANGED <<arenaVars, failed>>
  BY DEF IndexInv, CallsOK, Allocate
<1>2. \E d : call' = [call EXCEPT ![t] = d] /\ d.pc \notin {"slot", "take"}
       /\ ~(d.pc = "arena" /\ Small(d))
  <2>1. CASE size2sizeIdx(c.size) = m_nSizes
    <3>1. PICK d : d = Served(c)
      OBVIOUS
    <3>2. call' = [call EXCEPT ![t] = d]
      BY <2>1, <3>1 DEF Allocate, AllocateHuge
    <3>3. d.pc \in {"idle", "free"}
      BY <3>1, ServedPc
    <3> QED
      BY <3>2, <3>3
  <2>2. CASE size2sizeIdx(c.size) # m_nSizes
    <3>1. \/ \E hit : call' = [call EXCEPT ![t] = AfterCache(c, hit)]
          \/ \E hit, todo : call' = [call EXCEPT ![t] = [c EXCEPT !.pc = "trim", !.hit = hit, !.todo = todo]]
      BY <2>2 DEF Allocate, CacheAllocate
    <3>2. CASE \E hit : call' = [call EXCEPT ![t] = AfterCache(c, hit)]
      <4>1. PICK hit, d : call' = [call EXCEPT ![t] = d] /\ d = AfterCache(c, hit)
        BY <3>2
      <4> QED
        BY <4>1, AfterCacheElsewhere
    <3>3. CASE \E hit, todo : call' = [call EXCEPT ![t] = [c EXCEPT !.pc = "trim", !.hit = hit, !.todo = todo]]
      <4>1. PICK hit, todo, d : call' = [call EXCEPT ![t] = d]
                  /\ d = [c EXCEPT !.pc = "trim", !.hit = hit, !.todo = todo]
        BY <3>3
      <4>2. d.pc = "trim"
        BY <4>1 DEF CallFields
      <4> QED
        BY <4>1, <4>2
    <3> QED
      BY <3>1, <3>2, <3>3
  <2> QED
    BY <2>1, <2>2
<1>3. PICK d : call' = [call EXCEPT ![t] = d] /\ d.pc \notin {"slot", "take"}
            /\ ~(d.pc = "arena" /\ Small(d))
  BY <1>2
<1>4. call'[t] = d
  BY <1>1, <1>3
<1> QED
  BY <1>1, <1>3, <1>4 DEF Elsewhere, Working, Small

-----------------------------------------------------------------------------
(* What a thread does with the bytes of a buffer. *)
LEMMA BytesSolo ==
    ASSUME Alone, SoloInv, NEW t \in Threads, NEW b \in Bufs, Begins(t, b), block[b] # NoBlock,
           UNCHANGED <<arenaVars, cacheVars, block, m_cache, call, failed>>
    PROVE  Solos
<1>1. IdleOK /\ failed = {} /\ t \in m_poolTheadCache
  BY DEF SoloInv, SoloOK, CachedOK, Uses
<1>2. IdleOK'
  BY <1>1, IdleFewer DEF arenaVars
<1>3. call'[t] = Quiet /\ t \in m_poolTheadCache'
  BY <1>1 DEF Begins, cacheVars
<1>4. Elsewhere(t)'
  BY <1>3 DEF Elsewhere, Working, Quiet
<1> QED
  BY <1>1, <1>2, <1>3, <1>4, SoloElsewhere DEF Solos

(* capacity(). *)
LEMMA SetCapacitySolo ==
    ASSUME Alone, SoloInv, NEW t \in Threads, NEW b \in Bufs, NEW new \in AskedSizes, NEW n,
           SetCapacity(t, b, new, n)
    PROVE  Solos
<1>1. Begins(t, b) /\ block[b] # NoBlock /\ IndexInv /\ IdleOK /\ failed = {}
       /\ t \in m_poolTheadCache
  BY DEF SetCapacity, SoloInv, SharedInv, SoloOK, CachedOK, Uses
<1>2. CASE UNCHANGED <<arenaVars, cacheVars, block, m_cache, call, failed>>
  BY <1>1, <1>2, BytesSolo
<1>3. CASE Allocate(t, Allocating(b, new, block[b], n)) /\ UNCHANGED m_poolTheadCache
  <2>1. PICK c : c = Allocating(b, new, block[b], n)
    OBVIOUS
  <2>2. DOMAIN c = CallFields /\ Allocate(t, c)
    BY <1>3, <2>1, NewCall
  <2>3. UNCHANGED <<arenaVars, failed>> /\ Elsewhere(t)'
    BY <1>1, <2>2, AllocateElsewhere
  <2>4. IdleOK'
    BY <1>1, <2>3, IdleFewer DEF arenaVars
  <2> QED
    BY <1>1, <1>3, <2>3, <2>4, SoloElsewhere DEF Solos
<1> QED
  BY <1>1, <1>2, <1>3 DEF SetCapacity

(* poolBuffer(): the thread gets its cache. *)
LEMMA PoolBufferSolo ==
    ASSUME Alone, SoloInv, NEW t \in Threads, NEW b \in Bufs, PoolBuffer(t, b)
    PROVE  Solos
<1>1. IndexInv /\ IdleOK /\ failed = {} /\ t \in m_poolTheadCache'
  BY DEF PoolBuffer, ALLOCATOR, SoloInv, SharedInv
<1>2. PICK size \in Sizes : Allocate(t, Allocating(b, size, NoBlock, 0))
  BY DEF PoolBuffer
<1>3. PICK c : c = Allocating(b, size, NoBlock, 0) /\ Allocate(t, c)
  BY <1>2
<1>4. DOMAIN c = CallFields
  BY <1>3, NewCall
<1>5. UNCHANGED <<arenaVars, failed>> /\ Elsewhere(t)'
  BY <1>1, <1>3, <1>4, AllocateElsewhere
<1>6. IdleOK'
  BY <1>1, <1>5, IdleFewer DEF arenaVars
<1> QED
  BY <1>1, <1>5, <1>6, SoloElsewhere DEF Solos

(* The calls on a buffer. *)
LEMMA BufferSolo ==
    ASSUME Alone, SoloInv, NEW t \in Threads, NEW b \in Bufs,
           PoolBuffer(t, b) \/ Capacity(t, b) \/ WriteBytes(t, b) \/ Retrieve(t, b)
               \/ Deallocate(t, b)
    PROVE  Solos
<1>1. CASE Capacity(t, b)
  <2>1. PICK new \in AskedSizes : SetCapacity(t, b, new, 0)
    BY <1>1 DEF Capacity, AskedSizes
  <2> QED
    BY <2>1, SetCapacitySolo
<1>2. CASE Retrieve(t, b)
  BY <1>2, BytesSolo DEF Retrieve
<1>3. CASE WriteBytes(t, b)
  <2>1. PICK target : target = m_writerIndex[b] + WriteSize
    OBVIOUS
  <2>2. Begins(t, b) /\ target <= MaxWritten /\ block[b] # NoBlock /\ IndexInv
    BY <1>3, <2>1 DEF WriteBytes, SoloInv, SharedInv
  <2>3. CASE target > m_length[b]
    <3>1. SetCapacity(t, b, calculateNewCapacity(target), WriteSize)
      BY <1>3, <2>1, <2>3 DEF WriteBytes
    <3>2. target \in 1..MaxWritten
      BY <2>1, <2>2, BufAssumption DEF IndexInv, BufsOK
    <3>3. PICK new \in AskedSizes : new = calculateNewCapacity(target)
      BY <3>2 DEF AskedSizes
    <3> QED
      BY <3>1, <3>3, SetCapacitySolo
  <2>4. CASE ~(target > m_length[b])
    <3>1. UNCHANGED <<arenaVars, cacheVars, block, m_cache, call, failed>>
      BY <1>3, <2>1, <2>4 DEF WriteBytes
    <3> QED
      BY <2>2, <3>1, BytesSolo
  <2> QED
    BY <2>3, <2>4
<1>4. CASE Deallocate(t, b)
  <2>1. Begins(t, b) /\ block[b] # NoBlock /\ UNCHANGED <<call, m_poolTheadCache>>
    BY <1>4 DEF Deallocate, FreeBlock, cacheVars
  <2>2. IndexInv /\ Shared /\ HoldersOK /\ IdleOK /\ failed = {} /\ t \in m_poolTheadCache
    BY <2>1 DEF SoloInv, SharedInv, Shared, SoloOK, CachedOK, Uses
  <2>3. IdleOK' /\ failed' = {}
    BY <1>4, <2>2, DeallocateOwn, GivesBackIdle
  <2>4. call'[t] = Quiet
    BY <2>1 DEF Begins
  <2>5. Elsewhere(t)'
    BY <2>4 DEF Elsewhere, Working, Quiet
  <2> QED
    BY <2>1, <2>2, <2>3, <2>5, SoloElsewhere DEF Solos
<1> QED
  BY <1>1, <1>2, <1>3, <1>4, PoolBufferSolo

(* trim(), and the end of reallocate(). *)
LEMMA TrimSolo ==
    ASSUME Alone, SoloInv, NEW t \in Threads, Trim(t) \/ FreeOld(t)
    PROVE  Solos
<1>1. PICK c : c = call[t]
  OBVIOUS
<1>2. c.pc \in {"trim", "free"} /\ UNCHANGED m_poolTheadCache
  BY <1>1 DEF Trim, FreeOld, FreeBlock, cacheVars
<1>3. IndexInv /\ Shared /\ HoldersOK /\ IdleOK /\ failed = {}
  BY DEF SoloInv, SharedInv, Shared
<1>4. DOMAIN c = CallFields /\ DOMAIN call = Threads /\ c # Quiet
  BY <1>1, <1>2, <1>3, TheCall DEF IndexInv, CallsOK
<1>5. t \in m_poolTheadCache
  BY <1>1, <1>4 DEF SoloInv, SoloOK, CachedOK, Uses
<1>6. IdleOK' /\ failed' = {}
  BY <1>3, TrimOwn, FreeOldOwn, GivesBackIdle
<1>7. Elsewhere(t)'
  <2>1. CASE call' = [call EXCEPT ![t] = Quiet]
    BY <1>4, <2>1 DEF Elsewhere, Working, Quiet
  <2>2. CASE call' = [call EXCEPT ![t] = AfterCache(@, @.hit)]
    <3>1. PICK d : d = AfterCache(c, c.hit)
      OBVIOUS
    <3>2. d.pc \notin {"slot", "take"} /\ ~(d.pc = "arena" /\ Small(d))
      BY <1>4, <3>1, AfterCacheElsewhere
    <3>3. call'[t] = d
      BY <1>1, <1>4, <2>2, <3>1
    <3> QED
      BY <3>2, <3>3 DEF Elsewhere, Working, Small
  <2>3. CASE c.pc = "trim" /\ \E todo : call' = [call EXCEPT ![t].todo = todo]
    <3>1. PICK todo : call' = [call EXCEPT ![t].todo = todo]
      BY <2>3
    <3>2. call'[t].pc = "trim"
      BY <1>1, <1>4, <2>3, <3>1 DEF CallFields
    <3> QED
      BY <3>2 DEF Elsewhere, Working
  <2>4. CASE Trim(t)
    <3>1. c.pc = "trim"
      BY <1>1, <2>4 DEF Trim
    <3> QED
      BY <2>2, <2>3, <2>4, <3>1 DEF Trim
  <2>5. CASE FreeOld(t)
    BY <2>1, <2>5 DEF FreeOld
  <2> QED
    BY <2>4, <2>5
<1> QED
  BY <1>2, <1>5, <1>6, <1>7, SoloElsewhere DEF Solos

(* A call of the only thread: it has a cache.                              *)
LEMMA CallSolo ==
    ASSUME SoloInv, NEW t \in Threads, NEW c, c = call[t], c.pc # "idle"
    PROVE  /\ IndexInv /\ Shared /\ IdleOK /\ failed = {} /\ DOMAIN call = Threads
               /\ DOMAIN c = CallFields
           /\ t \in m_poolTheadCache /\ EmptyOK(t)
           /\ c.pc # "free" => size2sizeIdx(c.size) \in Classes
<1>1. IndexInv /\ Shared /\ IdleOK /\ failed = {} /\ DOMAIN call = Threads
  BY DEF SoloInv, SharedInv, IndexInv, CallsOK
<1>2. c # Quiet /\ DOMAIN c = CallFields /\ (c.pc # "free" => size2sizeIdx(c.size) \in Classes)
  BY <1>1, TheCall
<1>3. t \in m_poolTheadCache /\ EmptyOK(t)
  BY <1>2 DEF SoloInv, SoloOK, CachedOK, Uses
<1> QED
  BY <1>1, <1>2, <1>3

(* A call that has its block makes no subpage any more. *)
LEMMA ServedElsewhere ==
    ASSUME NEW t \in Threads, DOMAIN call = Threads, NEW c, DOMAIN c = CallFields,
           call' = [call EXCEPT ![t] = Served(c)]
    PROVE  Elsewhere(t)'
<1>1. PICK d : d = Served(c)
  OBVIOUS
<1>2. d.pc \in {"idle", "free"}
  BY <1>1, ServedPc
<1>3. call'[t] = d
  BY <1>1
<1> QED
  BY <1>2, <1>3 DEF Elsewhere, Working

(* A slot of a subpage of the pool: FromPoolShared has its bit clear.      *)
LEMMA FromPoolSolo ==
    ASSUME Alone, SoloInv, NEW t \in Threads, AllocateFromPool(t)
    PROVE  Solos
<1>1. PICK c, i, q, k : /\ c = call[t] /\ i = size2sizeIdx(c.size) /\ q = Head(pools[i])
                        /\ k = nextSlot(subpages[q[1]][q[2]])
  OBVIOUS
<1>2. /\ c.pc = "pool" /\ pools[i] # <<>> /\ TakeSlot(i, q, k, {})
          /\ call' = [call EXCEPT ![t] = Served(c)]
      /\ UNCHANGED m_poolTheadCache
  BY <1>1 DEF AllocateFromPool, cacheVars
<1>3. /\ IndexInv /\ Shared /\ IdleOK /\ failed = {} /\ DOMAIN call = Threads
          /\ DOMAIN c = CallFields
      /\ t \in m_poolTheadCache /\ i \in Classes
  BY <1>1, <1>2, CallSolo
<1>4. SubpagesOK /\ PoolOK(i)
  BY <1>3 DEF Shared, MemoryOK, PoolsOK
<1>5. \E d \in Chunks, p \in Pages : q = <<d, p>> /\ subpages[d][p] # NoSubpage
  <2>1. PICK l, S : l = pools[i] /\ S = Chunks \X Pages
    OBVIOUS
  <2>2. l \in Seq(S) /\ l # <<>> /\ q = Head(l)
    BY <1>1, <1>2, <1>4, <2>1 DEF PoolOK, Listing
  <2>5. q = l[1] /\ 1 \in DOMAIN l /\ q \in S
    BY <2>2
  <2>3. q \in ToSet(pools[i]) /\ q \in Chunks \X Pages
    BY <2>1, <2>5 DEF ToSet
  <2>4. PICK d \in Chunks, p \in Pages : q = <<d, p>>
    BY <2>3
  <2> QED
    BY <1>4, <2>3, <2>4 DEF PoolOK, HasRoom
<1>6. IdleOK'
  BY <1>2, <1>3, <1>4, <1>5, TakeIdle
<1>7. failed' = {}
  BY <1>3, AloneMakes, FromPoolShared
<1>8. Elsewhere(t)'
  BY <1>2, <1>3, ServedElsewhere
<1> QED
  BY <1>2, <1>3, <1>6, <1>7, <1>8, SoloElsewhere DEF Solos

(* The pool stays empty until the thread has the lock of the arena.        *)
LEMMA PoolEmptySolo ==
    ASSUME Alone, SoloInv, NEW t \in Threads, PoolEmpty(t)
    PROVE  Solos
<1>1. PICK c, d, i : c = call[t] /\ d = [c EXCEPT !.pc = "arena"] /\ i = size2sizeIdx(c.size)
  OBVIOUS
<1>2. /\ c.pc = "pool" /\ call' = [call EXCEPT ![t] = d] /\ pools[i] = <<>>
      /\ UNCHANGED <<subpages, pools, m_poolTheadCache, failed>>
  BY <1>1 DEF PoolEmpty, arenaVars, cacheVars
<1>3. /\ IdleOK /\ failed = {} /\ DOMAIN call = Threads /\ DOMAIN c = CallFields
          /\ t \in m_poolTheadCache
  BY <1>1, <1>2, CallSolo
<1>4. IdleOK'
  BY <1>2, <1>3, IdleFewer
<1>5. call'[t] = d /\ d.pc = "arena" /\ d.size = c.size
  BY <1>1, <1>2, <1>3 DEF CallFields
<1>6. EmptyOK(t)' /\ CachedOK(t)'
  BY <1>1, <1>2, <1>3, <1>5 DEF EmptyOK, CachedOK, Working
<1>7. \A u \in Threads : u = t
  BY DEF Alone
<1> QED
  BY <1>2, <1>3, <1>4, <1>6, <1>7 DEF SoloOK, Solos

(* A subpage is made for a class that has no other with a free slot.       *)
LEMMA NormalSolo ==
    ASSUME Alone, SoloInv, NEW t \in Threads, AllocateNormal(t)
    PROVE  Solos
<1>1. PICK c, i : c = call[t] /\ i = size2sizeIdx(c.size)
  OBVIOUS
<1>2. c.pc = "arena" /\ Search(t, 0)
  BY <1>1 DEF AllocateNormal
<1>3. /\ IndexInv /\ Shared /\ IdleOK /\ failed = {} /\ DOMAIN call = Threads
          /\ DOMAIN c = CallFields
      /\ t \in m_poolTheadCache /\ EmptyOK(t) /\ i \in Classes
  BY <1>1, <1>2, CallSolo
<1>4. failed' = {}
  BY <1>3, AloneMakes, NormalShared
<1>5. SubpagesOK /\ PoolsOK /\ DOMAIN subpages = Chunks
       /\ \A e \in Chunks : DOMAIN subpages[e] = Pages
  BY <1>3 DEF Shared, MemoryOK, SubpagesOK
<1>6. m_smallMaxSizeIdx \in Int /\ i \in Int
  BY <1>3, ClassesAssumption DEF Classes
<1>7. \/ UNCHANGED <<subpages, cacheVars>> /\ call' = [call EXCEPT ![t] = Served(c)]
      \/ /\ i <= m_smallMaxSizeIdx /\ UNCHANGED cacheVars
         /\ \E e \in Chunks, p \in Pages :
             /\ subpages' = [subpages EXCEPT ![e][p] = FreshSubpage(i)]
             /\ call' = [call EXCEPT ![t].pc = "slot", ![t].at = <<e, p>>]
  <2>1. PICK e \in Chunks : \E g \in BestFits(inUse[e], classPages[i]) :
           IF i > m_smallMaxSizeIdx
           THEN /\ ChunkGives(t, e, inUse[e] \cup {RunAt(g.off, classPages[i])},
                            BlockOf(e, Handle(RunAt(g.off, classPages[i]), -1), classPages[i] * pageSize,
                                    cachedBuffer(e)))
                /\ UNCHANGED <<subpages, pools, failed>>
           ELSE /\ subpages' = [subpages EXCEPT ![e][g.off] = FreshSubpage(i)]
                /\ call' = [call EXCEPT ![t].pc = "slot", ![t].at = <<e, g.off>>]
                /\ UNCHANGED cacheVars
    BY <1>1, <1>2 DEF Search, FreshSubpage
  <2>5. PICK g \in BestFits(inUse[e], classPages[i]) :
           IF i > m_smallMaxSizeIdx
           THEN /\ ChunkGives(t, e, inUse[e] \cup {RunAt(g.off, classPages[i])},
                            BlockOf(e, Handle(RunAt(g.off, classPages[i]), -1), classPages[i] * pageSize,
                                    cachedBuffer(e)))
                /\ UNCHANGED <<subpages, pools, failed>>
           ELSE /\ subpages' = [subpages EXCEPT ![e][g.off] = FreshSubpage(i)]
                /\ call' = [call EXCEPT ![t].pc = "slot", ![t].at = <<e, g.off>>]
                /\ UNCHANGED cacheVars
    BY <2>1
  <2>2. g.off \in Pages
    BY DEF BestFits, Gaps, Run, Pages
  <2>3. CASE i > m_smallMaxSizeIdx
    BY <1>1, <2>5, <2>3 DEF ChunkGives
  <2>4. CASE ~(i > m_smallMaxSizeIdx)
    <3>1. i <= m_smallMaxSizeIdx
      BY <1>6, <2>4
    <3> QED
      BY <2>2, <2>4, <2>5, <3>1
  <2> QED
    BY <2>3, <2>4
<1>8. CASE UNCHANGED <<subpages, cacheVars>> /\ call' = [call EXCEPT ![t] = Served(c)]
  <2>1. IdleOK'
    BY <1>3, <1>8, IdleFewer
  <2>2. Elsewhere(t)'
    BY <1>3, <1>8, ServedElsewhere
  <2> QED
    BY <1>3, <1>4, <1>8, <2>1, <2>2, SoloElsewhere DEF Solos, cacheVars
<1>9. ASSUME i <= m_smallMaxSizeIdx, UNCHANGED cacheVars, NEW e \in Chunks, NEW p \in Pages,
             subpages' = [subpages EXCEPT ![e][p] = FreshSubpage(i)],
             call' = [call EXCEPT ![t].pc = "slot", ![t].at = <<e, p>>]
      PROVE  Solos
  <2>1. pools[i] = <<>>
    BY <1>1, <1>2, <1>3, <1>9 DEF EmptyOK, Small
  <2>2. ASSUME NEW d \in Chunks, NEW q \in Pages, Idle(subpages[d][q]), subpages[d][q].class = i
        PROVE  FALSE
    <3>1. <<d, q>> \in ToSet(pools[i])
      BY <1>5, <2>2, IdleInPool
    <3> QED
      BY <2>1, <3>1 DEF ToSet
  <2>3. subpages'[e][p] = FreshSubpage(i)
    BY <1>5, <1>9
  <2>4. subpages'[e][p].class = i /\ subpages'[e][p].bits = {}
    BY <2>3 DEF FreshSubpage
  <2>5. \A d \in Chunks, q \in Pages : d # e \/ q # p => subpages'[d][q] = subpages[d][q]
    BY <1>5, <1>9
  <2>6. IdleOK'
    BY <1>3, <2>2, <2>4, <2>5, IdleMore
  <2>7. call'[t].pc = "slot" /\ call'[t].at = <<e, p>>
    BY <1>1, <1>3, <1>9 DEF CallFields
  <2>8. EmptyOK(t)' /\ CachedOK(t)'
    <3>1. t \in m_poolTheadCache'
      BY <1>3, <1>9 DEF cacheVars
    <3> QED
      BY <2>7, <3>1 DEF EmptyOK, CachedOK
  <2>9. \A u \in Threads : u = t
    BY DEF Alone
  <2> QED
    BY <1>4, <2>6, <2>8, <2>9 DEF SoloOK, Solos
<1> QED
  BY <1>7, <1>8, <1>9

(* Its first slot is free, and taken once. *)
LEMMA SlotSolo ==
    ASSUME Alone, SoloInv, NEW t \in Threads, ChooseFirstSlot(t) \/ TakeFirstSlot(t)
    PROVE  Solos
<1>1. PICK c, i, q, k : c = call[t] /\ i = size2sizeIdx(c.size) /\ q = c.at /\ k = c.slot
  OBVIOUS
<1>2. c.pc \in {"slot", "take"} /\ Working(t)
  BY <1>1 DEF ChooseFirstSlot, TakeFirstSlot, Working
<1>3. /\ IndexInv /\ Shared /\ IdleOK /\ failed = {} /\ DOMAIN call = Threads
      /\ DOMAIN c = CallFields /\ t \in m_poolTheadCache
  BY <1>1, <1>2, CallSolo
<1>4. failed' = {}
  BY <1>3, AloneMakes, ChooseShared, TakeShared
<1>5. PICK e \in Chunks, p \in Pages : q = <<e, p>> /\ subpages[e][p] # NoSubpage
  BY <1>1, <1>2, <1>3 DEF Shared, WorkOK, SubpageAt
<1>6. PICK s : s = subpages[c.at[1]][c.at[2]]
  OBVIOUS
<1>7. ~isFull(s)
  BY <1>1, <1>2, <1>3, <1>6, FirstFree
<1>8. CASE ChooseFirstSlot(t)
  <2>1. /\ call' = [call EXCEPT ![t].pc = "take", ![t].slot = nextSlot(s)]
        /\ UNCHANGED <<subpages, m_poolTheadCache>>
    BY <1>1, <1>6, <1>7, <1>8 DEF ChooseFirstSlot, arenaVars, cacheVars
  <2>2. call'[t].pc = "take"
    BY <1>1, <1>3, <2>1 DEF CallFields
  <2>3. IdleOK'
    BY <1>3, <2>1, IdleFewer
  <2>4. EmptyOK(t)' /\ CachedOK(t)'
    BY <1>3, <2>1, <2>2 DEF EmptyOK, CachedOK
  <2>5. \A u \in Threads : u = t
    BY DEF Alone
  <2> QED
    BY <1>4, <2>3, <2>4, <2>5 DEF SoloOK, Solos
<1>9. CASE TakeFirstSlot(t)
  <2>1. Torn(t) = {{}}
    BY <1>1, <1>2, AloneMakes, NotTorn
  <2>2. /\ TakeSlot(i, q, k, {}) /\ call' = [call EXCEPT ![t] = Served(c)]
        /\ UNCHANGED m_poolTheadCache
    BY <1>1, <1>9, <2>1 DEF TakeFirstSlot, ChunkGives, cacheVars
  <2>3. SubpagesOK
    BY <1>3 DEF Shared, MemoryOK
  <2>4. IdleOK'
    BY <1>3, <1>5, <2>2, <2>3, TakeIdle
  <2>5. Elsewhere(t)'
    BY <1>3, <2>2, ServedElsewhere
  <2> QED
    BY <1>3, <1>4, <2>2, <2>4, <2>5, SoloElsewhere DEF Solos
<1> QED
  BY <1>8, <1>9

-----------------------------------------------------------------------------

(* Each action keeps it. *)
LEMMA SoloStep ==
    ASSUME Alone, SoloInv, Next
    PROVE  Solos
<1>1. PICK t \in Threads :
    \/ \E b \in Bufs : \/ PoolBuffer(t, b) \/ Capacity(t, b) \/ WriteBytes(t, b)
                       \/ Retrieve(t, b) \/ Deallocate(t, b)
    \/ Trim(t) \/ AllocateFromPool(t) \/ PoolEmpty(t) \/ AllocateNormal(t)
    \/ ChooseFirstSlot(t) \/ TakeFirstSlot(t) \/ FreeOld(t)
  BY DEF Next
<1>2. CASE \E b \in Bufs : \/ PoolBuffer(t, b) \/ Capacity(t, b) \/ WriteBytes(t, b)
                           \/ Retrieve(t, b) \/ Deallocate(t, b)
  BY <1>2, BufferSolo
<1>3. CASE Trim(t) \/ FreeOld(t)
  BY <1>3, TrimSolo
<1>4. CASE AllocateFromPool(t) \/ PoolEmpty(t) \/ AllocateNormal(t)
  BY <1>4, FromPoolSolo, PoolEmptySolo, NormalSolo
<1>5. CASE ChooseFirstSlot(t) \/ TakeFirstSlot(t)
  BY <1>5, SlotSolo
<1> QED
  BY <1>1, <1>2, <1>3, <1>4, <1>5

(* It is inductive when there is one thread. *)
LEMMA SoloInductive == Alone => (SoloInv /\ [Next]_vars => SoloInv')
<1> SUFFICES ASSUME Alone, SoloInv, [Next]_vars PROVE SoloInv'
  OBVIOUS
<1>1. SharedInv'
  BY AloneMakes, SharedInductive DEF SoloInv
<1>2. CASE Next
  <2>1. Solos
    BY <1>2, SoloStep
  <2>2. failed' = {}
    BY <1>1, <2>1 DEF Solos, SharedInv
  <2> QED
    BY <1>1, <2>1, <2>2 DEF Solos, SoloInv
<1>3. CASE UNCHANGED vars
  <2>1. UNCHANGED <<subpages, pools, m_poolTheadCache, block, call, failed>>
    BY <1>3 DEF vars, arenaVars, cacheVars, bufVars
  <2>2. IdleOK'
    BY <2>1, IdleFewer DEF SoloInv
  <2>3. SoloOK'
    BY <2>1 DEF SoloInv, SoloOK, EmptyOK, CachedOK, Working, Uses, Small
  <2> QED
    BY <1>1, <2>1, <2>2, <2>3 DEF SoloInv
<1> QED
  BY <1>2, <1>3

(* It holds at the start. *)
LEMMA SoloInit == Init => SoloInv
<1> SUFFICES ASSUME Init PROVE SoloInv
  OBVIOUS
<1>1. SharedInv /\ failed = {}
  BY SharedInit DEF Init
<1>2. IdleOK
  <2>1. \A c \in Chunks, p \in Pages : subpages[c][p] = NoSubpage
    BY DEF Init, Pages
  <2> QED
    BY <2>1 DEF IdleOK, Idle
<1>3. SoloOK
  <2>1. \A t \in Threads : call[t] = Quiet /\ \A b \in Bufs : block[b] = NoBlock
    BY DEF Init
  <2> QED
    BY <2>1 DEF SoloOK, EmptyOK, CachedOK, Working, Uses, Quiet
<1> QED
  BY <1>1, <1>2, <1>3 DEF SoloInv

(* One thread, whatever it allocates, grows and frees, and however its     *)
(* cache is trimmed: no assertion of PoolChunk, PoolSubpage, PoolChunkList *)
(* and PoolArena on its path fails, and threadCache() finds a cache.       *)
THEOREM AloneAsserts == ASSUME Alone PROVE Spec => []AssertionsHold
<1>1. SoloInv /\ [Next]_vars => SoloInv'
  BY SoloInductive
<1>2. SoloInv => AssertionsHold
  BY DEF SoloInv, AssertionsHold
<1> QED
  BY <1>1, <1>2, SoloInit, PTL DEF Spec

(* One thread: in every step no byte of a chunk belongs to two holders,    *)
(* and none that is held lies in a chunk that was destroyed, that of a     *)
(* subpage whose first slot is not taken yet included.                     *)
THEOREM AloneBytes == ASSUME Alone PROVE Spec => []NoSharedBytes
<1>1. SoloInv /\ [Next]_vars => SoloInv'
  BY SoloInductive
<1>2. SoloInv => NoSharedBytes
  BY SharedBytes DEF SoloInv
<1> QED
  BY <1>1, <1>2, SoloInit, PTL DEF Spec

(* One thread: each run in use is held by somebody, or its subpage's       *)
(* bitmap is exact, after every free(), trim() and failed search.          *)
THEOREM AloneLeaks == ASSUME Alone PROVE Spec => []NothingLeaked
<1>1. SoloInv /\ [Next]_vars => SoloInv'
  BY SoloInductive
<1>2. SoloInv => NothingLeaked
  BY GivesNoLeak DEF SoloInv, SharedInv
<1> QED
  BY <1>1, <1>2, SoloInit, PTL DEF Spec

(* One thread: the pools of subpages and the lists of chunks are exact     *)
(* whenever the lock is free, and PoolSubpage::free() lets at most one     *)
(* idle subpage of a class with several slots stay.                        *)
THEOREM AloneLists == ASSUME Alone PROVE Spec => []ListsExact
<1>1. SoloInv /\ [Next]_vars => SoloInv'
  BY SoloInductive
<1>2. SoloInv => ListsExact
  <2>1. ASSUME SoloInv, arenaUnlocked PROVE PoolsExact /\ ListedByUsage /\ OneIdleSubpage
    BY <2>1, Unlocked, GivesPools, GivesLists, GivesIdle DEF SoloInv, SharedInv
  <2> QED
    BY <2>1 DEF ListsExact
<1> QED
  BY <1>1, <1>2, SoloInit, PTL DEF Spec

-----------------------------------------------------------------------------
(* A chunk is added only when none has room.                               *)

(* A chunk with a gap for a run has at least the bytes of the run free.    *)
LEMMA Room ==
    ASSUME NEW runs, runs \subseteq Run, NEW pages \in 1..nPages, BestFits(runs, pages) # {}
    PROVE  pages * pageSize <= freeBytes(runs)
<1>1. nPages \in Nat \ {0} /\ pageSize \in Nat \ {0}
  BY ChunksAssumption, PagesAssumption
<1>2. PICK g \in BestFits(runs, pages) : TRUE
  OBVIOUS
<1>3. g \in Run /\ (\A r \in runs : ~Overlap(g, r))
       /\ page2pageIdx(pages) <= page2pageIdxFloor(g.pages)
  BY <1>2 DEF BestFits, Gaps
<1>4. g.off \in 0..(nPages - 1) /\ g.pages \in 1..nPages /\ g.off + g.pages <= nPages
  BY <1>1, <1>3 DEF Run
<1>5. pages <= g.pages
  BY <1>3, <1>4, PagesAssumption
<1>6. IsFiniteSet(Pages) /\ Cardinality(Pages) = nPages
  <2>1. 0 \in Int /\ nPages - 1 \in Int
    BY <1>1
  <2>2. IsFiniteSet(0..(nPages - 1))
         /\ Cardinality(0..(nPages - 1)) = IF 0 <= nPages - 1 THEN (nPages - 1) - 0 + 1 ELSE 0
    BY <1>1, <2>1, FS_Interval
  <2> QED
    BY <1>1, <2>2 DEF Pages
<1>7. PICK o, e, G : o = g.off /\ e = g.off + g.pages - 1 /\ G = o..e
  OBVIOUS
<1>8. IsFiniteSet(G) /\ Cardinality(G) = g.pages
  <2>1. o \in Int /\ e \in Int /\ o <= e
    BY <1>4, <1>7
  <2>2. IsFiniteSet(o..e) /\ Cardinality(o..e) = IF o <= e THEN e - o + 1 ELSE 0
    BY <2>1, FS_Interval
  <2> QED
    BY <1>4, <1>7, <2>1, <2>2
<1>9. PICK C : C = Covered(runs)
  OBVIOUS
<1>10. C \subseteq Pages /\ G \subseteq Pages /\ C \cap G = {}
  <2>1. \A r \in runs : pagesOf(r) \subseteq Pages
    BY <1>1 DEF pagesOf, end, Run, Pages
  <2>2. \A r \in runs : pagesOf(r) \cap G = {}
    <3> SUFFICES ASSUME NEW r \in runs PROVE pagesOf(r) \cap G = {}
      OBVIOUS
    <3>1. ~Overlap(g, r) /\ r.off \in 0..(nPages - 1) /\ r.pages \in 1..nPages
      BY <1>3 DEF Run
    <3>2. ASSUME NEW x \in G, x \in pagesOf(r) PROVE FALSE
      <4>1. x \in Int /\ g.off <= x /\ x < g.off + g.pages /\ r.off <= x /\ x < r.off + r.pages
        BY <1>4, <1>7, <3>1, <3>2 DEF pagesOf, end
      <4> QED
        BY <1>4, <3>1, <4>1 DEF Overlap, end
    <3> QED
      BY <3>2
  <2>3. G \subseteq Pages
    BY <1>1, <1>4, <1>7 DEF Pages
  <2> QED
    BY <1>9, <2>1, <2>2, <2>3 DEF Covered
<1>11. IsFiniteSet(C) /\ Cardinality(C) \in Nat
  BY <1>6, <1>10, FS_Subset, FS_CardinalityType
<1>12. Cardinality(C \cup G) = Cardinality(C) + Cardinality(G) - Cardinality(C \cap G)
        /\ IsFiniteSet(C \cup G)
  BY <1>8, <1>11, FS_Union
<1>13. Cardinality(C \cap G) = 0
  BY <1>10, FS_EmptySet
<1>14. Cardinality(C \cup G) <= nPages
  <2>1. C \cup G \subseteq Pages
    BY <1>10
  <2> QED
    BY <1>6, <2>1, FS_Subset
<1>15. PICK a, b, n : a = nPages /\ b = pageSize /\ n = Cardinality(C)
  OBVIOUS
<1>16. a \in Nat \ {0} /\ b \in Nat \ {0} /\ n \in Nat /\ n + g.pages <= a
        /\ freeBytes(runs) = (a - n) * b
  <2>1. a \in Nat \ {0} /\ b \in Nat \ {0} /\ n \in Nat
    BY <1>1, <1>11, <1>15
  <2>2. n + g.pages <= a
    BY <1>4, <1>8, <1>12, <1>13, <1>14, <1>15, <2>1
  <2> QED
    BY <1>9, <1>15, <2>1, <2>2 DEF freeBytes
<1>17. PICK d : d = a - n
  OBVIOUS
<1>18. d \in Nat /\ pages <= d /\ pages \in Nat
  BY <1>4, <1>5, <1>16, <1>17
<1>19. pages * b <= d * b
  BY <1>16, <1>18
<1> QED
  BY <1>15, <1>16, <1>17, <1>19

(* What is in one list after the other is in one of them. *)
LEMMA InEither ==
    ASSUME NEW S, NEW a \in Seq(S), NEW b \in Seq(S), NEW r, r = a \o b
    PROVE  r \in Seq(S) /\ \A x : x \in ToSet(r) <=> x \in ToSet(a) \/ x \in ToSet(b)
<1>1. PICK m, n : m = Len(a) /\ n = Len(b)
  OBVIOUS
<1>2. /\ m \in Nat /\ n \in Nat /\ r \in Seq(S) /\ Len(r) = m + n
      /\ DOMAIN a = 1..m /\ DOMAIN b = 1..n /\ DOMAIN r = 1..(m + n)
      /\ \A k \in 1..(m + n) : r[k] = IF k <= m THEN a[k] ELSE b[k - m]
  BY <1>1
<1>3. ASSUME NEW x \in ToSet(r) PROVE x \in ToSet(a) \/ x \in ToSet(b)
  <2>1. PICK k \in 1..(m + n) : x = r[k]
    BY <1>2, <1>3 DEF ToSet
  <2>2. CASE k <= m
    <3>1. x = a[k] /\ k \in DOMAIN a
      BY <1>2, <2>1, <2>2
    <3> QED
      BY <3>1 DEF ToSet
  <2>3. CASE ~(k <= m)
    <3>1. x = b[k - m] /\ k - m \in DOMAIN b
      BY <1>2, <2>1, <2>3
    <3> QED
      BY <3>1 DEF ToSet
  <2> QED
    BY <2>2, <2>3
<1>4. ASSUME NEW x \in ToSet(a) PROVE x \in ToSet(r)
  <2>1. PICK k \in 1..m : x = a[k]
    BY <1>2, <1>4 DEF ToSet
  <2>2. k \in DOMAIN r /\ r[k] = x
    BY <1>2, <2>1
  <2> QED
    BY <2>2 DEF ToSet
<1>5. ASSUME NEW x \in ToSet(b) PROVE x \in ToSet(r)
  <2>1. PICK k \in 1..n : x = b[k]
    BY <1>2, <1>5 DEF ToSet
  <2>2. PICK j : j = k + m
    OBVIOUS
  <2>3. j \in 1..(m + n) /\ ~(j <= m) /\ j - m = k
    BY <1>2, <2>1, <2>2
  <2>4. j \in DOMAIN r /\ r[j] = x
    BY <1>2, <2>1, <2>3
  <2> QED
    BY <2>4 DEF ToSet
<1> QED
  BY <1>2, <1>3, <1>4, <1>5

(* allocateNormal() tries live chunks, and of these all that have room for *)
(* the run: a list that is not asked has none.                             *)
LEMMA TriesAll ==
    ASSUME RunsOK, ListsOK, NEW A, WeighedOK(A), NEW i \in Classes
    PROVE  /\ Tried(i) \in Seq(Chunks)
           /\ \A c \in ToSet(Tried(i)) : c \in live
           /\ \A c \in live : serves(c, i) => c \in ToSet(Tried(i))
<1>1. PICK q : q = [l \in Lists |-> asked(l, i)]
  OBVIOUS
<1>2. 0 \in Lists /\ 1 \in Lists /\ 2 \in Lists /\ 3 \in Lists /\ 4 \in Lists /\ 5 \in Lists
  BY DEF Lists
<1>3. ASSUME NEW l \in Lists
      PROVE  q[l] \in Seq(Chunks) /\ \A c \in ToSet(q[l]) : c \in Chunks /\ parent[c] = l
  <2>1. PICK r : r = lists[l]
    OBVIOUS
  <2>2. Listing(r, Chunks) /\ \A c \in Chunks : c \in ToSet(r) <=> parent[c] = l
    BY <2>1 DEF ListsOK
  <2>3. r \in Seq(Chunks)
    BY <2>2 DEF Listing
  <2>4. \A c \in ToSet(r) : c \in Chunks
    BY <2>3 DEF ToSet
  <2>5. q[l] = r \/ q[l] = <<>>
    BY <1>1, <2>1 DEF asked
  <2>6. CASE q[l] = r
    BY <2>2, <2>3, <2>4, <2>6
  <2>7. CASE q[l] = <<>>
    <3>1. q[l] \in Seq(Chunks) /\ DOMAIN q[l] = {}
      BY <2>7
    <3>2. ToSet(q[l]) = {}
      BY <3>1 DEF ToSet
    <3> QED
      BY <3>1, <3>2
  <2> QED
    BY <2>5, <2>6, <2>7
<1>4. Tried(i) = q[3] \o q[2] \o q[1] \o q[0] \o q[4]
  BY <1>1, <1>2 DEF Tried
<1>5. PICK q0, q1, q2, q3, q4 : q0 = q[0] /\ q1 = q[1] /\ q2 = q[2] /\ q3 = q[3] /\ q4 = q[4]
  OBVIOUS
<1>6. /\ q0 \in Seq(Chunks) /\ q1 \in Seq(Chunks) /\ q2 \in Seq(Chunks) /\ q3 \in Seq(Chunks)
       /\ q4 \in Seq(Chunks)
  BY <1>2, <1>3, <1>5
<1>7. PICK a, b, c, d : a = q3 \o q2 /\ b = a \o q1 /\ c = b \o q0 /\ d = c \o q4
  OBVIOUS
<1>8. d = Tried(i)
  BY <1>4, <1>7, <1>5
<1>9. a \in Seq(Chunks) /\ \A x : x \in ToSet(a) <=> x \in ToSet(q3) \/ x \in ToSet(q2)
  BY <1>7, <1>6, InEither
<1>10. b \in Seq(Chunks) /\ \A x : x \in ToSet(b) <=> x \in ToSet(a) \/ x \in ToSet(q1)
  BY <1>7, <1>9, <1>6, InEither
<1>11. c \in Seq(Chunks) /\ \A x : x \in ToSet(c) <=> x \in ToSet(b) \/ x \in ToSet(q0)
  <2>1. b \in Seq(Chunks) /\ q0 \in Seq(Chunks) /\ c = b \o q0
    BY <1>7, <1>10, <1>6
  <2> QED
    BY <2>1, InEither
<1>12. d \in Seq(Chunks) /\ \A x : x \in ToSet(d) <=> x \in ToSet(c) \/ x \in ToSet(q4)
  <2>1. c \in Seq(Chunks) /\ q4 \in Seq(Chunks) /\ d = c \o q4
    BY <1>7, <1>11, <1>6
  <2> QED
    BY <2>1, InEither
<1>13. \A x : x \in ToSet(Tried(i)) <=> \E l \in {0, 1, 2, 3, 4} : x \in ToSet(q[l])
  BY <1>8, <1>9, <1>10, <1>11, <1>12, <1>5
<1>14. NoList \notin Lists
  BY DEF NoList, Lists
<1>15. ASSUME NEW x \in ToSet(Tried(i)) PROVE x \in live
  BY <1>2, <1>3, <1>13, <1>14 DEF live
<1>16. ASSUME NEW x \in live, serves(x, i) PROVE x \in ToSet(Tried(i))
  <2>1. PICK l : l = parent[x]
    OBVIOUS
  <2>2. x \in Chunks /\ l # NoList /\ l \in Lists /\ x \in ToSet(lists[l])
    BY <2>1 DEF live, ListsOK
  <2>3. PICK runs, pages : runs = inUse[x] /\ pages = classPages[i]
    OBVIOUS
  <2>4. runs \subseteq Run /\ pages \in 1..nPages /\ BestFits(runs, pages) # {}
    BY <1>16, <2>2, <2>3, ClassesAssumption DEF RunsOK, RunsApart, serves
  <2>5. pages * pageSize <= freeBytes(runs) /\ freeBytes(runs) \in 0..m_chunkSize
         /\ freeBytes(runs) <= freeMaxThreshold(l)
    BY <2>1, <2>2, <2>3, <2>4, Room, FreeBytes DEF WeighedOK
  <2>6. pages * pageSize \in Int /\ freeMaxThreshold(l) \in Int /\ m_chunkSize \in Nat
    BY <2>2, <2>4, ChunksAssumption, PagesAssumption, Thresholds, ChunkSize
  <2>7. ~(freeMaxThreshold(l) < pages * pageSize)
    BY <2>5, <2>6
  <2>8. sizeIdx2size(i) <= maxCapacity(l)
    BY <2>2, <2>3, <2>7, ListsAssumption
  <2>9. l # 5
    <3>1. ASSUME l = 5 PROVE FALSE
      <4>1. freeMaxThreshold(5) = 0
        BY DEF freeMaxThreshold, minUsage
      <4>2. pages * pageSize > 0
        BY <2>4, ChunksAssumption, PagesAssumption
      <4> QED
        BY <2>7, <3>1, <4>1, <4>2
    <3> QED
      BY <3>1
  <2>10. l \in {0, 1, 2, 3, 4}
    BY <2>2, <2>9 DEF Lists
  <2>11. q[l] = lists[l]
    BY <1>1, <2>2, <2>8 DEF asked
  <2> QED
    BY <1>13, <2>2, <2>10, <2>11
<1> QED
  BY <1>8, <1>12, <1>15, <1>16

(* While a subpage is made in a new chunk, no chunk of the lists has room. *)
NoRoomOK == \A t \in Threads : Working(t) /\ parent[call[t].at[1]] = NoList =>
    \A c \in live : ~serves(c, size2sizeIdx(call[t].size))

(* What a step does to the chunks of the arena. *)
Grows(t) == call[t].pc \in {"arena", "take"} /\ call'[t] # call[t]
            /\ \A c \in live : ~serves(c, size2sizeIdx(call[t].size))

(* The property, for one step. *)
Growth == live' \ live # {} => \E t \in Threads : Grows(t)

(* The steps that leave the arena alone, or give a block back to it.       *)
Outside(t) ==
    /\ ~Working(t) /\ ~(Working(t)') /\ \A u \in Threads : u # t => call'[u] = call[u]
    /\ UNCHANGED arenaVars \/ \E x \in AllOf(own) : FreeChunk(x)

(* Where the runs and the parents of the chunks stay as they are. *)
LEMMA RoomStays ==
    ASSUME NoRoomOK, inUse' = inUse, parent' = parent,
           \A u \in Threads : Working(u)' => /\ Working(u) /\ call'[u].at = call[u].at
                                             /\ call'[u].size = call[u].size
    PROVE  NoRoomOK' /\ Growth
<1>1. live' = live
  BY DEF live
<1>2. ASSUME NEW u \in Threads, Working(u)', parent'[call'[u].at[1]] = NoList, NEW c \in live'
      PROVE  ~BestFits(inUse'[c], classPages[size2sizeIdx(call'[u].size)]) # {}
  <2>1. Working(u) /\ parent[call[u].at[1]] = NoList /\ c \in live /\ call'[u].size = call[u].size
    BY <1>1, <1>2
  <2>2. ~serves(c, size2sizeIdx(call[u].size))
    BY <2>1 DEF NoRoomOK
  <2> QED
    BY <2>1, <2>2 DEF serves
<1> QED
  BY <1>1, <1>2 DEF NoRoomOK, Growth, serves

(* Nobody makes a subpage. *)
LEMMA NoneAtWork ==
    ASSUME \A u \in Threads : ~(Working(u)')
    PROVE  NoRoomOK'
BY DEF NoRoomOK

(* A block that goes back may free its chunk, but adds none. *)
LEMMA OutsideRoom ==
    ASSUME Shared, NoRoomOK, NEW t \in Threads, Outside(t)
    PROVE  NoRoomOK' /\ Growth
<1>1. ~Working(t) /\ ~(Working(t)') /\ \A u \in Threads : u # t => call'[u] = call[u]
  BY DEF Outside
<1>2. \A u \in Threads : Working(u)' => Working(u) /\ call'[u] = call[u]
  BY <1>1 DEF Working
<1>3. CASE UNCHANGED arenaVars
  <2>1. inUse' = inUse /\ parent' = parent
    BY <1>3 DEF arenaVars
  <2> QED
    BY <1>2, <2>1, RoomStays
<1>4. CASE \E x \in AllOf(own) : FreeChunk(x)
  <2>1. PICK H, A : H = AllOf(own) /\ A = AtWork
    OBVIOUS
  <2>2. PICK x \in H : FreeChunk(x)
    BY <1>4, <2>1
  <2>3. arenaUnlocked
    BY <2>2 DEF FreeChunk
  <2>4. NoRoomOK' /\ A = {}
    BY <1>2, <2>1, <2>3, NobodyWorks, Unlocked, NoneAtWork
  <2>5. MemoryOK(H) /\ ChunksOK(A)
    BY <2>1 DEF Shared
  <2>6. PICK c, run : c = x.chunk /\ run = x.handle.run
    OBVIOUS
  <2>7. c \in Chunks /\ run \in inUse[c]
    BY <2>2, <2>5, <2>6, TheBlock
  <2>8. c \in live /\ DOMAIN parent = Chunks
    BY <2>4, <2>5, <2>7 DEF live, ChunksOK, ListsOK, LiveOK
  <2>9. \E m : parent' = [parent EXCEPT ![c] = m]
    BY <2>2, <2>6 DEF FreeChunk
  <2>10. \A d \in Chunks : d # c => parent'[d] = parent[d]
    BY <2>8, <2>9
  <2>11. live' \subseteq live
    BY <2>8, <2>10 DEF live
  <2> QED
    BY <2>4, <2>11 DEF Growth
<1> QED
  BY <1>3, <1>4 DEF Outside

(* The calls on a buffer, as far as the first lock. *)
LEMMA SetCapacityOutside ==
    ASSUME IndexInv, Shared, NEW t \in Threads, NEW b \in Bufs, NEW new, NEW n,
           SetCapacity(t, b, new, n)
    PROVE  Outside(t)
<1>1. ~Working(t)
  BY DEF SetCapacity, Begins, Working, Quiet
<1>2. CASE UNCHANGED <<arenaVars, call>>
  BY <1>1, <1>2 DEF Outside, Working
<1>3. CASE Allocate(t, Allocating(b, new, block[b], n))
  <2>1. PICK c : c = Allocating(b, new, block[b], n) /\ Allocate(t, c)
    BY <1>3
  <2>2. DOMAIN c = CallFields
    BY <2>1, NewCall
  <2>3. UNCHANGED <<arenaVars, failed>> /\ ~(Working(t)') /\ \A u \in Threads : u # t
         => call'[u] = call[u]
    BY <2>1, <2>2, AllocateArena
  <2> QED
    BY <1>1, <2>3 DEF Outside
<1> QED
  BY <1>2, <1>3 DEF SetCapacity

(* All calls on a buffer are such steps. *)
LEMMA BufferOutside ==
    ASSUME IndexInv, Shared, NEW t \in Threads, NEW b \in Bufs,
           PoolBuffer(t, b) \/ Capacity(t, b) \/ WriteBytes(t, b) \/ Retrieve(t, b)
               \/ Deallocate(t, b)
    PROVE  Outside(t)
<1>1. ~Working(t) /\ HoldersOK
  BY DEF PoolBuffer, Capacity, WriteBytes, Retrieve, Deallocate, SetCapacity, Begins, Working,
     Quiet, Shared
<1>2. CASE PoolBuffer(t, b)
  <2>1. PICK size : Allocate(t, Allocating(b, size, NoBlock, 0))
    BY <1>2 DEF PoolBuffer
  <2>2. PICK k, n : k = NoBlock /\ n = 0
    OBVIOUS
  <2>3. PICK c : c = Allocating(b, size, k, n) /\ Allocate(t, c)
    BY <2>1, <2>2
  <2>4. DOMAIN c = CallFields
    BY <2>3, NewCall
  <2>5. UNCHANGED <<arenaVars, failed>> /\ ~(Working(t)') /\ \A u \in Threads : u # t
         => call'[u] = call[u]
    BY <2>3, <2>4, AllocateArena
  <2> QED
    BY <1>1, <2>5 DEF Outside
<1>3. CASE \E new, n : SetCapacity(t, b, new, n)
  BY <1>3, SetCapacityOutside
<1>4. CASE UNCHANGED <<arenaVars, call>>
  BY <1>1, <1>4 DEF Outside, Working
<1>5. CASE Deallocate(t, b)
  <2>1. GivesBack(AllOf(own), AllOf(own')) /\ UNCHANGED call
    BY <1>1, <1>5, DeallocateOwn DEF Deallocate
  <2> QED
    BY <1>1, <2>1 DEF Outside, Working, GivesBack
<1> QED
  BY <1>2, <1>3, <1>4, <1>5 DEF Capacity, WriteBytes, Retrieve

(* So are trim() and the end of reallocate(). *)
LEMMA TrimOutside ==
    ASSUME IndexInv, Shared, NEW t \in Threads, Trim(t) \/ FreeOld(t)
    PROVE  Outside(t)
<1>1. PICK c : c = call[t]
  OBVIOUS
<1>2. c.pc \in {"trim", "free"} /\ ~Working(t) /\ HoldersOK
  BY <1>1 DEF Trim, FreeOld, Working, Shared
<1>3. DOMAIN c = CallFields /\ DOMAIN call = Threads
  BY <1>1, <1>2, TheCall DEF IndexInv, CallsOK
<1>4. GivesBack(AllOf(own), AllOf(own'))
  BY <1>2, TrimOwn, FreeOldOwn
<1>5. ~(Working(t)') /\ \A u \in Threads : u # t => call'[u] = call[u]
  <2>1. CASE call' = [call EXCEPT ![t] = AfterCache(@, @.hit)]
    <3>1. PICK d : d = AfterCache(c, c.hit)
      OBVIOUS
    <3>2. d.pc \in {"idle", "free", "pool", "arena"}
      BY <1>3, <3>1, AfterCachePc
    <3>3. call' = [call EXCEPT ![t] = d]
      BY <1>1, <2>1, <3>1
    <3> QED
      BY <1>3, <3>2, <3>3 DEF Working
  <2>2. CASE \E todo : call' = [call EXCEPT ![t].todo = todo]
    <3>1. PICK todo : call' = [call EXCEPT ![t].todo = todo]
      BY <2>2
    <3>2. call'[t].pc = c.pc
      BY <1>1, <1>3, <3>1 DEF CallFields
    <3> QED
      BY <1>2, <1>3, <3>1, <3>2 DEF Working
  <2>3. CASE call' = [call EXCEPT ![t] = Quiet]
    BY <1>3, <2>3 DEF Working, Quiet
  <2> QED
    BY <2>1, <2>2, <2>3 DEF Trim, FreeOld
<1>6. UNCHANGED arenaVars \/ \E x \in AllOf(own) : FreeChunk(x)
  BY <1>4 DEF GivesBack
<1> QED
  BY <1>2, <1>5, <1>6 DEF Outside

(* A slot of the pool, none in the pool, the slot that is to be the first: *)
(* runs and chunks stay.                                                   *)
LEMMA SearchRoom ==
    ASSUME IndexInv, Shared, NoRoomOK, NEW t \in Threads, AllocateFromPool(t) \/ PoolEmpty(t)
            \/ ChooseFirstSlot(t)
    PROVE  NoRoomOK' /\ Growth
<1>1. PICK c, s : c = call[t] /\ s = subpages[c.at[1]][c.at[2]]
  OBVIOUS
<1>2. ChooseFirstSlot(t) => Working(t) /\ ~isFull(s)
  BY <1>1, FirstFree DEF ChooseFirstSlot, Working
<1>3. c.pc \in {"pool", "slot"} /\ inUse' = inUse /\ parent' = parent
  BY <1>1, <1>2 DEF AllocateFromPool, PoolEmpty, ChooseFirstSlot, arenaVars
<1>4. DOMAIN c = CallFields /\ DOMAIN call = Threads
  BY <1>1, <1>3, TheCall DEF IndexInv, CallsOK
<1>5. /\ \A u \in Threads : u # t => call'[u] = call[u]
      /\ Working(t)' => Working(t) /\ call'[t].at = c.at /\ call'[t].size = c.size
  <2>1. CASE call' = [call EXCEPT ![t] = Served(@)]
    <3>1. PICK d : d = Served(c)
      OBVIOUS
    <3>2. d.pc \in {"idle", "free"}
      BY <1>4, <3>1, ServedPc
    <3>3. call' = [call EXCEPT ![t] = d]
      BY <1>1, <2>1, <3>1
    <3> QED
      BY <1>4, <3>2, <3>3 DEF Working
  <2>2. CASE call' = [call EXCEPT ![t].pc = "arena"]
    <3>1. call'[t].pc = "arena"
      BY <1>1, <1>4, <2>2 DEF CallFields
    <3> QED
      BY <1>4, <2>2, <3>1 DEF Working
  <2>3. CASE c.pc = "slot" /\ \E k : call' = [call EXCEPT ![t].pc = "take", ![t].slot = k]
    <3>1. PICK k, d : call' = [call EXCEPT ![t].pc = "take", ![t].slot = k]
                /\ d = [[c EXCEPT !.pc = "take"] EXCEPT !.slot = k]
      BY <2>3
    <3>2. call' = [call EXCEPT ![t] = d]
      BY <1>1, <1>4, <3>1
    <3>3. d.at = c.at /\ d.size = c.size
      BY <1>4, <3>1 DEF CallFields
    <3> QED
      BY <1>1, <1>4, <2>3, <3>2, <3>3 DEF Working
  <2>4. CASE AllocateFromPool(t) \/ PoolEmpty(t)
    BY <2>1, <2>2, <2>4 DEF AllocateFromPool, PoolEmpty
  <2>5. CASE ChooseFirstSlot(t)
    BY <1>1, <1>2, <2>3, <2>5 DEF ChooseFirstSlot
  <2> QED
    BY <2>4, <2>5
<1>6. \A u \in Threads : Working(u)' => Working(u) /\ call'[u].at = call[u].at
       /\ call'[u].size = call[u].size
  BY <1>1, <1>5 DEF Working
<1> QED
  BY <1>3, <1>6, RoomStays

(* The chunk that serves is listed anew, and the call has its block.       *)
LEMMA GivesRoom ==
    ASSUME IndexInv, Shared, NEW t \in Threads, \A u \in Threads : u # t => ~Working(u),
           NEW c \in Chunks, NEW runs, NEW x, ChunkGives(t, c, runs, x),
           call[t].pc \in {"arena", "take"},
           c \notin live => \A d \in live : ~serves(d, size2sizeIdx(call[t].size))
    PROVE  NoRoomOK' /\ Growth
<1>1. PICK call0 : call0 = call[t]
  OBVIOUS
<1>2. DOMAIN call0 = CallFields /\ DOMAIN call = Threads
  BY <1>1, TheCall DEF IndexInv, CallsOK
<1>3. PICK d : d = Served(call0)
  OBVIOUS
<1>4. d.pc \in {"idle", "free"}
  BY <1>2, <1>3, ServedPc
<1>5. call' = [call EXCEPT ![t] = d] /\ \E m : parent' = [parent EXCEPT ![c] = m]
  BY <1>1, <1>3 DEF ChunkGives
<1>6. call'[t] = d /\ \A u \in Threads : u # t => call'[u] = call[u]
  BY <1>2, <1>5
<1>7. \A u \in Threads : ~(Working(u)')
  BY <1>4, <1>6 DEF Working
<1>8. DOMAIN parent = Chunks
  BY DEF Shared, ChunksOK, ListsOK
<1>9. \A e \in Chunks : e # c => parent'[e] = parent[e]
  BY <1>5, <1>8
<1>10. live' \ live # {} => c \notin live
  BY <1>9 DEF live
<1>11. call'[t] # call[t]
  BY <1>4, <1>6
<1> QED
  BY <1>7, <1>10, <1>11, NoneAtWork DEF Growth, Grows

(* allocateNormal() takes a new chunk when it has tried all that have room. *)
LEMMA NormalRoom ==
    ASSUME IndexInv, Shared, NEW t \in Threads, AllocateNormal(t)
    PROVE  NoRoomOK' /\ Growth
<1> DEFINE i == size2sizeIdx(call[t].size)
           q == Tried(i)
           able == {n \in DOMAIN q : 0 < n /\ serves(q[n], i)}
<1>1. PICK c \in Chunks : \E g \in BestFits(inUse[c], classPages[i]) :
          /\ IF able # {} THEN c = q[Min(able)] ELSE c \notin live
              /\ \A d \in Chunks \ live : c <= d
          /\ inUse' = [inUse EXCEPT ![c] = @ \cup {RunAt(g.off, classPages[i])}]
          /\ IF i > m_smallMaxSizeIdx
             THEN /\ ChunkGives(t, c, inUse[c] \cup {RunAt(g.off, classPages[i])},
                            BlockOf(c, Handle(RunAt(g.off, classPages[i]), -1), classPages[i] * pageSize,
                                    cachedBuffer(c)))
                  /\ UNCHANGED <<subpages, pools, failed>>
             ELSE /\ subpages' = [subpages EXCEPT ![c][g.off] =
                                     [class |-> i, bits |-> {}, nextAvail |-> 0]]
                  /\ pools' = [pools EXCEPT ![i] = <<<<c, g.off>>>> \o @]
                  /\ call' = [call EXCEPT ![t].pc = "slot", ![t].at = <<c, g.off>>]
                  /\ UNCHANGED <<buffers, parent, lists, cacheVars, bufVars>>
  BY DEF AllocateNormal, Search
<1>2. IF able # {} THEN c = q[Min(able)] ELSE c \notin live
  BY <1>1
<1>3. able = {n \in DOMAIN q : 0 < n /\ serves(q[n], i)} /\ q = Tried(i) /\ i = size2sizeIdx(call[t].size)
  OBVIOUS
<1> HIDE DEF i, q, able
<1>4. PICK call0, A : call0 = call[t] /\ i = size2sizeIdx(call0.size) /\ A = AtWork
  BY <1>3
<1>5. call0.pc = "arena" /\ arenaUnlocked
  BY <1>4 DEF AllocateNormal
<1>6. \A u \in Threads : ~Working(u)
  BY <1>5, NobodyWorks
<1>7. i \in Classes /\ DOMAIN call0 = CallFields /\ DOMAIN call = Threads
  BY <1>4, <1>5, TheCall DEF Pending, IndexInv, CallsOK
<1>8. ChunksOK(A) /\ RunsOK /\ ListsOK /\ WeighedOK(A)
  BY <1>4 DEF Shared, MemoryOK, ChunksOK
<1>9. q \in Seq(Chunks) /\ (\A e \in ToSet(q) : e \in live) /\ \A e \in live : serves(e, i)
       => e \in ToSet(q)
  BY <1>7, <1>8, <1>3, TriesAll
<1>10. \A d \in live : c \notin live => ~serves(d, i)
  <2>1. ASSUME able # {} PROVE c \in live
    <3>1. able \in SUBSET Nat
      BY <1>9, <1>3
    <3>2. Min(able) \in able
      BY <2>1, <3>1, Least
    <3>3. c = q[Min(able)] /\ Min(able) \in DOMAIN q
      BY <1>3, <1>2, <2>1, <3>2
    <3> QED
      BY <1>9, <3>3 DEF ToSet
  <2>2. ASSUME NEW d \in live, serves(d, i) PROVE able # {}
    <3>1. d \in ToSet(q)
      BY <1>9, <2>2
    <3>2. PICK n \in DOMAIN q : d = q[n]
      BY <3>1 DEF ToSet
    <3>3. 0 < n
      BY <1>9, <3>2
    <3> QED
      BY <1>3, <2>2, <3>2, <3>3
  <2> QED
    BY <1>2, <2>1, <2>2
<1>11. PICK g \in BestFits(inUse[c], classPages[i]) :
          /\ inUse' = [inUse EXCEPT ![c] = @ \cup {RunAt(g.off, classPages[i])}]
          /\ \/ ChunkGives(t, c, inUse[c] \cup {RunAt(g.off, classPages[i])},
                            BlockOf(c, Handle(RunAt(g.off, classPages[i]), -1), classPages[i] * pageSize,
                                    cachedBuffer(c)))
             \/ /\ call' = [call EXCEPT ![t].pc = "slot", ![t].at = <<c, g.off>>]
                /\ UNCHANGED <<buffers, parent, lists, cacheVars, bufVars>>
  BY <1>1
<1>12. CASE ChunkGives(t, c, inUse[c] \cup {RunAt(g.off, classPages[i])},
                            BlockOf(c, Handle(RunAt(g.off, classPages[i]), -1), classPages[i] * pageSize,
                                    cachedBuffer(c)))
  <2>1. \A u \in Threads : u # t => ~Working(u)
    BY <1>6
  <2>2. call[t].pc \in {"arena", "take"}
         /\ (c \notin live => \A d \in live : ~serves(d, size2sizeIdx(call[t].size)))
    BY <1>4, <1>5, <1>10
  <2>3. PICK runs, x : ChunkGives(t, c, runs, x)
    BY <1>12
  <2> QED
    BY <2>1, <2>2, <2>3, GivesRoom
<1>13. CASE call' = [call EXCEPT ![t].pc = "slot", ![t].at = <<c, g.off>>]
             /\ UNCHANGED <<buffers, parent, lists, cacheVars, bufVars>>
  <2>1. PICK e, d : e = <<c, g.off>> /\ d = [[call0 EXCEPT !.pc = "slot"] EXCEPT !.at = e]
    OBVIOUS
  <2>2. call' = [call EXCEPT ![t] = d]
    BY <1>4, <1>7, <1>13, <2>1
  <2>3. d.at = e /\ d.size = call0.size
    BY <1>7, <2>1 DEF CallFields
  <2>4. call'[t] = d /\ \A u \in Threads : u # t => call'[u] = call[u]
    BY <1>7, <2>2
  <2>5. \A u \in Threads : Working(u)' => u = t
    BY <1>6, <2>4 DEF Working
  <2>6. call'[t].at[1] = c /\ size2sizeIdx(call'[t].size) = i
    BY <1>4, <2>1, <2>3, <2>4
  <2>7. parent' = parent /\ live' = live
    BY <1>13 DEF live
  <2>8. \A a \in Chunks : a # c => inUse'[a] = inUse[a]
    BY <1>8, <1>11 DEF RunsOK
  <2>9. ASSUME NEW u \in Threads, Working(u)', parent'[call'[u].at[1]] = NoList, NEW a \in live'
        PROVE  ~(BestFits(inUse'[a], classPages[size2sizeIdx(call'[u].size)]) # {})
    <3>1. u = t /\ c \notin live /\ a \in live /\ a \in Chunks /\ a # c
      BY <2>5, <2>6, <2>7, <2>9 DEF live
    <3>2. ~serves(a, i) /\ inUse'[a] = inUse[a]
      BY <1>10, <2>8, <3>1
    <3> QED
      BY <2>6, <3>1, <3>2 DEF serves
  <2> QED
    BY <2>7, <2>9 DEF NoRoomOK, Growth, serves
<1> QED
  BY <1>11, <1>12, <1>13

(* The first slot of a new subpage: its chunk is listed, and may be new.   *)
LEMMA TakeRoom ==
    ASSUME IndexInv, Shared, NoRoomOK, NEW t \in Threads, TakeFirstSlot(t)
    PROVE  NoRoomOK' /\ Growth
<1>1. PICK call0, q : call0 = call[t] /\ q = call0.at
  OBVIOUS
<1>2. call0.pc = "take" /\ Working(t) /\ \E runs, x : ChunkGives(t, q[1], runs, x)
  BY <1>1 DEF TakeFirstSlot, Working
<1>3. PICK runs, x : ChunkGives(t, q[1], runs, x)
  BY <1>2
<1>4. PICK c \in Chunks : \E p \in Pages : q = <<c, p>>
  BY <1>1, <1>2 DEF Shared, WorkOK, SubpageAt
<1>5. q[1] = c
  BY <1>4
<1>6. \A u \in Threads : u # t => ~Working(u)
  BY <1>2 DEF Shared, WorkOK
<1>7. c \notin live => \A d \in live : ~serves(d, size2sizeIdx(call[t].size))
  BY <1>1, <1>2, <1>5 DEF NoRoomOK, live
<1> QED
  BY <1>1, <1>2, <1>3, <1>5, <1>6, <1>7, GivesRoom

(* The inductive invariant of the growth. *)
RoomInv == SharedInv /\ NoRoomOK

(* Each action keeps it, and adds a chunk only when none has room. *)
LEMMA RoomStep ==
    ASSUME IndexInv, Shared, NoRoomOK, Next
    PROVE  NoRoomOK' /\ Growth
<1>1. PICK t \in Threads :
    \/ \E b \in Bufs : \/ PoolBuffer(t, b) \/ Capacity(t, b) \/ WriteBytes(t, b)
                       \/ Retrieve(t, b) \/ Deallocate(t, b)
    \/ Trim(t) \/ AllocateFromPool(t) \/ PoolEmpty(t) \/ AllocateNormal(t)
    \/ ChooseFirstSlot(t) \/ TakeFirstSlot(t) \/ FreeOld(t)
  BY DEF Next
<1>2. CASE \E b \in Bufs : PoolBuffer(t, b) \/ Capacity(t, b) \/ WriteBytes(t, b) \/ Retrieve(t, b)
            \/ Deallocate(t, b)
  <2>1. Outside(t)
    BY <1>2, BufferOutside
  <2> QED
    BY <2>1, OutsideRoom
<1>3. CASE Trim(t) \/ FreeOld(t)
  <2>1. Outside(t)
    BY <1>3, TrimOutside
  <2> QED
    BY <2>1, OutsideRoom
<1>4. CASE AllocateFromPool(t) \/ PoolEmpty(t) \/ ChooseFirstSlot(t)
  BY <1>4, SearchRoom
<1>5. CASE AllocateNormal(t) \/ TakeFirstSlot(t)
  BY <1>5, NormalRoom, TakeRoom
<1> QED
  BY <1>1, <1>2, <1>3, <1>4, <1>5

(* It is inductive. *)
LEMMA RoomInductive ==
    ASSUME MadeAlone, RoomInv, [Next]_vars
    PROVE  RoomInv' /\ (UNCHANGED vars \/ Growth)
<1>1. SharedInv' /\ NoRoomOK /\ IndexInv
  BY SharedInductive DEF RoomInv, SharedInv
<1>2. CASE Next
  <2>1. Shared
    BY DEF RoomInv, SharedInv
  <2> QED
    BY <1>1, <1>2, <2>1, RoomStep DEF RoomInv
<1>3. CASE UNCHANGED vars
  <2>1. inUse' = inUse /\ parent' = parent /\ call' = call
    BY <1>3 DEF vars, arenaVars
  <2>2. NoRoomOK'
    BY <1>1, <2>1, RoomStays DEF Working
  <2> QED
    BY <1>1, <1>3, <2>2 DEF RoomInv
<1> QED
  BY <1>2, <1>3

(* Any number of threads, no two of which meet over a subpage that is      *)
(* being made: allocateNormal() adds a chunk only when none of the arena   *)
(* has room for the request, whatever other threads do between the steps   *)
(* that make a subpage in it, and the order of the lists and their bounds  *)
(* hide none that has.                                                     *)
THEOREM NoNeedlessChunk == Spec /\ []MadeAlone => GrowsOnlyWithoutRoom
<1>1. Init => RoomInv
  <2> SUFFICES ASSUME Init PROVE NoRoomOK
    BY SharedInit DEF RoomInv
  <2> QED
    BY DEF Init, NoRoomOK, Working, Quiet
<1>2. MadeAlone /\ RoomInv /\ [Next]_vars => RoomInv'
  BY RoomInductive
<1>3. MadeAlone /\ RoomInv /\ [Next]_vars =>
          [live' \ live # {} => \E t \in Threads :
              /\ call[t].pc \in {"arena", "take"} /\ call'[t] # call[t]
              /\ \A c \in live : ~serves(c, size2sizeIdx(call[t].size))]_vars
  BY RoomInductive DEF Growth, Grows
<1> QED
  BY <1>1, <1>2, <1>3, PTL DEF Spec, GrowsOnlyWithoutRoom
=============================================================================
