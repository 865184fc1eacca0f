------------------------------ MODULE MpscQueue ------------------------------
(***************************************************************************)
(* The lock-free queue of src/MpscQueue.h, node by node: the addresses of  *)
(* its nodes, which of them are allocated, the two atomic pointers, and    *)
(* the steps of enqueue, dequeue and the destructor between which other    *)
(* threads run.  Addresses are reused after delete.                        *)
(***************************************************************************)
EXTENDS Naturals, Sequences

CONSTANTS Producers,   \* the threads that call enqueue
          Nodes,       \* the addresses the allocator may return
          NULL,        \* nullptr
          MaxEnqueue   \* bound: enqueues per producer

ASSUME NodesAssumption == NULL \notin Nodes /\ Nodes # {}
ASSUME MaxEnqueueAssumption == MaxEnqueue \in Nat

(* The k-th item a producer enqueues. *)
Items == Producers \X (1..MaxEnqueue)

ASSUME ItemsAssumption == NULL \notin Items

VARIABLES
    head_,     \* the node the last exchange installed
    tail_,     \* the node before the first item
    next_,     \* next_[n] of every node
    dataPtr_,  \* the item dataPtr_ of a node owns, NULL once deleted
    live,      \* the allocated nodes
    pc,        \* per producer: where enqueue is
    node,      \* per producer: the local "node" of enqueue
    prevhead,  \* per producer: the local "prevhead" of enqueue
    sent,      \* per producer: how many enqueues it has begun
    cpc,       \* where the consumer is in dequeue or in the destructor
    cnext,     \* the local "next" of dequeue
    dying,     \* the destructor has been entered
    chain,     \* ghost: the nodes from tail_ to head_ in exchange order
    out        \* ghost: the items dequeue has returned

producerVars == <<pc, node, prevhead, sent>>
consumerVars == <<cpc, cnext, dying, out>>
vars == <<head_, tail_, next_, dataPtr_, live, producerVars, consumerVars, chain>>

TypeOK ==
    /\ head_ \in Nodes
    /\ tail_ \in Nodes
    /\ next_ \in [Nodes -> Nodes \cup {NULL}]
    /\ dataPtr_ \in [Nodes -> Items \cup {NULL}]
    /\ live \in SUBSET Nodes
    /\ pc \in [Producers -> {"idle", "allocated", "exchanged"}]
    /\ node \in [Producers -> Nodes \cup {NULL}]
    /\ prevhead \in [Producers -> Nodes \cup {NULL}]
    /\ sent \in [Producers -> 0..MaxEnqueue]
    /\ cpc \in {"idle", "loaded", "moved", "destroyed"}
    /\ cnext \in Nodes \cup {NULL}
    /\ dying \in BOOLEAN
    /\ chain \in Seq(Nodes)
    /\ out \in Seq(Items)

(* The constructor: head_ and tail_ are one stub node without data. *)
Init ==
    \E stub \in Nodes :
        /\ head_ = stub
        /\ tail_ = stub
        /\ next_ = [n \in Nodes |-> NULL]
        /\ dataPtr_ = [n \in Nodes |-> NULL]
        /\ live = {stub}
        /\ pc = [p \in Producers |-> "idle"]
        /\ node = [p \in Producers |-> NULL]
        /\ prevhead = [p \in Producers |-> NULL]
        /\ sent = [p \in Producers |-> 0]
        /\ cpc = "idle"
        /\ cnext = NULL
        /\ dying = FALSE
        /\ chain = <<stub>>
        /\ out = <<>>

(* enqueue: new BufferNode(input), at any address that is not allocated. *)
EnqueueAlloc(p) ==
    /\ pc[p] = "idle"
    /\ ~dying
    /\ sent[p] < MaxEnqueue
    /\ \E n \in Nodes \ live :
          /\ live' = live \cup {n}
          /\ next_' = [next_ EXCEPT ![n] = NULL]
          /\ dataPtr_' = [dataPtr_ EXCEPT ![n] = <<p, sent[p] + 1>>]
          /\ node' = [node EXCEPT ![p] = n]
    /\ sent' = [sent EXCEPT ![p] = @ + 1]
    /\ pc' = [pc EXCEPT ![p] = "allocated"]
    /\ UNCHANGED <<head_, tail_, prevhead, consumerVars, chain>>

(* enqueue: prevhead = head_.exchange(node). *)
EnqueueExchange(p) ==
    /\ pc[p] = "allocated"
    /\ prevhead' = [prevhead EXCEPT ![p] = head_]
    /\ head_' = node[p]
    /\ chain' = Append(chain, node[p])
    /\ pc' = [pc EXCEPT ![p] = "exchanged"]
    /\ UNCHANGED <<tail_, next_, dataPtr_, live, node, sent, consumerVars>>

(* Mutant of EnqueueLink: the link is stored into the new node. *)
EnqueueLinkBack(p) ==
    pc[p] = "exchanged" /\ pc' = [pc EXCEPT ![p] = "idle"]
    /\ next_' = [next_ EXCEPT ![node[p]] = prevhead[p]]
    /\ node' = [node EXCEPT ![p] = NULL] /\ prevhead' = [prevhead EXCEPT ![p] = NULL]
    /\ UNCHANGED <<head_, tail_, dataPtr_, live, sent, consumerVars, chain>>

(* enqueue: prevhead->next_.store(node). *)
EnqueueLink(p) ==
    /\ pc[p] = "exchanged"
    /\ next_' = [next_ EXCEPT ![prevhead[p]] = node[p]]
    /\ node' = [node EXCEPT ![p] = NULL]
    /\ prevhead' = [prevhead EXCEPT ![p] = NULL]
    /\ pc' = [pc EXCEPT ![p] = "idle"]
    /\ UNCHANGED <<head_, tail_, dataPtr_, live, sent, consumerVars, chain>>

(* What empty() returns, and whether dequeue() returns false. *)
Empty == next_[tail_] = NULL

(* dequeue: tail and next are loaded and next is not nullptr. *)
DequeueLoad ==
    /\ cpc = "idle"
    /\ ~Empty
    /\ cnext' = next_[tail_]
    /\ cpc' = "loaded"
    /\ UNCHANGED <<head_, tail_, next_, dataPtr_, live, producerVars, dying, chain, out>>

(* dequeue: the item is moved out of the next node and its box deleted. *)
DequeueMove ==
    /\ cpc = "loaded"
    /\ out' = Append(out, dataPtr_[cnext])
    /\ dataPtr_' = [dataPtr_ EXCEPT ![cnext] = NULL]
    /\ cpc' = "moved"
    /\ UNCHANGED <<head_, tail_, next_, live, producerVars, cnext, dying, chain>>

(* Mutants of DequeueFree: it deletes the new tail; it deletes nothing. *)
DequeueFreeWith(tail, freed) ==
    cpc = "moved" /\ cpc' = "idle" /\ tail_' = tail /\ live' = live \ freed
    /\ cnext' = NULL /\ chain' = Tail(chain)
    /\ UNCHANGED <<head_, next_, dataPtr_, producerVars, dying, out>>
DequeueFreeNew  == DequeueFreeWith(cnext, {cnext})
DequeueFreeNone == DequeueFreeWith(cnext, {})

(* dequeue: tail_ advances and the node it was on is deleted. *)
DequeueFree ==
    /\ cpc = "moved"
    /\ tail_' = cnext
    /\ live' = live \ {tail_}
    /\ cnext' = NULL
    /\ cpc' = "idle"
    /\ chain' = Tail(chain)
    /\ UNCHANGED <<head_, next_, dataPtr_, producerVars, dying, out>>

(* ~MpscQueue is entered by the owner, once no thread is in the queue. *)
DestroyBegin ==
    /\ ~dying
    /\ cpc = "idle"
    /\ \A p \in Producers : pc[p] = "idle"
    /\ dying' = TRUE
    /\ UNCHANGED <<head_, tail_, next_, dataPtr_, live, producerVars, cpc, cnext, chain, out>>

(* ~MpscQueue: the loop of dequeue has returned false; delete head_. *)
DestroyEnd ==
    /\ dying
    /\ cpc = "idle"
    /\ Empty
    /\ live' = live \ {head_}
    /\ cpc' = "destroyed"
    /\ UNCHANGED <<head_, tail_, next_, dataPtr_, producerVars, cnext, dying, chain, out>>

Enqueue(p) == EnqueueAlloc(p) \/ EnqueueExchange(p) \/ EnqueueLink(p)

Dequeue == DequeueLoad \/ DequeueMove \/ DequeueFree

Next == \/ \E p \in Producers : Enqueue(p)
        \/ Dequeue
        \/ DestroyBegin
        \/ DestroyEnd

Spec == Init /\ [][Next]_vars

(* A thread inside enqueue finishes it, and the consumer keeps dequeuing: *)
(* EventLoop calls dequeue on every turn of its loop.                     *)
Fairness == /\ \A p \in Producers : WF_vars(EnqueueExchange(p) \/ EnqueueLink(p))
            /\ WF_vars(Dequeue)

FairSpec == Spec /\ Fairness

-----------------------------------------------------------------------------
(* The refinement of MpscQueueSpec: a place is an exchanged node after the *)
(* tail, linked once the node before it points to it; a place is gone from *)
(* the moment its item has been moved out.                                 *)
Gone == IF cpc = "moved" THEN 2 ELSE 1

Slots == [i \in 1..(Len(chain) - Gone) |->
            [val    |-> dataPtr_[chain[i + Gone]],
             by     |-> dataPtr_[chain[i + Gone]][1],
             linked |-> next_[chain[i + Gone - 1]] # NULL]]

Abs == INSTANCE MpscQueueSpec WITH slots <- Slots

(* The queue implements MpscQueueSpec: items leave in the order of the     *)
(* exchange of head_ (MpscQueue.h:51), each exactly once, and an item is   *)
(* never returned before its producer stored the link (MpscQueue.h:52).    *)
Refinement == Abs!Abstract

(* No thread dereferences a node that has been deleted: not the producer   *)
(* that stores into prevhead->next_ (line 52) while the consumer deletes   *)
(* nodes (line 74), not the consumer that reads tail and next (65-72); and *)
(* the item dequeue moves out has not been deleted before.                 *)
NoUseAfterFree ==
    /\ \A p \in Producers : pc[p] = "exchanged" => prevhead[p] \in live
    /\ cpc # "destroyed" => head_ \in live /\ tail_ \in live
    /\ cpc \in {"loaded", "moved"} => cnext \in live
    /\ cpc = "loaded" => dataPtr_[cnext] # NULL

(* Two producers never store into the same next_ (line 52), so that none   *)
(* overwrites the link of another and loses the nodes behind it.           *)
NoLostLink ==
    \A p, q \in Producers :
        /\ pc[p] = "exchanged"
        /\ pc[q] = "exchanged"
        /\ p # q
        => prevhead[p] # prevhead[q]

(* The destructor (lines 26-34) frees every node and every item: draining  *)
(* the queue leaves head_ as the only node.                                *)
NoLeak == cpc = "destroyed" => live = {} /\ \A n \in Nodes : dataPtr_[n] = NULL

(* Every item whose enqueue has begun is dequeued, even one that was       *)
(* hidden behind a node whose producer was delayed before line 52.         *)
EveryItemDelivered ==
    \A p \in Producers : \A k \in 1..MaxEnqueue :
        sent[p] >= k ~> \E i \in 1..Len(out) : out[i] = <<p, k>>

-----------------------------------------------------------------------------
(* The inductive invariant behind the safety properties. *)

Busy(p) == pc[p] # "idle"

InChain(n) == \E i \in 1..Len(chain) : chain[i] = n

(* chain leads from tail_ to head_ through distinct allocated nodes. *)
ChainOK ==
    /\ Len(chain) >= 1
    /\ chain[1] = tail_
    /\ chain[Len(chain)] = head_
    /\ \A i, j \in 1..Len(chain) : chain[i] = chain[j] => i = j

(* A node of the chain points to its successor, or to nothing while the    *)
(* successor's producer is about to store the link.                        *)
LinksOK ==
    /\ next_[head_] = NULL
    /\ \A i \in 1..(Len(chain) - 1) :
          \/ next_[chain[i]] = chain[i + 1]
          \/ /\ next_[chain[i]] = NULL
             /\ \E p \in Producers : /\ pc[p] = "exchanged"
                                      /\ prevhead[p] = chain[i]
                                      /\ node[p] = chain[i + 1]

(* Where the local pointers of a producer point to. *)
ProducersOK ==
    \A p \in Producers :
        /\ pc[p] = "allocated" =>
              node[p] \in Nodes /\ ~InChain(node[p]) /\ next_[node[p]] = NULL
        /\ pc[p] = "exchanged" =>
              \E i \in 1..(Len(chain) - 1) : /\ prevhead[p] = chain[i]
                                             /\ node[p] = chain[i + 1]
                                             /\ next_[chain[i]] = NULL
        /\ \A q \in Producers : p # q /\ Busy(p) /\ Busy(q) => node[p] # node[q]

(* A node holds an item from its allocation until it is moved out. *)
DataOK ==
    /\ \A i \in 2..Len(chain) : dataPtr_[chain[i]] = NULL <=> (i = 2 /\ cpc = "moved")
    /\ \A p \in Producers : Busy(p) /\ ~(cpc = "moved" /\ node[p] = cnext) =>
            dataPtr_[node[p]] # NULL /\ dataPtr_[node[p]][1] = p
    /\ dataPtr_[tail_] = NULL

(* The consumer's local pointer is the successor of tail_. *)
ConsumerOK ==
    cpc \in {"loaded", "moved"} =>
        Len(chain) >= 2 /\ cnext = chain[2] /\ next_[tail_] = cnext

(* Exactly the nodes of the chain and of unfinished enqueues are allocated,*)
(* and only they hold items.                                               *)
MemoryOK ==
    /\ cpc # "destroyed" =>
         \A n \in Nodes : n \in live <=> (InChain(n) \/ \E p \in Producers : Busy(p) /\ node[p] = n)
    /\ \A n \in Nodes : ~InChain(n) /\ (\A p \in Producers : Busy(p) => node[p] # n) => dataPtr_[n] = NULL
    /\ dying => \A p \in Producers : ~Busy(p)
    /\ cpc = "destroyed" => dying /\ Len(chain) = 1 /\ live = {}

IInv == /\ TypeOK
        /\ ChainOK
        /\ LinksOK
        /\ ProducersOK
        /\ DataOK
        /\ ConsumerOK
        /\ MemoryOK
=============================================================================
