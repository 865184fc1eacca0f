--------------------------- MODULE MpscQueueProofs ---------------------------
(***************************************************************************)
(* Proofs about MpscQueue for any number of producers, any set of          *)
(* addresses and any number of enqueues: memory safety, the absence of     *)
(* leaks, and the refinement of MpscQueueSpec.                             *)
(***************************************************************************)
EXTENDS MpscQueue, TLAPS

(* What Append does to a sequence, element by element. *)
LEMMA AppendFacts ==
    ASSUME NEW S, NEW s \in Seq(S), NEW e \in S
    PROVE  /\ Append(s, e) \in Seq(S)
           /\ Len(Append(s, e)) = Len(s) + 1
           /\ \A i \in 1..Len(s) : Append(s, e)[i] = s[i]
           /\ Append(s, e)[Len(s) + 1] = e
  OBVIOUS

(* What Tail does to a non-empty sequence, element by element. *)
LEMMA TailFacts ==
    ASSUME NEW S, NEW s \in Seq(S), Len(s) >= 1
    PROVE  /\ Tail(s) \in Seq(S)
           /\ Len(Tail(s)) = Len(s) - 1
           /\ \A i \in 1..(Len(s) - 1) : Tail(s)[i] = s[i + 1]
  OBVIOUS

(* A sequence with neither zero elements nor one has a first of two. *)
LEMMA TwoOrMore ==
    ASSUME NEW k \in Nat, k >= 1
    PROVE  k = 1 \/ (k >= 2 /\ 1 \in 1..(k - 1) /\ 2 \in 1..k)
  OBVIOUS

(* The constructor establishes the inductive invariant. *)
LEMMA InitIInv == Init => IInv
<1> SUFFICES ASSUME Init PROVE IInv
  OBVIOUS
<1> PICK stub \in Nodes :
        /\ head_ = stub
        /\ tail_ = stub
        /\ next_ = [n \in Nodes |-> NULL]
        /\ dataPtr_ = [n \in Nodes |-> NULL]
        /\ live = {stub}
        /\ pc = [p \in Producers |-> "idle"]
        /\ node = [p \in Producers |-> NULL]
        /\ prevhead = [p \in Producers |-> NULL]
        /\ sent = [p \in Producers |-> 0]
        /\ cpc = "idle"
        /\ cnext = NULL
        /\ dying = FALSE
        /\ chain = <<stub>>
        /\ out = <<>>
  BY DEF Init
<1>1. chain \in Seq(Nodes) /\ Len(chain) = 1 /\ chain[1] = stub
  OBVIOUS
<1>2. TypeOK
  <2>1. dying \in BOOLEAN
    BY Zenon
  <2>2. out \in Seq(Items) /\ sent \in [Producers -> 0..MaxEnqueue]
    BY MaxEnqueueAssumption
  <2> QED
    BY <1>1, <2>1, <2>2 DEF TypeOK
<1>3. ChainOK /\ LinksOK /\ ConsumerOK
  BY <1>1 DEF ChainOK, LinksOK, ConsumerOK
<1>4. ProducersOK /\ DataOK
  BY <1>1 DEF ProducersOK, DataOK, Busy
<1>5. MemoryOK
  BY <1>1 DEF MemoryOK, InChain, Busy
<1> QED
  BY <1>2, <1>3, <1>4, <1>5 DEF IInv

(* new BufferNode: the new address is in neither the chain nor an enqueue. *)
LEMMA AllocIInv ==
    ASSUME IInv, NEW p \in Producers, EnqueueAlloc(p)
    PROVE  IInv'
<1> USE DEF IInv, TypeOK
<1> PICK n \in Nodes \ live :
        /\ live' = live \cup {n}
        /\ next_' = [next_ EXCEPT ![n] = NULL]
        /\ dataPtr_' = [dataPtr_ EXCEPT ![n] = <<p, sent[p] + 1>>]
        /\ node' = [node EXCEPT ![p] = n]
  BY DEF EnqueueAlloc
<1>1. /\ pc[p] = "idle" /\ ~dying /\ sent[p] < MaxEnqueue
      /\ sent' = [sent EXCEPT ![p] = @ + 1]
      /\ pc' = [pc EXCEPT ![p] = "allocated"]
      /\ UNCHANGED <<head_, tail_, prevhead, cpc, cnext, dying, out, chain>>
  BY DEF EnqueueAlloc, consumerVars
<1>2. /\ ~InChain(n)
      /\ \A q \in Producers : Busy(q) => node[q] # n
      /\ cpc # "destroyed"
  BY <1>1 DEF MemoryOK
<1>3. <<p, sent[p] + 1>> \in Items
  BY <1>1, MaxEnqueueAssumption DEF Items
<1>4. TypeOK'
  BY <1>1, <1>3, MaxEnqueueAssumption
<1>5. ChainOK'
  BY <1>1 DEF ChainOK
<1>6. /\ \A i \in 1..Len(chain) : chain[i] # n /\ chain[i] \in Nodes
      /\ \A i \in 1..Len(chain) : /\ next_'[chain[i]] = next_[chain[i]]
                                  /\ dataPtr_'[chain[i]] = dataPtr_[chain[i]]
      /\ head_ # n /\ tail_ # n
  BY <1>2 DEF InChain, ChainOK
<1>7. \A q \in Producers : q # p => /\ pc'[q] = pc[q]
                                    /\ node'[q] = node[q]
                                    /\ (Busy(q) => node[q] # n)
  BY <1>1, <1>2
<1>8. LinksOK'
  <2>1. next_'[head_] = NULL
    BY <1>1, <1>6 DEF LinksOK
  <2>2. ASSUME NEW i \in 1..(Len(chain) - 1)
        PROVE  \/ next_'[chain[i]] = chain[i + 1]
               \/ /\ next_'[chain[i]] = NULL
                  /\ \E q \in Producers : /\ pc'[q] = "exchanged"
                                          /\ prevhead'[q] = chain[i]
                                          /\ node'[q] = chain[i + 1]
    <3>1. i \in 1..Len(chain)
      OBVIOUS
    <3>2. next_'[chain[i]] = next_[chain[i]]
      BY <3>1, <1>6
    <3>3. CASE next_[chain[i]] = chain[i + 1]
      BY <3>2, <3>3
    <3>4. CASE /\ next_[chain[i]] = NULL
               /\ \E q \in Producers : /\ pc[q] = "exchanged"
                                       /\ prevhead[q] = chain[i]
                                       /\ node[q] = chain[i + 1]
      <4> PICK q \in Producers : pc[q] = "exchanged" /\ prevhead[q] = chain[i] /\ node[q] = chain[i + 1]
        BY <3>4
      <4> q # p
        BY <1>1
      <4> QED
        BY <1>1, <1>7, <3>2, <3>4
    <3> QED
      BY <3>3, <3>4 DEF LinksOK
  <2> QED
    BY <1>1, <2>1, <2>2 DEF LinksOK
<1>9. ProducersOK'
  <2> SUFFICES ASSUME NEW q \in Producers
               PROVE  /\ pc'[q] = "allocated" =>
                           node'[q] \in Nodes /\ ~InChain(node'[q]) /\ next_'[node'[q]] = NULL
                      /\ pc'[q] = "exchanged" =>
                           \E i \in 1..(Len(chain) - 1) : /\ prevhead[q] = chain[i]
                                                          /\ node'[q] = chain[i + 1]
                                                          /\ next_'[chain[i]] = NULL
                      /\ \A r \in Producers : q # r /\ pc'[q] # "idle" /\ pc'[r] # "idle" => node'[q] # node'[r]
    BY <1>1 DEF ProducersOK, InChain, Busy
  <2>1. CASE q = p
    BY <2>1, <1>1, <1>2, <1>7 DEF Busy
  <2>2. CASE q # p
    <3>1. pc[q] = "allocated" => next_'[node[q]] = NULL
      BY <2>2, <1>7 DEF ProducersOK, Busy
    <3>2. ASSUME pc[q] = "exchanged"
          PROVE  \E i \in 1..(Len(chain) - 1) : /\ prevhead[q] = chain[i]
                                                /\ node'[q] = chain[i + 1]
                                                /\ next_'[chain[i]] = NULL
      <4> PICK i \in 1..(Len(chain) - 1) : prevhead[q] = chain[i] /\ node[q] = chain[i + 1] /\ next_[chain[i]] = NULL
        BY <3>2 DEF ProducersOK
      <4>1. i \in 1..Len(chain)
        OBVIOUS
      <4> QED
        BY <4>1, <1>6, <1>7, <2>2
    <3>3. ASSUME NEW r \in Producers, q # r, pc'[q] # "idle", pc'[r] # "idle"
          PROVE  node'[q] # node'[r]
      BY <3>3, <2>2, <1>1, <1>7 DEF ProducersOK, Busy
    <3> QED
      BY <3>1, <3>2, <3>3, <2>2, <1>7 DEF ProducersOK
  <2> QED
    BY <2>1, <2>2
<1>10. DataOK'
  <2>1. \A i \in 2..Len(chain) : (dataPtr_'[chain[i]] = NULL) <=> (i = 2 /\ cpc = "moved")
    BY <1>6 DEF DataOK
  <2>2. ASSUME NEW q \in Producers, pc'[q] # "idle", ~(cpc = "moved" /\ node'[q] = cnext)
        PROVE  dataPtr_'[node'[q]] # NULL /\ dataPtr_'[node'[q]][1] = q
    <3>1. CASE q = p
      BY <3>1, <1>1, <1>3, ItemsAssumption
    <3>2. CASE q # p
      <4>1. Busy(q) /\ node'[q] = node[q] /\ node[q] # n
        BY <3>2, <2>2, <1>7 DEF Busy
      <4>2. dataPtr_[node[q]] # NULL /\ dataPtr_[node[q]][1] = q
        BY <4>1, <2>2, <1>1 DEF DataOK
      <4>3. node[q] \in Nodes
        BY <4>1 DEF ProducersOK, Busy
      <4> QED
        BY <4>1, <4>2, <4>3
    <3> QED
      BY <3>1, <3>2
  <2>3. dataPtr_'[tail_] = NULL
    BY <1>6 DEF DataOK
  <2> QED
    BY <2>1, <2>2, <2>3, <1>1 DEF DataOK, Busy
<1>11. ConsumerOK'
  BY <1>1, <1>6 DEF ConsumerOK
<1>12. MemoryOK'
  <2>1. ASSUME NEW m \in Nodes
        PROVE  m \in live' <=> (InChain(m)' \/ \E q \in Producers : Busy(q)' /\ node'[q] = m)
    <3>1. InChain(m)' <=> InChain(m)
      BY <1>1 DEF InChain
    <3>2. (\E q \in Producers : Busy(q)' /\ node'[q] = m)
             <=> (m = n \/ \E q \in Producers : Busy(q) /\ node[q] = m)
      BY <1>1, <1>7 DEF Busy
    <3> QED
      BY <1>2, <3>1, <3>2 DEF MemoryOK
  <2>2. ASSUME NEW m \in Nodes, ~InChain(m)', \A q \in Producers : Busy(q)' => node'[q] # m
        PROVE  dataPtr_'[m] = NULL
    <3>1. m # n
      BY <2>2, <1>1 DEF Busy
    <3>2. \A q \in Producers : Busy(q) => node[q] # m
      BY <2>2, <1>1, <1>7 DEF Busy
    <3>3. ~InChain(m)
      BY <2>2, <1>1 DEF InChain
    <3> QED
      BY <3>1, <3>2, <3>3 DEF MemoryOK
  <2> QED
    BY <1>1, <1>2, <2>1, <2>2 DEF MemoryOK
<1> QED
  BY <1>4, <1>5, <1>8, <1>9, <1>10, <1>11, <1>12

(* The exchange appends the producer's node to the chain, unlinked. *)
LEMMA ExchangeIInv ==
    ASSUME IInv, NEW p \in Producers, EnqueueExchange(p)
    PROVE  IInv'
<1> USE DEF IInv, TypeOK
<1>1. /\ pc[p] = "allocated"
      /\ prevhead' = [prevhead EXCEPT ![p] = head_]
      /\ head_' = node[p]
      /\ chain' = Append(chain, node[p])
      /\ pc' = [pc EXCEPT ![p] = "exchanged"]
      /\ UNCHANGED <<tail_, next_, dataPtr_, live, node, sent, cpc, cnext, dying, out>>
  BY DEF EnqueueExchange, consumerVars
<1>2. node[p] \in Nodes /\ ~InChain(node[p]) /\ next_[node[p]] = NULL
  BY <1>1 DEF ProducersOK
<1>3. /\ chain' \in Seq(Nodes)
      /\ Len(chain') = Len(chain) + 1
      /\ \A i \in 1..Len(chain) : chain'[i] = chain[i]
      /\ chain'[Len(chain) + 1] = node[p]
      /\ Len(chain) \in Nat /\ Len(chain) >= 1
  BY <1>1, <1>2, AppendFacts DEF ChainOK
<1>13. ASSUME NEW m PROVE InChain(m)' <=> (InChain(m) \/ m = node[p])
  <2>1. InChain(m) => InChain(m)'
    BY <1>3 DEF InChain
  <2>2. InChain(node[p])'
    <3>1. Len(chain) + 1 \in 1..Len(chain')
      BY <1>3
    <3> QED
      BY <3>1, <1>1, <1>3 DEF InChain
  <2>3. ASSUME NEW i \in 1..Len(chain'), chain'[i] = m
        PROVE  InChain(m) \/ m = node[p]
    <3>1. i \in 1..Len(chain) \/ i = Len(chain) + 1
      BY <1>3
    <3> QED
      BY <2>3, <3>1, <1>3 DEF InChain
  <2> QED
    BY <2>1, <2>2, <2>3, <1>1 DEF InChain
<1>4. \A q \in Producers : Busy(q)' <=> Busy(q)
  BY <1>1 DEF Busy
<1>5. ~dying /\ cpc # "destroyed"
  BY <1>1 DEF MemoryOK, Busy
<1>6. TypeOK'
  BY <1>1, <1>2, <1>3
<1>7. ChainOK'
  BY <1>1, <1>2, <1>3 DEF ChainOK, InChain
<1>8. LinksOK'
  <2>1. next_'[head_'] = NULL
    BY <1>1, <1>2
  <2>2. ASSUME NEW i \in 1..Len(chain)
        PROVE  \/ next_'[chain'[i]] = chain'[i + 1]
               \/ /\ next_'[chain'[i]] = NULL
                  /\ \E q \in Producers : /\ pc'[q] = "exchanged"
                                          /\ prevhead'[q] = chain'[i]
                                          /\ node'[q] = chain'[i + 1]
    <3>1. CASE i = Len(chain)
      <4>1. chain'[i] = head_ /\ chain'[i + 1] = node[p] /\ next_[head_] = NULL
        BY <3>1, <1>3 DEF ChainOK, LinksOK
      <4> QED
        BY <4>1, <1>1
    <3>2. CASE i # Len(chain)
      <4>1. i \in 1..(Len(chain) - 1) /\ i + 1 \in 1..Len(chain)
        BY <3>2, <1>3
      <4>2. chain'[i] = chain[i] /\ chain'[i + 1] = chain[i + 1]
        BY <4>1, <1>3
      <4>3. CASE next_[chain[i]] = chain[i + 1]
        BY <4>2, <4>3, <1>1
      <4>4. CASE /\ next_[chain[i]] = NULL
                 /\ \E q \in Producers : /\ pc[q] = "exchanged"
                                         /\ prevhead[q] = chain[i]
                                         /\ node[q] = chain[i + 1]
        <5> PICK q \in Producers : pc[q] = "exchanged" /\ prevhead[q] = chain[i] /\ node[q] = chain[i + 1]
          BY <4>4
        <5> q # p
          BY <1>1
        <5> QED
          BY <1>1, <4>2, <4>4
      <4> QED
        BY <4>1, <4>3, <4>4 DEF LinksOK
    <3> QED
      BY <3>1, <3>2
  <2> QED
    BY <1>3, <2>1, <2>2 DEF LinksOK
<1>9. ProducersOK'
  <2> SUFFICES ASSUME NEW q \in Producers
               PROVE  /\ pc'[q] = "allocated" =>
                           node[q] \in Nodes /\ ~InChain(node[q])' /\ next_[node[q]] = NULL
                      /\ pc'[q] = "exchanged" =>
                           \E i \in 1..Len(chain) : /\ prevhead'[q] = chain'[i]
                                                    /\ node[q] = chain'[i + 1]
                                                    /\ next_[chain'[i]] = NULL
                      /\ \A r \in Producers : q # r /\ Busy(q) /\ Busy(r) => node[q] # node[r]
    <3>1. Len(chain') - 1 = Len(chain)
      BY <1>3
    <3>2. node' = node /\ next_' = next_
      BY <1>1
    <3> QED
      BY <3>1, <3>2, <1>4 DEF ProducersOK
  <2>1. \A r \in Producers : q # r /\ Busy(q) /\ Busy(r) => node[q] # node[r]
    BY DEF ProducersOK
  <2>2. CASE q = p
    <3>1. prevhead'[p] = chain'[Len(chain)] /\ node[p] = chain'[Len(chain) + 1] /\ next_[chain'[Len(chain)]] = NULL
      BY <1>1, <1>3 DEF ChainOK, LinksOK
    <3> QED
      BY <2>1, <2>2, <3>1, <1>1, <1>3
  <2>3. CASE q # p
    <3>1. ASSUME pc'[q] = "allocated"
          PROVE  node[q] \in Nodes /\ ~InChain(node[q])' /\ next_[node[q]] = NULL
      <4>1. pc[q] = "allocated" /\ node[q] # node[p]
        BY <3>1, <2>1, <2>3, <1>1 DEF Busy
      <4> QED
        BY <4>1, <1>1, <1>13 DEF ProducersOK
    <3>2. ASSUME pc'[q] = "exchanged"
          PROVE  \E i \in 1..Len(chain) : /\ prevhead'[q] = chain'[i]
                                          /\ node[q] = chain'[i + 1]
                                          /\ next_[chain'[i]] = NULL
      <4>1. pc[q] = "exchanged" /\ prevhead'[q] = prevhead[q]
        BY <3>2, <2>3, <1>1
      <4> PICK i \in 1..(Len(chain) - 1) : prevhead[q] = chain[i] /\ node[q] = chain[i + 1] /\ next_[chain[i]] = NULL
        BY <4>1 DEF ProducersOK
      <4>2. i \in 1..Len(chain) /\ i + 1 \in 1..Len(chain)
        BY <1>3
      <4> QED
        BY <4>1, <4>2, <1>3
    <3> QED
      BY <2>1, <3>1, <3>2
  <2> QED
    BY <2>2, <2>3
<1>10. ConsumerOK'
  BY <1>1, <1>3 DEF ConsumerOK
<1>11. DataOK'
  <2>1. ASSUME NEW i \in 2..(Len(chain) + 1)
        PROVE  (dataPtr_[chain'[i]] = NULL) <=> (i = 2 /\ cpc = "moved")
    <3>1. CASE i = Len(chain) + 1
      <4>1. ~(i = 2 /\ cpc = "moved")
        BY <3>1, <1>3 DEF ConsumerOK
      <4>2. ~(cpc = "moved" /\ node[p] = cnext)
        BY <1>2, <1>3 DEF ConsumerOK, InChain
      <4>3. dataPtr_[node[p]] # NULL
        BY <4>2, <1>1 DEF DataOK, Busy
      <4> QED
        BY <3>1, <4>1, <4>3, <1>3
    <3>2. CASE i # Len(chain) + 1
      <4>1. i \in 2..Len(chain) /\ i \in 1..Len(chain)
        BY <3>2, <1>3
      <4>2. chain'[i] = chain[i]
        BY <4>1, <1>3
      <4> QED
        BY <4>1, <4>2 DEF DataOK
    <3> QED
      BY <3>1, <3>2
  <2> QED
    BY <2>1, <1>1, <1>3, <1>4 DEF DataOK
<1>12. MemoryOK'
  <2>1. \A m \in Nodes : InChain(m)' <=> (InChain(m) \/ m = node[p])
    BY <1>13
  <2>2. Busy(p)
    BY <1>1 DEF Busy
  <2> QED
    BY <2>1, <2>2, <1>1, <1>4, <1>5 DEF MemoryOK
<1> QED
  BY <1>6, <1>7, <1>8, <1>9, <1>10, <1>11, <1>12

(* The store to next_ links the producer's node into the chain. *)
LEMMA LinkIInv ==
    ASSUME IInv, NEW p \in Producers, EnqueueLink(p)
    PROVE  IInv'
<1> USE DEF IInv, TypeOK
<1>1. /\ pc[p] = "exchanged"
      /\ next_' = [next_ EXCEPT ![prevhead[p]] = node[p]]
      /\ node' = [node EXCEPT ![p] = NULL]
      /\ prevhead' = [prevhead EXCEPT ![p] = NULL]
      /\ pc' = [pc EXCEPT ![p] = "idle"]
      /\ UNCHANGED <<head_, tail_, dataPtr_, live, sent, cpc, cnext, dying, out, chain>>
  BY DEF EnqueueLink, consumerVars
<1> PICK k \in 1..(Len(chain) - 1) : prevhead[p] = chain[k] /\ node[p] = chain[k + 1] /\ next_[chain[k]] = NULL
  BY <1>1 DEF ProducersOK
<1>2. /\ Len(chain) \in Nat
      /\ \A i \in 1..Len(chain) : chain[i] \in Nodes
      /\ k \in 1..Len(chain) /\ k + 1 \in 1..Len(chain)
  OBVIOUS
<1>3. /\ next_'[chain[k]] = chain[k + 1]
      /\ \A n \in Nodes : n # chain[k] => next_'[n] = next_[n]
      /\ \A i \in 1..Len(chain) : i # k => chain[i] # chain[k]
  BY <1>1, <1>2 DEF ChainOK
<1>4. \A q \in Producers : q # p => /\ pc'[q] = pc[q]
                                    /\ node'[q] = node[q]
                                    /\ prevhead'[q] = prevhead[q]
                                    /\ (Busy(q) => node[q] # node[p])
  BY <1>1 DEF ProducersOK, Busy
<1>5. ~Busy(p)' /\ Busy(p)
  BY <1>1 DEF Busy
<1>6. ~dying /\ cpc # "destroyed"
  BY <1>5 DEF MemoryOK
<1>7. TypeOK'
  BY <1>1, <1>2
<1>8. ChainOK'
  BY <1>1 DEF ChainOK
<1>9. LinksOK'
  <2>1. head_ # chain[k]
    BY <1>2 DEF ChainOK
  <2>2. next_'[head_'] = NULL
    BY <2>1, <1>1, <1>3 DEF LinksOK
  <2>3. ASSUME NEW i \in 1..(Len(chain) - 1)
        PROVE  \/ next_'[chain[i]] = chain[i + 1]
               \/ /\ next_'[chain[i]] = NULL
                  /\ \E q \in Producers : /\ pc'[q] = "exchanged"
                                          /\ prevhead'[q] = chain[i]
                                          /\ node'[q] = chain[i + 1]
    <3>1. CASE i = k
      BY <3>1, <1>3
    <3>2. CASE i # k
      <4>1. i \in 1..Len(chain) /\ i + 1 \in 1..Len(chain) /\ chain[i] \in Nodes
        <5> HIDE DEF IInv, TypeOK
        <5>1. i \in 1..Len(chain) /\ i + 1 \in 1..Len(chain)
          BY <1>2
        <5> QED
          BY <5>1, <1>2
      <4>2. next_'[chain[i]] = next_[chain[i]]
        BY <3>2, <4>1, <1>3
      <4>3. CASE next_[chain[i]] = chain[i + 1]
        BY <4>2, <4>3
      <4>4. CASE /\ next_[chain[i]] = NULL
                 /\ \E q \in Producers : /\ pc[q] = "exchanged"
                                         /\ prevhead[q] = chain[i]
                                         /\ node[q] = chain[i + 1]
        <5> PICK q \in Producers : pc[q] = "exchanged" /\ prevhead[q] = chain[i] /\ node[q] = chain[i + 1]
          BY <4>4
        <5> q # p
          BY <3>2, <4>1, <1>3
        <5>1. pc'[q] = "exchanged" /\ prevhead'[q] = chain[i] /\ node'[q] = chain[i + 1]
          BY <1>4
        <5> HIDE DEF IInv, TypeOK
        <5> QED
          BY <5>1, <4>2, <4>4
      <4> QED
        BY <4>3, <4>4 DEF LinksOK
    <3> QED
      BY <3>1, <3>2
  <2> QED
    BY <2>2, <2>3, <1>1 DEF LinksOK
<1>10. ProducersOK'
  <2> SUFFICES ASSUME NEW q \in Producers
               PROVE  /\ pc'[q] = "allocated" =>
                           node'[q] \in Nodes /\ ~InChain(node'[q]) /\ next_'[node'[q]] = NULL
                      /\ pc'[q] = "exchanged" =>
                           \E i \in 1..(Len(chain) - 1) : /\ prevhead'[q] = chain[i]
                                                          /\ node'[q] = chain[i + 1]
                                                          /\ next_'[chain[i]] = NULL
                      /\ \A r \in Producers : q # r /\ Busy(q)' /\ Busy(r)' => node'[q] # node'[r]
    BY <1>1 DEF ProducersOK, InChain
  <2>1. CASE q = p
    <3>1. pc'[p] = "idle"
      BY <1>1
    <3> HIDE DEF IInv, TypeOK
    <3> QED
      BY <2>1, <3>1, <1>5
  <2>2. CASE q # p
    <3>1. ASSUME pc'[q] = "allocated"
          PROVE  node'[q] \in Nodes /\ ~InChain(node'[q]) /\ next_'[node'[q]] = NULL
      <4>1. pc[q] = "allocated" /\ node'[q] = node[q]
        BY <3>1, <2>2, <1>4
      <4>2. node[q] \in Nodes /\ ~InChain(node[q]) /\ next_[node[q]] = NULL
        BY <4>1 DEF ProducersOK
      <4>3. node[q] # chain[k]
        BY <4>2, <1>2 DEF InChain
      <4> QED
        BY <4>1, <4>2, <4>3, <1>3
    <3>2. ASSUME pc'[q] = "exchanged"
          PROVE  \E i \in 1..(Len(chain) - 1) : /\ prevhead'[q] = chain[i]
                                                /\ node'[q] = chain[i + 1]
                                                /\ next_'[chain[i]] = NULL
      <4>1. pc[q] = "exchanged" /\ prevhead'[q] = prevhead[q] /\ node'[q] = node[q] /\ node[q] # node[p]
        BY <3>2, <2>2, <1>4 DEF Busy
      <4> PICK i \in 1..(Len(chain) - 1) : prevhead[q] = chain[i] /\ node[q] = chain[i + 1] /\ next_[chain[i]] = NULL
        BY <4>1 DEF ProducersOK
      <4> HIDE DEF IInv, TypeOK
      <4>2. i \in 1..Len(chain)
        BY <1>2
      <4>3. i # k
        BY <4>1
      <4>4. next_'[chain[i]] = NULL
        BY <4>2, <4>3, <1>2, <1>3
      <4>5. prevhead'[q] = chain[i] /\ node'[q] = chain[i + 1]
        BY <4>1
      <4> QED
        BY <4>4, <4>5
    <3>3. ASSUME NEW r \in Producers, q # r, Busy(q)', Busy(r)' PROVE node'[q] # node'[r]
      <4>1. r # p
        BY <3>3, <1>5
      <4>2. Busy(q) /\ Busy(r) /\ node'[q] = node[q] /\ node'[r] = node[r]
        BY <3>3, <4>1, <2>2, <1>4 DEF Busy
      <4> QED
        BY <3>3, <4>2 DEF ProducersOK
    <3> QED
      BY <3>1, <3>2, <3>3
  <2> QED
    BY <2>1, <2>2
<1>11. DataOK'
  <2>1. ASSUME NEW q \in Producers, Busy(q)', ~(cpc = "moved" /\ node'[q] = cnext)
        PROVE  dataPtr_[node'[q]] # NULL /\ dataPtr_[node'[q]][1] = q
    BY <2>1, <1>4, <1>5 DEF DataOK, Busy
  <2> QED
    BY <2>1, <1>1 DEF DataOK
<1>12. ConsumerOK'
  <2>1. ASSUME cpc \in {"loaded", "moved"}
        PROVE  next_'[tail_] = cnext
    <3>1. next_[tail_] = cnext /\ cnext \in Nodes /\ tail_ = chain[1]
      BY <2>1, <1>2 DEF ConsumerOK, ChainOK
    <3>2. tail_ # chain[k]
      BY <3>1, NodesAssumption
    <3> QED
      BY <3>1, <3>2, <1>3
  <2> QED
    BY <2>1, <1>1 DEF ConsumerOK
<1>13. MemoryOK'
  <2>1. \A m \in Nodes : InChain(m)' <=> InChain(m)
    BY <1>1 DEF InChain
  <2>2. InChain(node[p])
    BY <1>2 DEF InChain
  <2>3. ASSUME NEW m \in Nodes
        PROVE  (InChain(m)' \/ \E q \in Producers : Busy(q)' /\ node'[q] = m)
                  <=> (InChain(m) \/ \E q \in Producers : Busy(q) /\ node[q] = m)
    BY <2>1, <2>2, <1>4, <1>5 DEF Busy
  <2> QED
    BY <2>1, <2>3, <1>1, <1>6 DEF MemoryOK
<1> QED
  BY <1>7, <1>8, <1>9, <1>10, <1>11, <1>12, <1>13

(* dequeue's loads change nothing but the consumer's locals. *)
LEMMA LoadIInv ==
    ASSUME IInv, DequeueLoad
    PROVE  IInv'
<1> USE DEF IInv, TypeOK
<1>1. /\ cpc = "idle" /\ cpc' = "loaded"
      /\ next_[tail_] # NULL
      /\ cnext' = next_[tail_]
      /\ UNCHANGED <<head_, tail_, next_, dataPtr_, live, pc, node, prevhead, sent, dying, chain, out>>
  BY DEF DequeueLoad, producerVars, Empty
<1>2. Len(chain) \in Nat /\ Len(chain) >= 2 /\ next_[tail_] = chain[2]
  <2>1. Len(chain) \in Nat /\ Len(chain) >= 1 /\ Len(chain) # 1
    BY <1>1 DEF ChainOK, LinksOK
  <2>2. 1 \in 1..(Len(chain) - 1) /\ Len(chain) >= 2
    BY <2>1, TwoOrMore
  <2> QED
    BY <2>1, <2>2, <1>1 DEF ChainOK, LinksOK
<1>3. TypeOK' /\ ChainOK' /\ LinksOK'
  BY <1>1 DEF ChainOK, LinksOK
<1>4. ProducersOK'
  BY <1>1 DEF ProducersOK, Busy, InChain
<1>5. DataOK'
  BY <1>1 DEF DataOK, Busy
<1>6. ConsumerOK'
  BY <1>1, <1>2 DEF ConsumerOK
<1>7. MemoryOK'
  BY <1>1 DEF MemoryOK, Busy, InChain
<1> QED
  BY <1>3, <1>4, <1>5, <1>6, <1>7

(* Moving the item out empties the second node of the chain. *)
LEMMA MoveIInv ==
    ASSUME IInv, DequeueMove
    PROVE  IInv'
<1> USE DEF IInv, TypeOK
<1>1. /\ cpc = "loaded" /\ cpc' = "moved"
      /\ out' = Append(out, dataPtr_[cnext])
      /\ dataPtr_' = [dataPtr_ EXCEPT ![cnext] = NULL]
      /\ UNCHANGED <<head_, tail_, next_, live, pc, node, prevhead, sent, cnext, dying, chain>>
  BY DEF DequeueMove, producerVars
<1>2. /\ Len(chain) \in Nat /\ Len(chain) >= 2
      /\ cnext = chain[2] /\ next_[tail_] = cnext
      /\ cnext \in Nodes
      /\ \A i \in 1..Len(chain) : chain[i] \in Nodes
  BY <1>1 DEF ConsumerOK
<1>3. dataPtr_[cnext] \in Items
  BY <1>1, <1>2 DEF DataOK
<1>4. out' \in Seq(Items)
  BY <1>1, <1>3, AppendFacts
<1>5. TypeOK' /\ ChainOK' /\ LinksOK'
  BY <1>1, <1>2, <1>4 DEF ChainOK, LinksOK
<1>6. ProducersOK'
  BY <1>1 DEF ProducersOK, Busy, InChain
<1>7. DataOK'
  <2>1. ASSUME NEW i \in 2..Len(chain)
        PROVE  (dataPtr_'[chain[i]] = NULL) <=> (i = 2 /\ cpc' = "moved")
    <3>1. CASE i = 2
      BY <3>1, <1>1, <1>2
    <3>2. CASE i # 2
      <4>1. i \in 1..Len(chain) /\ 2 \in 1..Len(chain)
        BY <1>2
      <4>2. chain[i] # cnext
        BY <3>2, <4>1, <1>2 DEF ChainOK
      <4>3. dataPtr_[chain[i]] # NULL
        BY <3>2, <1>1 DEF DataOK
      <4> QED
        BY <3>2, <4>1, <4>2, <4>3, <1>1, <1>2
    <3> QED
      BY <3>1, <3>2
  <2>2. ASSUME NEW q \in Producers, Busy(q), node[q] # cnext
        PROVE  dataPtr_'[node[q]] # NULL /\ dataPtr_'[node[q]][1] = q
    <3>1. dataPtr_[node[q]] # NULL /\ dataPtr_[node[q]][1] = q
      BY <2>2, <1>1 DEF DataOK
    <3>2. node[q] \in Nodes
      <4>1. CASE pc[q] = "allocated"
        BY <4>1 DEF ProducersOK
      <4>2. CASE pc[q] = "exchanged"
        <5> PICK i \in 1..(Len(chain) - 1) : node[q] = chain[i + 1]
          BY <4>2 DEF ProducersOK
        <5>1. i + 1 \in 1..Len(chain)
          BY <1>2
        <5> QED
          BY <5>1, <1>2
      <4> QED
        BY <2>2, <4>1, <4>2 DEF Busy
    <3> QED
      BY <2>2, <3>1, <3>2, <1>1
  <2>3. dataPtr_'[tail_] = NULL
    <3>1. 1 \in 1..Len(chain) /\ 2 \in 1..Len(chain)
      BY <1>2
    <3>2. tail_ # cnext
      BY <3>1, <1>2 DEF ChainOK
    <3> QED
      BY <3>2, <1>1 DEF DataOK
  <2> QED
    BY <2>1, <2>2, <2>3, <1>1 DEF DataOK, Busy
<1>8. ConsumerOK'
  BY <1>1, <1>2 DEF ConsumerOK
<1>9. MemoryOK'
  <2>1. /\ \A m \in Nodes : InChain(m)' <=> InChain(m)
        /\ \A q \in Producers : Busy(q)' <=> Busy(q)
    BY <1>1 DEF InChain, Busy
  <2>2. \A m \in Nodes : dataPtr_[m] = NULL => dataPtr_'[m] = NULL
    BY <1>1
  <2> QED
    BY <2>1, <2>2, <1>1 DEF MemoryOK
<1> QED
  BY <1>5, <1>6, <1>7, <1>8, <1>9

(* Deleting the old tail removes the first node of the chain; no producer  *)
(* still holds it, since it is linked.                                     *)
LEMMA FreeIInv ==
    ASSUME IInv, DequeueFree
    PROVE  IInv'
<1> USE DEF IInv, TypeOK
<1>1. /\ cpc = "moved" /\ cpc' = "idle"
      /\ tail_' = cnext
      /\ live' = live \ {tail_}
      /\ cnext' = NULL
      /\ chain' = Tail(chain)
      /\ UNCHANGED <<head_, next_, dataPtr_, pc, node, prevhead, sent, dying, out>>
  BY DEF DequeueFree, producerVars
<1>2. /\ Len(chain) \in Nat /\ Len(chain) >= 2
      /\ cnext = chain[2] /\ next_[tail_] = cnext
      /\ cnext \in Nodes
      /\ chain[1] = tail_
      /\ \A i \in 1..Len(chain) : chain[i] \in Nodes
  BY <1>1 DEF ConsumerOK, ChainOK
<1>3. /\ chain' \in Seq(Nodes)
      /\ Len(chain') = Len(chain) - 1
      /\ \A i \in 1..(Len(chain) - 1) : chain'[i] = chain[i + 1]
  BY <1>1, <1>2, TailFacts
<1>4. ASSUME NEW m PROVE InChain(m)' <=> (InChain(m) /\ m # tail_)
  <2>1. ASSUME NEW i \in 1..Len(chain'), chain'[i] = m
        PROVE  InChain(m) /\ m # tail_
    <3>1. i + 1 \in 1..Len(chain) /\ 1 \in 1..Len(chain) /\ chain[i + 1] = m
      BY <2>1, <1>2, <1>3
    <3> QED
      BY <3>1, <1>2 DEF InChain, ChainOK
  <2>2. ASSUME NEW i \in 1..Len(chain), chain[i] = m, m # tail_
        PROVE  InChain(m)'
    <3>1. i - 1 \in 1..Len(chain') /\ chain'[i - 1] = m
      BY <2>2, <1>2, <1>3
    <3> QED
      BY <3>1 DEF InChain
  <2> QED
    BY <2>1, <2>2 DEF InChain
<1>5. \A q \in Producers : Busy(q)' <=> Busy(q)
  BY <1>1 DEF Busy
<1>6. \A i \in 1..(Len(chain) - 1) : chain[i] = tail_ => i = 1
  BY <1>2 DEF ChainOK
<1>7. TypeOK'
  BY <1>1, <1>2, <1>3
<1>8. ChainOK'
  <2>1. Len(chain') >= 1 /\ chain'[1] = tail_'
    BY <1>1, <1>2, <1>3
  <2>2. chain'[Len(chain')] = head_'
    BY <1>1, <1>2, <1>3 DEF ChainOK
  <2>3. ASSUME NEW i \in 1..Len(chain'), NEW j \in 1..Len(chain'), chain'[i] = chain'[j]
        PROVE  i = j
    <3>1. i + 1 \in 1..Len(chain) /\ j + 1 \in 1..Len(chain) /\ chain[i + 1] = chain[j + 1]
      BY <2>3, <1>2, <1>3
    <3> QED
      BY <3>1, <1>2 DEF ChainOK
  <2> QED
    BY <2>1, <2>2, <2>3 DEF ChainOK
<1>9. LinksOK'
  <2>1. ASSUME NEW i \in 1..(Len(chain') - 1)
        PROVE  \/ next_[chain'[i]] = chain'[i + 1]
               \/ /\ next_[chain'[i]] = NULL
                  /\ \E q \in Producers : /\ pc[q] = "exchanged"
                                          /\ prevhead[q] = chain'[i]
                                          /\ node[q] = chain'[i + 1]
    <3>1. i + 1 \in 1..(Len(chain) - 1) /\ chain'[i] = chain[i + 1] /\ chain'[i + 1] = chain[(i + 1) + 1]
      BY <1>2, <1>3
    <3> QED
      BY <3>1 DEF LinksOK
  <2> QED
    BY <2>1, <1>1 DEF LinksOK
<1>10. ProducersOK'
  <2> SUFFICES ASSUME NEW q \in Producers
               PROVE  /\ pc[q] = "allocated" =>
                           node[q] \in Nodes /\ ~InChain(node[q])' /\ next_[node[q]] = NULL
                      /\ pc[q] = "exchanged" =>
                           \E i \in 1..(Len(chain') - 1) : /\ prevhead[q] = chain'[i]
                                                           /\ node[q] = chain'[i + 1]
                                                           /\ next_[chain'[i]] = NULL
                      /\ \A r \in Producers : q # r /\ Busy(q) /\ Busy(r) => node[q] # node[r]
    <3>1. node' = node /\ next_' = next_ /\ pc' = pc /\ prevhead' = prevhead
      BY <1>1
    <3> QED
      BY <3>1, <1>5 DEF ProducersOK
  <2>1. ASSUME pc[q] = "exchanged"
        PROVE  \E i \in 1..(Len(chain') - 1) : /\ prevhead[q] = chain'[i]
                                               /\ node[q] = chain'[i + 1]
                                               /\ next_[chain'[i]] = NULL
    <3> PICK i \in 1..(Len(chain) - 1) : prevhead[q] = chain[i] /\ node[q] = chain[i + 1] /\ next_[chain[i]] = NULL
      BY <2>1 DEF ProducersOK
    <3>1. i # 1
      BY <1>2, NodesAssumption
    <3>2. i - 1 \in 1..(Len(chain') - 1) /\ chain'[i - 1] = chain[i] /\ chain'[(i - 1) + 1] = chain[i + 1]
      BY <3>1, <1>2, <1>3
    <3> QED
      BY <3>2
  <2> QED
    BY <2>1, <1>1, <1>4 DEF ProducersOK
<1>11. DataOK'
  <2>1. ASSUME NEW i \in 2..Len(chain')
        PROVE  dataPtr_[chain'[i]] # NULL
    <3>2. i \in 1..(Len(chain) - 1) /\ i + 1 \in 2..Len(chain) /\ i + 1 # 2
      BY <1>2, <1>3
    <3>1. i + 1 \in 2..Len(chain) /\ i + 1 # 2 /\ chain'[i] = chain[i + 1]
      BY <3>2, <1>3
    <3> QED
      BY <3>1 DEF DataOK
  <2>2. dataPtr_[cnext] = NULL
    BY <1>1, <1>2 DEF DataOK
  <2>3. ASSUME NEW q \in Producers, Busy(q)
        PROVE  dataPtr_[node[q]] # NULL /\ dataPtr_[node[q]][1] = q
    <3>1. node[q] # cnext
      <4>1. CASE pc[q] = "allocated"
        <5>1. InChain(cnext) /\ ~InChain(node[q])
          BY <4>1, <1>2 DEF ProducersOK, InChain
        <5> QED
          BY <5>1
      <4>2. CASE pc[q] = "exchanged"
        <5> PICK i \in 1..(Len(chain) - 1) : node[q] = chain[i + 1] /\ next_[chain[i]] = NULL
          BY <4>2 DEF ProducersOK
        <5>1. i # 1
          BY <1>2, NodesAssumption
        <5>2. i + 1 # 2 /\ i + 1 \in 1..Len(chain) /\ 2 \in 1..Len(chain)
          BY <5>1, <1>2
        <5> QED
          BY <5>2, <1>2 DEF ChainOK
      <4> QED
        BY <2>3, <4>1, <4>2 DEF Busy
    <3> QED
      BY <2>3, <3>1 DEF DataOK
  <2> QED
    BY <2>1, <2>2, <2>3, <1>1, <1>5 DEF DataOK
<1>12. ConsumerOK'
  BY <1>1 DEF ConsumerOK
<1>13. MemoryOK'
  <2>1. ASSUME NEW q \in Producers, Busy(q)
        PROVE  node[q] # tail_
    <3>1. CASE pc[q] = "allocated"
      <4>1. InChain(tail_)
        BY <1>2 DEF InChain
      <4> QED
        BY <3>1, <4>1 DEF ProducersOK
    <3>2. CASE pc[q] = "exchanged"
      <4> PICK i \in 1..(Len(chain) - 1) : node[q] = chain[i + 1]
        BY <3>2 DEF ProducersOK
      <4>1. i + 1 # 1 /\ i + 1 \in 1..Len(chain) /\ 1 \in 1..Len(chain)
        BY <1>2
      <4> QED
        BY <4>1, <1>2 DEF ChainOK
    <3> QED
      BY <2>1, <3>1, <3>2 DEF Busy
  <2>2. dataPtr_[tail_] = NULL
    BY DEF DataOK
  <2>3. ASSUME NEW m \in Nodes
        PROVE  m \in live' <=> (InChain(m)' \/ \E q \in Producers : Busy(q)' /\ node'[q] = m)
    <3>1. m \in live <=> (InChain(m) \/ \E q \in Producers : Busy(q) /\ node[q] = m)
      BY <1>1 DEF MemoryOK
    <3> QED
      BY <3>1, <2>1, <1>1, <1>4, <1>5
  <2>4. ASSUME NEW m \in Nodes, ~InChain(m)', \A q \in Producers : Busy(q)' => node'[q] # m
        PROVE  dataPtr_'[m] = NULL
    BY <2>2, <2>4, <1>1, <1>4, <1>5 DEF MemoryOK
  <2>5. dying' => \A q \in Producers : ~Busy(q)'
    BY <1>1, <1>5 DEF MemoryOK
  <2> QED
    BY <2>3, <2>4, <2>5, <1>1 DEF MemoryOK
<1> QED
  BY <1>7, <1>8, <1>9, <1>10, <1>11, <1>12, <1>13

(* The destructor is entered while no producer is in the queue. *)
LEMMA DestroyBeginIInv ==
    ASSUME IInv, DestroyBegin
    PROVE  IInv'
<1> USE DEF IInv
<1>1. /\ cpc = "idle" /\ dying' = TRUE
      /\ \A p \in Producers : ~Busy(p)
      /\ UNCHANGED <<head_, tail_, next_, dataPtr_, live, pc, node, prevhead, sent, cpc, cnext, chain, out>>
  BY DEF DestroyBegin, producerVars, Busy
<1>2. TypeOK'
  <2>1. dying' \in BOOLEAN
    BY <1>1, Zenon
  <2> QED
    BY <2>1, <1>1 DEF TypeOK
<1>3. ChainOK' /\ LinksOK' /\ ConsumerOK'
  BY <1>1 DEF ChainOK, LinksOK, ConsumerOK
<1>4. ProducersOK' /\ DataOK'
  BY <1>1 DEF ProducersOK, DataOK, Busy, InChain
<1>5. MemoryOK'
  BY <1>1 DEF MemoryOK, Busy, InChain
<1> QED
  BY <1>2, <1>3, <1>4, <1>5

(* When the drained queue is deleted, head_ is its only node. *)
LEMMA DestroyEndIInv ==
    ASSUME IInv, DestroyEnd
    PROVE  IInv'
<1> USE DEF IInv, TypeOK
<1>1. /\ dying /\ cpc = "idle" /\ cpc' = "destroyed"
      /\ next_[tail_] = NULL
      /\ live' = live \ {head_}
      /\ UNCHANGED <<head_, tail_, next_, dataPtr_, pc, node, prevhead, sent, cnext, dying, chain, out>>
  BY DEF DestroyEnd, producerVars, Empty
<1>2. \A p \in Producers : ~Busy(p)
  BY <1>1 DEF MemoryOK
<1>3. Len(chain) \in Nat /\ Len(chain) = 1 /\ chain[1] = head_
  <2>1. Len(chain) \in Nat /\ Len(chain) >= 1
    BY DEF ChainOK
  <2>2. CASE Len(chain) >= 2
    <3>1. 1 \in 1..(Len(chain) - 1) /\ 2 \in 1..Len(chain)
      BY <2>1, <2>2
    <3>2. chain[2] # NULL
      BY <3>1, NodesAssumption
    <3>3. chain[1] = tail_ /\ next_[chain[1]] # chain[2]
      BY <3>2, <1>1 DEF ChainOK
    <3>4. \A p \in Producers : pc[p] # "exchanged"
      BY <1>2 DEF Busy
    <3> QED
      BY <3>1, <3>3, <3>4 DEF LinksOK
  <2>3. Len(chain) = 1
    BY <2>1, <2>2, TwoOrMore
  <2> QED
    BY <2>1, <2>3 DEF ChainOK
<1>4. live' = {}
  <2>1. \A m \in Nodes : InChain(m) <=> m = head_
    BY <1>3 DEF InChain
  <2> QED
    BY <2>1, <1>1, <1>2 DEF MemoryOK
<1>5. TypeOK' /\ ChainOK' /\ LinksOK' /\ ConsumerOK'
  BY <1>1 DEF ChainOK, LinksOK, ConsumerOK
<1>6. ProducersOK' /\ DataOK'
  BY <1>1, <1>2, <1>3 DEF ProducersOK, DataOK, Busy, InChain
<1>7. MemoryOK'
  BY <1>1, <1>2, <1>3, <1>4 DEF MemoryOK, Busy, InChain
<1> QED
  BY <1>5, <1>6, <1>7

(* Every step of every thread preserves the inductive invariant. *)
LEMMA NextIInv == IInv /\ [Next]_vars => IInv'
<1> SUFFICES ASSUME IInv, [Next]_vars PROVE IInv'
  OBVIOUS
<1>1. CASE \E p \in Producers : Enqueue(p)
  BY <1>1, AllocIInv, ExchangeIInv, LinkIInv DEF Enqueue
<1>2. CASE Dequeue
  BY <1>2, LoadIInv, MoveIInv, FreeIInv DEF Dequeue
<1>3. CASE DestroyBegin \/ DestroyEnd
  BY <1>3, DestroyBeginIInv, DestroyEndIInv
<1>4. CASE UNCHANGED vars
  <2>1. UNCHANGED <<head_, tail_, next_, dataPtr_, live, pc, node, prevhead, sent, cpc, cnext, dying, chain, out>>
    BY <1>4 DEF vars, producerVars, consumerVars
  <2>2. TypeOK' /\ ChainOK' /\ LinksOK' /\ ConsumerOK'
    BY <2>1 DEF IInv, TypeOK, ChainOK, LinksOK, ConsumerOK
  <2>3. ProducersOK' /\ DataOK'
    BY <2>1 DEF IInv, ProducersOK, DataOK, Busy, InChain
  <2>4. MemoryOK'
    BY <2>1 DEF IInv, MemoryOK, Busy, InChain
  <2> QED
    BY <2>2, <2>3, <2>4 DEF IInv
<1> QED
  BY <1>1, <1>2, <1>3, <1>4 DEF Next

(* The inductive invariant holds in every reachable state of the queue. *)
THEOREM IndInv == Spec => []IInv
<1>1. Init => IInv
  BY InitIInv
<1>2. IInv /\ [Next]_vars => IInv'
  BY NextIInv
<1> QED
  BY <1>1, <1>2, PTL DEF Spec

(* Type correctness of the queue, for every instance. *)
THEOREM TypeCorrect == Spec => []TypeOK
<1>1. IInv => TypeOK
  BY DEF IInv
<1> QED
  BY <1>1, IndInv, PTL

(* No step of enqueue or dequeue dereferences a deleted node or item. *)
THEOREM MemorySafety == Spec => []NoUseAfterFree
<1>1. IInv => NoUseAfterFree
  <2> SUFFICES ASSUME IInv PROVE NoUseAfterFree
    OBVIOUS
  <2> USE DEF IInv, TypeOK
  <2>1. Len(chain) \in Nat /\ Len(chain) >= 1 /\ 1 \in 1..Len(chain) /\ Len(chain) \in 1..Len(chain)
    BY DEF ChainOK
  <2>2. \A i \in 1..Len(chain) : cpc # "destroyed" => chain[i] \in live
    BY DEF MemoryOK, InChain
  <2>3. ASSUME NEW p \in Producers, pc[p] = "exchanged"
        PROVE  prevhead[p] \in live
    <3> PICK i \in 1..(Len(chain) - 1) : prevhead[p] = chain[i]
      BY <2>3 DEF ProducersOK
    <3>1. i \in 1..Len(chain)
      BY <2>1
    <3>2. cpc # "destroyed"
      BY <2>3 DEF MemoryOK, Busy
    <3> QED
      BY <3>1, <3>2, <2>2
  <2>4. cpc # "destroyed" => head_ \in live /\ tail_ \in live
    BY <2>1, <2>2 DEF ChainOK
  <2>5. cpc \in {"loaded", "moved"} => Len(chain) >= 2 /\ cnext = chain[2]
    BY DEF ConsumerOK
  <2>6. cpc \in {"loaded", "moved"} => cnext \in live
    BY <2>1, <2>2, <2>5, TwoOrMore
  <2>7. cpc = "loaded" => dataPtr_[cnext] # NULL
    BY <2>1, <2>5 DEF DataOK
  <2> QED
    BY <2>3, <2>4, <2>6, <2>7 DEF NoUseAfterFree
<1> QED
  BY <1>1, IndInv, PTL

(* No producer overwrites the link another producer is about to store. *)
THEOREM LinkSafety == Spec => []NoLostLink
<1>1. IInv => NoLostLink
  <2> SUFFICES ASSUME IInv, NEW p \in Producers, NEW q \in Producers,
                      pc[p] = "exchanged", pc[q] = "exchanged", p # q
               PROVE  prevhead[p] # prevhead[q]
    BY DEF NoLostLink
  <2> USE DEF IInv, TypeOK
  <2> PICK i \in 1..(Len(chain) - 1) : prevhead[p] = chain[i] /\ node[p] = chain[i + 1]
    BY DEF ProducersOK
  <2> PICK j \in 1..(Len(chain) - 1) : prevhead[q] = chain[j] /\ node[q] = chain[j + 1]
    BY DEF ProducersOK
  <2>1. node[p] # node[q]
    BY DEF ProducersOK, Busy
  <2>2. i # j /\ i \in 1..Len(chain) /\ j \in 1..Len(chain)
    BY <2>1
  <2> QED
    BY <2>2 DEF ChainOK
<1> QED
  BY <1>1, IndInv, PTL

(* The destructor leaves no node and no item allocated. *)
THEOREM LeakFreedom == Spec => []NoLeak
<1>1. IInv => NoLeak
  <2> SUFFICES ASSUME IInv, cpc = "destroyed"
               PROVE  live = {} /\ \A n \in Nodes : dataPtr_[n] = NULL
    BY DEF NoLeak
  <2> USE DEF IInv, TypeOK
  <2>1. /\ live = {} /\ Len(chain) = 1
        /\ \A p \in Producers : ~Busy(p)
    BY DEF MemoryOK
  <2>2. \A n \in Nodes : InChain(n) => n = tail_
    BY <2>1 DEF InChain, ChainOK
  <2> QED
    BY <2>1, <2>2 DEF MemoryOK, DataOK
<1> QED
  BY <1>1, IndInv, PTL

-----------------------------------------------------------------------------
(* Sequences with the same elements in the same places are equal. *)
LEMMA SeqEqual ==
    ASSUME NEW S, NEW s \in Seq(S), NEW t \in Seq(S),
           Len(s) = Len(t), \A i \in 1..Len(s) : s[i] = t[i]
    PROVE  s = t
  OBVIOUS

(* The fields of the places of the abstract queue, read off the chain. *)
ValAt(i) == dataPtr_[chain[i + Gone]]

LinkedAt(i) == next_[chain[i + Gone - 1]] # NULL

(* The refinement mapping yields well-formed places. *)
SlotsOK ==
    /\ Gone \in {1, 2} /\ Gone \in Nat
    /\ Len(chain) \in Nat /\ Len(chain) - Gone \in Nat
    /\ Slots \in Seq(Abs!Slot)
    /\ Len(Slots) = Len(chain) - Gone
    /\ \A i \in 1..(Len(chain) - Gone) : /\ Slots[i] \in Abs!Slot
                                         /\ Slots[i].val = ValAt(i)
                                         /\ Slots[i].by = ValAt(i)[1]
                                         /\ Slots[i].linked <=> LinkedAt(i)

(* A place is determined by its fields. *)
LEMMA SlotEqual ==
    ASSUME NEW r \in Abs!Slot, NEW s \in Abs!Slot,
           r.val = s.val, r.by = s.by, r.linked <=> s.linked
    PROVE  r = s
<1>1. r.linked = s.linked
  <2>1. r.linked \in BOOLEAN /\ s.linked \in BOOLEAN
    BY DEF Abs!Slot
  <2> QED
    BY <2>1, Zenon
<1> QED
  BY <1>1 DEF Abs!Slot

(* Linking a place changes nothing else of it. *)
LEMMA SlotLinked ==
    ASSUME NEW r \in Abs!Slot
    PROVE  /\ [r EXCEPT !.linked = TRUE] \in Abs!Slot
           /\ [r EXCEPT !.linked = TRUE].val = r.val
           /\ [r EXCEPT !.linked = TRUE].by = r.by
           /\ [r EXCEPT !.linked = TRUE].linked
<1> DEFINE b == TRUE
           t == [r EXCEPT !.linked = b]
<1>1. b \in BOOLEAN
  OBVIOUS
<1> HIDE DEF b
<1>2. t \in Abs!Slot /\ t.val = r.val /\ t.by = r.by /\ t.linked = b
  BY <1>1 DEF Abs!Slot
<1> QED
  BY <1>2 DEF b

(* In every state of the invariant the mapping is well formed. *)
LEMMA SlotsFacts == IInv => SlotsOK
<1> SUFFICES ASSUME IInv PROVE SlotsOK
  OBVIOUS
<1> USE DEF IInv, TypeOK
<1>1. Len(chain) \in Nat /\ Len(chain) >= 1 /\ (cpc = "moved" => Len(chain) >= 2)
  BY DEF ChainOK, ConsumerOK
<1>2. Gone \in {1, 2} /\ Gone \in Nat /\ Len(chain) - Gone \in Nat
  BY <1>1 DEF Gone
<1> DEFINE SlotAt(i) == [val |-> ValAt(i), by |-> ValAt(i)[1], linked |-> LinkedAt(i)]
<1>3. ASSUME NEW i \in 1..(Len(chain) - Gone)
      PROVE  SlotAt(i) \in Abs!Slot
  <2>1. i + Gone \in 2..Len(chain) /\ ~(i + Gone = 2 /\ cpc = "moved")
    BY <1>1, <1>2 DEF Gone
  <2>2. i + Gone \in 1..Len(chain)
    BY <2>1
  <2>3. dataPtr_[chain[i + Gone]] # NULL /\ chain[i + Gone] \in Nodes
    BY <2>1, <2>2 DEF DataOK
  <2>4. ValAt(i) \in Items
    BY <2>3 DEF ValAt
  <2>5. ValAt(i)[1] \in Producers
    BY <2>4 DEF Items
  <2>6. LinkedAt(i) \in BOOLEAN
    BY Zenon DEF LinkedAt
  <2> QED
    BY <2>4, <2>5, <2>6 DEF Abs!Slot
<1>4. Slots = [i \in 1..(Len(chain) - Gone) |-> SlotAt(i)]
  BY DEF Slots, ValAt, LinkedAt
<1>5. Slots \in [1..(Len(chain) - Gone) -> Abs!Slot]
  BY <1>3, <1>4
<1> HIDE DEF IInv, TypeOK
<1>6. Slots \in Seq(Abs!Slot) /\ Len(Slots) = Len(chain) - Gone
  BY <1>2, <1>5
<1>7. ASSUME NEW i \in 1..(Len(chain) - Gone)
      PROVE  /\ Slots[i] \in Abs!Slot
             /\ Slots[i].val = ValAt(i)
             /\ Slots[i].by = ValAt(i)[1]
             /\ Slots[i].linked <=> LinkedAt(i)
  <2>1. Slots[i] = SlotAt(i)
    BY <1>4
  <2>2. SlotAt(i).linked = LinkedAt(i)
    BY Zenon
  <2> QED
    BY <2>1, <2>2, <1>3
<1> QED
  BY <1>1, <1>2, <1>6, <1>7 DEF SlotsOK

(* Two states with the same places have the same abstract queue. *)
LEMMA SlotsSame ==
    ASSUME SlotsOK, SlotsOK', Len(chain') - Gone' = Len(chain) - Gone,
           \A i \in 1..(Len(chain) - Gone) :
              ValAt(i)' = ValAt(i) /\ (LinkedAt(i)' <=> LinkedAt(i))
    PROVE  Slots' = Slots
<1>1. Abs!Slot' = Abs!Slot
  BY DEF Abs!Slot
<1>2. Slots \in Seq(Abs!Slot) /\ Slots' \in Seq(Abs!Slot) /\ Len(Slots') = Len(Slots)
  BY <1>1 DEF SlotsOK
<1>3. ASSUME NEW i \in 1..Len(Slots)
      PROVE  Slots'[i] = Slots[i]
  <2>1. i \in 1..(Len(chain) - Gone) /\ i \in 1..(Len(chain') - Gone')
    BY DEF SlotsOK
  <2>2. /\ Slots[i] \in Abs!Slot /\ Slots'[i] \in Abs!Slot
        /\ Slots'[i].val = Slots[i].val
        /\ Slots'[i].by = Slots[i].by
        /\ Slots'[i].linked <=> Slots[i].linked
    BY <2>1, <1>1 DEF SlotsOK
  <2> QED
    BY <2>2, SlotEqual
<1> QED
  BY <1>2, <1>3, SeqEqual

(* Steps that leave the abstract queue alone: an allocation, dequeue's     *)
(* loads, the deletion of the old tail, and the destructor's own steps.    *)
LEMMA StutterSteps ==
    ASSUME IInv, SlotsOK, SlotsOK',
           (\E p \in Producers : EnqueueAlloc(p)) \/ DequeueLoad \/ DequeueFree
              \/ DestroyBegin \/ DestroyEnd
    PROVE  UNCHANGED <<Slots, out>>
<1> USE DEF IInv, TypeOK
<1>1. /\ Gone \in {1, 2} /\ Gone \in Nat
      /\ Len(chain) \in Nat /\ Len(chain) - Gone \in Nat
  BY DEF SlotsOK
<1>2. CASE \E p \in Producers : EnqueueAlloc(p)
  <2> PICK p \in Producers : EnqueueAlloc(p)
    BY <1>2
  <2> PICK n \in Nodes \ live :
          /\ next_' = [next_ EXCEPT ![n] = NULL]
          /\ dataPtr_' = [dataPtr_ EXCEPT ![n] = <<p, sent[p] + 1>>]
    BY DEF EnqueueAlloc
  <2>1. chain' = chain /\ out' = out /\ Gone' = Gone /\ ~dying
    BY DEF EnqueueAlloc, consumerVars, Gone
  <2>2. \A i \in 1..Len(chain) : chain[i] \in Nodes /\ chain[i] # n
    BY <2>1 DEF MemoryOK, InChain
  <2>3. ASSUME NEW i \in 1..(Len(chain) - Gone)
        PROVE  ValAt(i)' = ValAt(i) /\ (LinkedAt(i)' <=> LinkedAt(i))
    <3>1. i + Gone \in 1..Len(chain) /\ i + Gone - 1 \in 1..Len(chain)
      BY <1>1
    <3>2. /\ dataPtr_'[chain[i + Gone]] = dataPtr_[chain[i + Gone]]
          /\ next_'[chain[i + Gone - 1]] = next_[chain[i + Gone - 1]]
      BY <2>2, <3>1
    <3> QED
      BY <2>1, <3>2 DEF ValAt, LinkedAt
  <2> QED
    BY <2>1, <2>3, SlotsSame
<1>3. CASE DequeueLoad \/ DestroyBegin \/ DestroyEnd
  <2>1. /\ UNCHANGED <<chain, out, dataPtr_, next_>>
        /\ Gone' = Gone
    BY <1>3 DEF DequeueLoad, DestroyBegin, DestroyEnd, Gone
  <2> QED
    BY <2>1 DEF Slots
<1>4. CASE DequeueFree
  <2>1. /\ UNCHANGED <<out, dataPtr_, next_>>
        /\ Gone = 2 /\ Gone' = 1
        /\ chain' = Tail(chain)
    BY <1>4 DEF DequeueFree, Gone
  <2>2. /\ Len(chain') = Len(chain) - 1
        /\ \A i \in 1..(Len(chain) - 1) : chain'[i] = chain[i + 1]
    BY <1>1, <2>1, TailFacts DEF ChainOK
  <2>3. ASSUME NEW i \in 1..(Len(chain) - Gone)
        PROVE  ValAt(i)' = ValAt(i) /\ (LinkedAt(i)' <=> LinkedAt(i))
    <3>1. i \in 1..(Len(chain) - 1) /\ i + 1 \in 1..(Len(chain) - 1)
      BY <1>1, <2>1
    <3>2. chain'[i + 1] = chain[i + 2] /\ chain'[i] = chain[i + 1]
      BY <2>2, <3>1
    <3>3. i + 1 - 1 = i /\ i + 2 - 1 = i + 1
      BY <3>1
    <3> QED
      BY <2>1, <3>2, <3>3 DEF ValAt, LinkedAt
  <2>4. Len(chain') - Gone' = Len(chain) - Gone
    BY <1>1, <2>1, <2>2
  <2> QED
    BY <2>1, <2>3, <2>4, SlotsSame
<1> QED
  BY <1>2, <1>3, <1>4

(* The exchange of head_ reserves a place. *)
LEMMA ExchangeReserves ==
    ASSUME IInv, SlotsOK, SlotsOK', NEW p \in Producers, EnqueueExchange(p)
    PROVE  \E v \in Items : Abs!Reserve(p, v)
<1> USE DEF IInv, TypeOK
<1>1. /\ pc[p] = "allocated"
      /\ chain' = Append(chain, node[p])
      /\ UNCHANGED <<next_, dataPtr_, cpc, cnext, out>>
  BY DEF EnqueueExchange, consumerVars
<1>2. node[p] \in Nodes /\ ~InChain(node[p]) /\ next_[head_] = NULL
  BY <1>1 DEF ProducersOK, LinksOK
<1>3. /\ Len(chain') = Len(chain) + 1
      /\ \A i \in 1..Len(chain) : chain'[i] = chain[i]
      /\ chain'[Len(chain) + 1] = node[p]
      /\ Len(chain) \in Nat /\ Len(chain) >= 1
  BY <1>1, <1>2, AppendFacts DEF ChainOK
<1>4. Gone' = Gone
  BY <1>1 DEF Gone
<1>5. dataPtr_[node[p]] \in Items /\ dataPtr_[node[p]][1] = p
  <2>1. cpc = "moved" => node[p] # cnext
    BY <1>2 DEF ConsumerOK, InChain
  <2> QED
    BY <2>1, <1>1, <1>2 DEF DataOK, Busy
<1> DEFINE r == [val |-> dataPtr_[node[p]], by |-> p, linked |-> FALSE]
<1> PICK n \in Nat : n = Len(chain) - Gone
  BY DEF SlotsOK
<1>6. /\ Gone \in {1, 2} /\ Gone \in Nat /\ n \in Nat
      /\ Slots \in Seq(Abs!Slot) /\ Len(Slots) = n
      /\ \A i \in 1..n : /\ Slots[i] \in Abs!Slot
                         /\ Slots[i].val = ValAt(i)
                         /\ Slots[i].by = ValAt(i)[1]
                         /\ Slots[i].linked <=> LinkedAt(i)
  BY DEF SlotsOK
<1>7. /\ Slots' \in Seq(Abs!Slot) /\ Len(Slots') = n + 1
      /\ \A i \in 1..(n + 1) : /\ Slots'[i] \in Abs!Slot
                               /\ Slots'[i].val = ValAt(i)'
                               /\ Slots'[i].by = (ValAt(i)')[1]
                               /\ Slots'[i].linked <=> LinkedAt(i)'
  <2>1. Abs!Slot' = Abs!Slot
    BY DEF Abs!Slot
  <2>2. Len(chain') - Gone' = n + 1
    BY <1>3, <1>4, <1>6
  <2> QED
    BY <2>1, <2>2 DEF SlotsOK
<1>8. r \in Abs!Slot /\ r.val = dataPtr_[node[p]] /\ r.by = p /\ ~r.linked
  BY <1>5 DEF Abs!Slot
<1>9. ASSUME NEW i \in 1..n PROVE Slots'[i] = Slots[i]
  <2>1. i + Gone \in 1..Len(chain) /\ i + Gone - 1 \in 1..Len(chain)
    BY <1>3, <1>6
  <2>4. i \in 1..(n + 1)
    OBVIOUS
  <2>2. chain'[i + Gone] = chain[i + Gone] /\ chain'[i + Gone - 1] = chain[i + Gone - 1]
    BY <2>1, <1>3
  <2>3. ValAt(i)' = ValAt(i) /\ (LinkedAt(i)' <=> LinkedAt(i))
    BY <2>2, <1>1, <1>4 DEF ValAt, LinkedAt
  <2>5. /\ Slots[i] \in Abs!Slot /\ Slots[i].val = ValAt(i) /\ Slots[i].by = ValAt(i)[1]
        /\ Slots[i].linked <=> LinkedAt(i)
    BY <1>6
  <2>6. /\ Slots'[i] \in Abs!Slot /\ Slots'[i].val = ValAt(i)' /\ Slots'[i].by = (ValAt(i)')[1]
        /\ Slots'[i].linked <=> LinkedAt(i)'
    BY <2>4, <1>7
  <2> HIDE DEF IInv, TypeOK
  <2> QED
    BY <2>3, <2>5, <2>6, SlotEqual
<1>10. Slots'[n + 1] = r
  <2>1. n + 1 + Gone = Len(chain) + 1 /\ n + 1 + Gone - 1 = Len(chain) /\ n + 1 \in 1..(n + 1)
    BY <1>3, <1>6
  <2>2. chain'[n + 1 + Gone] = node[p] /\ chain'[n + 1 + Gone - 1] = head_
    <3>1. Len(chain) \in 1..Len(chain)
      BY <1>3
    <3> QED
      BY <2>1, <3>1, <1>3 DEF ChainOK
  <2>3. ValAt(n + 1)' = dataPtr_[node[p]] /\ ~LinkedAt(n + 1)'
    BY <2>2, <1>1, <1>2, <1>4 DEF ValAt, LinkedAt
  <2>4. /\ Slots'[n + 1] \in Abs!Slot
        /\ Slots'[n + 1].val = dataPtr_[node[p]]
        /\ Slots'[n + 1].by = p
        /\ ~Slots'[n + 1].linked
    BY <2>1, <2>3, <1>5, <1>7
  <2> HIDE DEF r
  <2> QED
    BY <2>4, <1>8, SlotEqual
<1>11. Slots' = Append(Slots, r)
  <2>1. /\ Append(Slots, r) \in Seq(Abs!Slot)
        /\ Len(Append(Slots, r)) = n + 1
        /\ \A i \in 1..n : Append(Slots, r)[i] = Slots[i]
        /\ Append(Slots, r)[n + 1] = r
    BY <1>6, <1>8, AppendFacts
  <2>2. ASSUME NEW i \in 1..(n + 1) PROVE Slots'[i] = Append(Slots, r)[i]
    <3>1. i \in 1..n \/ i = n + 1
      BY <1>6
    <3> HIDE DEF r, IInv, TypeOK
    <3> QED
      BY <3>1, <2>1, <1>9, <1>10
  <2> HIDE DEF r, IInv, TypeOK
  <2>3. /\ Slots' \in Seq(Abs!Slot) /\ Append(Slots, r) \in Seq(Abs!Slot)
        /\ Len(Slots') = Len(Append(Slots, r))
        /\ \A i \in 1..Len(Slots') : Slots'[i] = Append(Slots, r)[i]
    BY <2>1, <2>2, <1>7
  <2> QED
    BY ONLY <2>3, SeqEqual
<1>12. ~Abs!Linking(p)
  <2> SUFFICES ASSUME NEW i \in 1..n, Slots[i].by = p, ~Slots[i].linked
               PROVE  FALSE
    BY <1>6 DEF Abs!Linking
  <2> PICK j \in 1..(Len(chain) - 1) : j = i + Gone - 1 /\ j + 1 = i + Gone
    <3> HIDE DEF IInv, TypeOK
    <3> QED
      BY <1>3, <1>6
  <2>2. i + Gone \in 1..Len(chain) /\ i + Gone \in 2..Len(chain)
    BY <1>3, <1>6
  <2>3. chain[i + Gone] \in Nodes
    BY <2>2
  <2>4. next_[chain[i + Gone - 1]] = NULL /\ dataPtr_[chain[i + Gone]][1] = p
    BY <1>6 DEF ValAt, LinkedAt
  <2>7. next_[chain[j]] # chain[j + 1]
    BY <2>3, <2>4, NodesAssumption
  <2>8. \E q \in Producers : pc[q] = "exchanged" /\ node[q] = chain[j + 1]
    BY <2>7 DEF LinksOK
  <2> PICK q \in Producers : pc[q] = "exchanged" /\ node[q] = chain[i + Gone]
    BY <2>8
  <2>5. ~(cpc = "moved" /\ node[q] = cnext)
    <3>1. ~(i + Gone = 2 /\ cpc = "moved")
      BY <1>6 DEF Gone
    <3>2. cpc = "moved" => cnext = chain[2] /\ 2 \in 1..Len(chain)
      BY <1>3 DEF ConsumerOK
    <3> QED
      BY <3>1, <3>2, <2>2 DEF ChainOK
  <2>6. dataPtr_[node[q]][1] = q
    BY <2>5 DEF DataOK, Busy
  <2> QED
    BY <2>4, <2>6, <1>1
<1> QED
  BY <1>1, <1>5, <1>11, <1>12 DEF Abs!Reserve

(* The store to next_ links the producer's place. *)
LEMMA LinkLinks ==
    ASSUME IInv, SlotsOK, SlotsOK', NEW p \in Producers, EnqueueLink(p)
    PROVE  Abs!Link(p)
<1> USE DEF IInv, TypeOK
<1>1. /\ pc[p] = "exchanged"
      /\ next_' = [next_ EXCEPT ![prevhead[p]] = node[p]]
      /\ UNCHANGED <<dataPtr_, cpc, cnext, chain, out>>
  BY DEF EnqueueLink, consumerVars
<1> PICK k \in 1..(Len(chain) - 1) : prevhead[p] = chain[k] /\ node[p] = chain[k + 1] /\ next_[chain[k]] = NULL
  BY <1>1 DEF ProducersOK
<1>2. /\ Gone \in {1, 2} /\ Gone' = Gone /\ Len(chain) \in Nat
      /\ k \in 1..Len(chain) /\ k + 1 \in 1..Len(chain)
  BY <1>1 DEF SlotsOK, Gone
<1>3. cpc = "moved" => k # 1 /\ cnext = chain[2] /\ 2 \in 1..Len(chain)
  <2> SUFFICES ASSUME cpc = "moved"
               PROVE  k # 1 /\ cnext = chain[2] /\ 2 \in 1..Len(chain)
    OBVIOUS
  <2>1. Len(chain) >= 2 /\ cnext = chain[2] /\ next_[chain[1]] = chain[2]
    BY DEF ConsumerOK, ChainOK
  <2>2. 2 \in 1..Len(chain)
    BY <2>1, <1>2
  <2>3. chain[2] # NULL
    BY <2>2, NodesAssumption
  <2> QED
    BY <2>1, <2>2, <2>3
<1> PICK n \in Nat : n = Len(chain) - Gone
  BY DEF SlotsOK
<1> PICK j \in 1..n : j + Gone = k + 1 /\ j + Gone - 1 = k
  <2>1. k + 1 - Gone \in 1..n
    BY <1>2, <1>3 DEF Gone
  <2> QED
    BY <2>1, <1>2
<1>4. dataPtr_[node[p]][1] = p
  <2>1. ~(cpc = "moved" /\ node[p] = cnext)
    BY <1>2, <1>3 DEF ChainOK
  <2> QED
    BY <2>1, <1>1 DEF DataOK, Busy
<1>5. /\ Slots \in Seq(Abs!Slot) /\ Len(Slots) = n
      /\ \A i \in 1..n : /\ Slots[i] \in Abs!Slot
                         /\ Slots[i].val = ValAt(i)
                         /\ Slots[i].by = ValAt(i)[1]
                         /\ Slots[i].linked <=> LinkedAt(i)
  BY DEF SlotsOK
<1>6. /\ Slots' \in Seq(Abs!Slot) /\ Len(Slots') = n
      /\ \A i \in 1..n : /\ Slots'[i] \in Abs!Slot
                         /\ Slots'[i].val = ValAt(i)'
                         /\ Slots'[i].by = (ValAt(i)')[1]
                         /\ Slots'[i].linked <=> LinkedAt(i)'
  <2>1. Abs!Slot' = Abs!Slot
    BY DEF Abs!Slot
  <2>2. Len(chain') - Gone' = n
    BY <1>1, <1>2
  <2> QED
    BY <2>1, <2>2 DEF SlotsOK
<1>7. ASSUME NEW i \in 1..n PROVE ValAt(i)' = ValAt(i)
  BY <1>1, <1>2 DEF ValAt
<1>8. ASSUME NEW i \in 1..n, i # j PROVE LinkedAt(i)' <=> LinkedAt(i)
  <2>1. i + Gone - 1 \in 1..Len(chain) /\ i + Gone - 1 # k
    BY <1>2, <1>8
  <2>2. chain[i + Gone - 1] # chain[k] /\ chain[i + Gone - 1] \in Nodes
    BY <2>1, <1>2 DEF ChainOK
  <2> QED
    BY <2>2, <1>1, <1>2 DEF LinkedAt
<1>9. ~LinkedAt(j) /\ LinkedAt(j)'
  <2>1. chain[k] \in Nodes /\ chain[k + 1] \in Nodes
    BY <1>2
  <2> QED
    BY <2>1, <1>1, <1>2, NodesAssumption DEF LinkedAt
<1>10. Slots[j].by = p /\ ~Slots[j].linked
  BY <1>4, <1>5, <1>9 DEF ValAt
<1> DEFINE T == [Slots EXCEPT ![j].linked = TRUE]
<1>11. /\ T \in Seq(Abs!Slot) /\ Len(T) = n
       /\ \A i \in 1..n : i # j => T[i] = Slots[i]
       /\ T[j] \in Abs!Slot
       /\ T[j].val = Slots[j].val /\ T[j].by = Slots[j].by /\ T[j].linked
  <2>1. Slots[j] \in Abs!Slot
    BY <1>5
  <2>2. T = [Slots EXCEPT ![j] = [Slots[j] EXCEPT !.linked = TRUE]]
    OBVIOUS
  <2>3. T \in Seq(Abs!Slot) /\ Len(T) = n /\ \A i \in 1..n : i # j => T[i] = Slots[i]
    BY <2>1, <2>2, <1>5, SlotLinked
  <2>4. T[j] = [Slots[j] EXCEPT !.linked = TRUE]
    BY <2>2, <1>5
  <2> HIDE DEF T
  <2> QED
    BY <2>1, <2>3, <2>4, SlotLinked
<1> HIDE DEF T
<1>12. ASSUME NEW i \in 1..n PROVE Slots'[i] = T[i]
  <2>1. /\ Slots[i] \in Abs!Slot /\ Slots[i].val = ValAt(i) /\ Slots[i].by = ValAt(i)[1]
        /\ Slots[i].linked <=> LinkedAt(i)
    BY <1>5
  <2>2. /\ Slots'[i] \in Abs!Slot /\ Slots'[i].val = ValAt(i)' /\ Slots'[i].by = (ValAt(i)')[1]
        /\ Slots'[i].linked <=> LinkedAt(i)'
    BY <1>6
  <2>3. ValAt(i)' = ValAt(i)
    BY <1>7
  <2>4. CASE i = j
    <3>1. Slots'[i].linked
      BY <2>4, <1>6, <1>9
    <3> QED
      BY <2>1, <2>2, <2>3, <2>4, <3>1, <1>11, SlotEqual
  <2>5. CASE i # j
    BY <2>1, <2>2, <2>3, <2>5, <1>8, <1>11, SlotEqual
  <2> QED
    BY <2>4, <2>5
<1>13. Slots' = T
  <2> HIDE DEF IInv, TypeOK
  <2>1. Slots' \in Seq(Abs!Slot) /\ T \in Seq(Abs!Slot) /\ Len(Slots') = n /\ Len(T) = n
    BY <1>6, <1>11
  <2>2. Len(Slots') = Len(T) /\ \A i \in 1..Len(Slots') : Slots'[i] = T[i]
    BY <2>1, <1>12
  <2> QED
    BY ONLY <2>1, <2>2, SeqEqual
<1> QED
  BY <1>1, <1>5, <1>10, <1>13 DEF Abs!Link, T

(* Moving the item out takes the first place. *)
LEMMA MoveTakes ==
    ASSUME IInv, SlotsOK, SlotsOK', DequeueMove
    PROVE  Abs!Take
<1> USE DEF IInv, TypeOK
<1>1. /\ cpc = "loaded" /\ cpc' = "moved"
      /\ out' = Append(out, dataPtr_[cnext])
      /\ dataPtr_' = [dataPtr_ EXCEPT ![cnext] = NULL]
      /\ UNCHANGED <<next_, cnext, chain>>
  BY DEF DequeueMove
<1>2. /\ Len(chain) \in Nat /\ Len(chain) >= 2
      /\ cnext = chain[2] /\ next_[chain[1]] = chain[2]
      /\ Gone = 1 /\ Gone' = 2
  BY <1>1 DEF ConsumerOK, ChainOK, Gone
<1>3. chain[2] \in Nodes /\ 2 \in 1..Len(chain)
  BY <1>2, TwoOrMore
<1> PICK n \in Nat : n + 1 = Len(chain) - Gone /\ n = Len(chain') - Gone'
  <2>1. Len(chain) - 2 \in Nat /\ (Len(chain) - 2) + 1 = Len(chain) - 1
    BY <1>2
  <2> QED
    BY <2>1, <1>1, <1>2
<1>4. /\ Slots \in Seq(Abs!Slot) /\ Len(Slots) = n + 1
      /\ \A i \in 1..(n + 1) : /\ Slots[i] \in Abs!Slot
                               /\ Slots[i].val = ValAt(i)
                               /\ Slots[i].by = ValAt(i)[1]
                               /\ Slots[i].linked <=> LinkedAt(i)
  BY DEF SlotsOK
<1>5. /\ Slots' \in Seq(Abs!Slot) /\ Len(Slots') = n
      /\ \A i \in 1..n : /\ Slots'[i] \in Abs!Slot
                         /\ Slots'[i].val = ValAt(i)'
                         /\ Slots'[i].by = (ValAt(i)')[1]
                         /\ Slots'[i].linked <=> LinkedAt(i)'
  <2>1. Abs!Slot' = Abs!Slot
    BY DEF Abs!Slot
  <2> QED
    BY <2>1 DEF SlotsOK
<1>6. Slots[1].linked /\ Slots[1].val = dataPtr_[cnext]
  <2>1. LinkedAt(1) /\ ValAt(1) = dataPtr_[cnext]
    BY <1>2, <1>3, NodesAssumption DEF LinkedAt, ValAt
  <2>2. 1 \in 1..(n + 1)
    OBVIOUS
  <2> QED
    BY <2>1, <2>2, <1>4
<1>7. /\ Tail(Slots) \in Seq(Abs!Slot) /\ Len(Tail(Slots)) = n
      /\ \A i \in 1..n : Tail(Slots)[i] = Slots[i + 1]
  BY <1>4, TailFacts
<1>8. ASSUME NEW i \in 1..n PROVE Slots'[i] = Tail(Slots)[i]
  <2>1. i + 2 \in 1..Len(chain) /\ i + 1 + 1 = i + 2 /\ i + 2 # 2 /\ i + 1 \in 1..(n + 1)
    BY <1>1, <1>2
  <2>2. chain[i + 2] # cnext /\ chain[i + 2] \in Nodes
    BY <2>1, <1>2, <1>3 DEF ChainOK
  <2>3. ValAt(i)' = ValAt(i + 1)
    BY <2>1, <2>2, <1>1, <1>2 DEF ValAt
  <2>4. i + 2 - 1 = i + 1 /\ i + 1 + 1 - 1 = i + 1
    OBVIOUS
  <2>5. LinkedAt(i)' <=> LinkedAt(i + 1)
    BY <2>4, <1>1, <1>2 DEF LinkedAt
  <2>6. /\ Slots'[i] \in Abs!Slot /\ Slots[i + 1] \in Abs!Slot
        /\ Slots'[i].val = Slots[i + 1].val /\ Slots'[i].by = Slots[i + 1].by
        /\ Slots'[i].linked <=> Slots[i + 1].linked
    BY <2>1, <2>3, <2>5, <1>4, <1>5
  <2> QED
    BY <2>6, <1>7, SlotEqual
<1>9. Slots' = Tail(Slots)
  BY <1>5, <1>7, <1>8, SeqEqual
<1>10. Slots # <<>>
  BY <1>4
<1> QED
  BY <1>1, <1>6, <1>9, <1>10 DEF Abs!Take, Abs!NothingVisible

(* MpscQueue implements MpscQueueSpec: every step of the nodes is a step   *)
(* of the abstract queue or leaves it alone.                               *)
THEOREM QueueRefinement == Spec => Refinement
<1>1. Init => Abs!SpecInit
  <2> SUFFICES ASSUME Init PROVE Slots = <<>> /\ out = <<>>
    BY DEF Abs!SpecInit
  <2>1. Len(chain) = 1 /\ cpc = "idle" /\ out = <<>>
    BY DEF Init
  <2>2. SlotsOK
    BY InitIInv, SlotsFacts
  <2>3. Slots \in Seq(Abs!Slot) /\ Len(Slots) = 0
    BY <2>1, <2>2 DEF SlotsOK, Gone
  <2> QED
    BY <2>1, <2>3
<1>2. IInv /\ SlotsOK /\ SlotsOK' /\ [Next]_vars => [Abs!SpecNext]_(Abs!specVars)
  <2> SUFFICES ASSUME IInv, SlotsOK, SlotsOK', [Next]_vars
               PROVE  Abs!SpecNext \/ UNCHANGED <<Slots, out>>
    BY DEF Abs!specVars
  <2>1. ASSUME NEW p \in Producers, Enqueue(p)
        PROVE  Abs!SpecNext \/ UNCHANGED <<Slots, out>>
    <3>1. CASE EnqueueAlloc(p)
      BY <3>1, StutterSteps
    <3>2. CASE EnqueueExchange(p)
      BY <3>2, ExchangeReserves DEF Abs!SpecNext
    <3>3. CASE EnqueueLink(p)
      BY <3>3, LinkLinks DEF Abs!SpecNext
    <3> QED
      BY <2>1, <3>1, <3>2, <3>3 DEF Enqueue
  <2>2. CASE Dequeue
    BY <2>2, StutterSteps, MoveTakes DEF Dequeue, Abs!SpecNext
  <2>3. CASE DestroyBegin \/ DestroyEnd
    BY <2>3, StutterSteps
  <2>4. CASE UNCHANGED vars
    BY <2>4 DEF vars, consumerVars, Slots, Gone
  <2> QED
    BY <2>1, <2>2, <2>3, <2>4 DEF Next
<1> QED
  BY <1>1, <1>2, IndInv, SlotsFacts, PTL DEF Spec, Refinement, Abs!Abstract
=============================================================================
