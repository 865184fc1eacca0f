---------------------------- MODULE MpscQueueSpec ----------------------------
(***************************************************************************)
(* What MpscQueue.h promises its callers: a queue with many producers and  *)
(* one consumer in which a producer first RESERVES a place (the exchange   *)
(* of head_) and later LINKS it (the store to next_).  The consumer takes  *)
(* the places in the order of reservation and sees a place only once it,   *)
(* and every place before it, is linked.                                   *)
(*                                                                         *)
(* MpscQueue implements this specification node by node; EventLoop uses it *)
(* in place of the nodes.                                                  *)
(***************************************************************************)
EXTENDS Naturals, Sequences

CONSTANTS Producers,   \* the threads that may call enqueue
          Items        \* the values that may be enqueued

VARIABLES slots,       \* the reserved places, oldest first
          out          \* the items dequeue has returned, oldest first

specVars == <<slots, out>>

Slot == [val : Items, by : Producers, linked : BOOLEAN]

SpecTypeOK == /\ slots \in Seq(Slot)
              /\ out \in Seq(Items)

SpecInit == /\ slots = <<>>
            /\ out = <<>>

(* p is between the two steps of enqueue. *)
Linking(p) == \E i \in 1..Len(slots) : slots[i].by = p /\ ~slots[i].linked

(* The first step of enqueue: the place in the order is fixed. *)
Reserve(p, v) ==
    /\ ~Linking(p)
    /\ slots' = Append(slots, [val |-> v, by |-> p, linked |-> FALSE])
    /\ UNCHANGED out

(* The second step of enqueue: the item becomes visible. *)
Link(p) ==
    /\ \E i \in 1..Len(slots) :
          /\ slots[i].by = p
          /\ ~slots[i].linked
          /\ slots' = [slots EXCEPT ![i].linked = TRUE]
    /\ UNCHANGED out

(* What empty() and a failing dequeue() see. *)
NothingVisible == ~(slots # <<>> /\ slots[1].linked)

(* A dequeue() that returns true. *)
Take ==
    /\ ~NothingVisible
    /\ out' = Append(out, slots[1].val)
    /\ slots' = Tail(slots)

SpecNext == \/ \E p \in Producers, v \in Items : Reserve(p, v)
            \/ \E p \in Producers : Link(p)
            \/ Take

Abstract == SpecInit /\ [][SpecNext]_specVars
=============================================================================
