------------------------ MODULE EventLoopThreadProofs ------------------------
(***************************************************************************)
(* Proofs about EventLoop and EventLoopThread, for any number of threads   *)
(* and any number of calls they make on the loop.  First the loop alone:   *)
(* it loses no wakeup, with both values of the uninitialised               *)
(* callingPendingFuncs_.  Then the thread that owns it: the handshake of   *)
(* the promises tells the truth, and the owner never follows a pointer the *)
(* loop thread has cleared, unless somebody else told the loop to quit.    *)
(***************************************************************************)
EXTENDS EventLoopThread, TLAPS

-----------------------------------------------------------------------------
(* EventLoop.                                                              *)

(* What a reservation appends to the places. *)
LEMMA AppendPlace ==
    ASSUME NEW S, NEW s \in Seq(S), NEW e \in S
    PROVE  /\ Append(s, e) \in Seq(S)
           /\ Len(Append(s, e)) = Len(s) + 1
           /\ \A i \in 1..Len(s) : Append(s, e)[i] = s[i]
           /\ Append(s, e)[Len(s) + 1] = e
           /\ Append(s, e) # <<>>
  OBVIOUS

(* What replacing one place does. *)
LEMMA ReplacePlace ==
    ASSUME NEW S, NEW s \in Seq(S), NEW k \in 1..Len(s), NEW e \in S
    PROVE  /\ [s EXCEPT ![k] = e] \in Seq(S)
           /\ Len([s EXCEPT ![k] = e]) = Len(s)
           /\ [s EXCEPT ![k] = e][k] = e
           /\ \A i \in 1..Len(s) : i # k => [s EXCEPT ![k] = e][i] = s[i]
  OBVIOUS

(* What a dequeue leaves of the places. *)
LEMMA TailPlaces ==
    ASSUME NEW S, NEW s \in Seq(S), s # <<>>
    PROVE  /\ Tail(s) \in Seq(S)
           /\ Len(Tail(s)) = Len(s) - 1
           /\ \A i \in 1..(Len(s) - 1) : Tail(s)[i] = s[i + 1]
           /\ s[1] \in S
  OBVIOUS

(* The constructor establishes the inductive invariant. *)
LEMMA InitIInv == Init => IInv
<1> SUFFICES ASSUME Init PROVE IInv
  OBVIOUS
<1> USE DEF Init, funcs_!SpecInit
<1>1. quit_ \in BOOLEAN /\ looping_ \in BOOLEAN /\ woken \in BOOLEAN /\ pended \in BOOLEAN
      /\ callingPendingFuncs_ \in BOOLEAN
  BY Zenon
<1>2. slots \in Seq(funcs_!Slot) /\ out \in Seq(Funcs)
  OBVIOUS
<1>3. TypeOK
  BY <1>1, <1>2, MaxCallsAssumption DEF TypeOK, LoopPoints
<1>4. PlacesOwned /\ LoopThreadBusy /\ FirstPass /\ NoLostWakeup
  BY DEF PlacesOwned, LoopThreadBusy, FirstPass, NoLostWakeup, Callers
<1> QED
  BY <1>3, <1>4 DEF IInv

(* The exchange in enqueue: the new place belongs to the caller. *)
LEMMA QueueIInv ==
    ASSUME IInv, NEW t \in Callers, QueueInLoop(t)
    PROVE  IInv'
<1> USE DEF IInv
<1> DEFINE v == <<t, calls[t] + 1>>
           r == [val |-> v, by |-> t, linked |-> FALSE]
<1>1. /\ pc[t] = "idle" /\ MayCall(t)
      /\ calls[t] < MaxCalls /\ calls' = [calls EXCEPT ![t] = @ + 1]
      /\ pc' = [pc EXCEPT ![t] = "reserved"]
      /\ ~funcs_!Linking(t)
      /\ slots' = Append(slots, r)
      /\ UNCHANGED <<out, wakeupFd, callingPendingFuncs_, quit_, looping_, woken, lpc, pended>>
  BY DEF QueueInLoop, loopVars, funcs_!Reserve
<1>2. r \in funcs_!Slot /\ r.by = t /\ ~r.linked
  <2>1. v \in Funcs
    BY <1>1, MaxCallsAssumption DEF Funcs, TypeOK
  <2>2. FALSE \in BOOLEAN
    OBVIOUS
  <2> QED
    BY <2>1, <2>2 DEF funcs_!Slot
<1> HIDE DEF r
<1>3. /\ slots \in Seq(funcs_!Slot) /\ Len(slots) \in Nat
      /\ slots' \in Seq(funcs_!Slot)
      /\ Len(slots') = Len(slots) + 1
      /\ \A i \in 1..Len(slots) : slots'[i] = slots[i]
      /\ slots'[Len(slots) + 1] = r
  BY <1>1, <1>2, AppendPlace DEF TypeOK
<1>4. TypeOK'
  <2>1. funcs_!Slot' = funcs_!Slot
    BY DEF funcs_!Slot
  <2>2. calls' \in [Callers -> 0..MaxCalls]
    BY <1>1, MaxCallsAssumption DEF TypeOK
  <2> QED
    BY <2>1, <2>2, <1>1, <1>3 DEF TypeOK
<1>5. ASSUME NEW i \in 1..Len(slots)
      PROVE  slots[i].by \in Callers /\ (~slots[i].linked => slots[i].by # t)
  <2>1. slots[i] \in funcs_!Slot
    BY <1>3
  <2> QED
    BY <2>1, <1>1 DEF funcs_!Linking, funcs_!Slot
<1>6. PlacesOwned'
  <2>1. ASSUME NEW i \in 1..Len(slots'), ~slots'[i].linked
        PROVE  /\ pc'[slots'[i].by] = "reserved"
               /\ (slots'[i].by = t <=> i = Len(slots) + 1)
    <3>1. CASE i = Len(slots) + 1
      BY <3>1, <1>1, <1>2, <1>3 DEF TypeOK
    <3>2. CASE i # Len(slots) + 1
      <4>1. i \in 1..Len(slots) /\ slots'[i] = slots[i]
        BY <3>2, <1>3
      <4> QED
        BY <4>1, <3>2, <2>1, <1>1, <1>5 DEF PlacesOwned, TypeOK
    <3> QED
      BY <3>1, <3>2
  <2>2. ASSUME NEW i \in 1..Len(slots'), NEW j \in 1..Len(slots'),
               ~slots'[i].linked, ~slots'[j].linked, slots'[i].by = slots'[j].by
        PROVE  i = j
    <3>1. CASE slots'[i].by = t
      BY <2>1, <2>2, <3>1
    <3>2. CASE slots'[i].by # t
      <4>1. i # Len(slots) + 1 /\ j # Len(slots) + 1
        BY <2>1, <2>2, <3>2
      <4>2. i \in 1..Len(slots) /\ j \in 1..Len(slots)
        BY <4>1, <1>3
      <4>3. slots'[i] = slots[i] /\ slots'[j] = slots[j]
        BY <4>2, <1>3
      <4> QED
        BY <2>2, <4>2, <4>3 DEF PlacesOwned
    <3> QED
      BY <3>1, <3>2
  <2> QED
    BY <2>1, <2>2 DEF PlacesOwned
<1>7. LoopThreadBusy' /\ FirstPass'
  BY <1>1 DEF LoopThreadBusy, FirstPass, MayCall, TypeOK
<1>8. NoLostWakeup'
  <2>1. CASE t = Loop
    BY <2>1, <1>1 DEF MayCall, NoLostWakeup
  <2>2. CASE t # Loop
    BY <2>2, <1>1 DEF NoLostWakeup, InCall, Callers, TypeOK
  <2> QED
    BY <2>1, <2>2
<1> QED
  BY <1>4, <1>6, <1>7, <1>8

(* The store of the link: the caller has no hidden place any more. *)
LEMMA LinkIInv ==
    ASSUME IInv, NEW t \in Callers, QueueInLoopLink(t)
    PROVE  IInv'
<1> USE DEF IInv
<1>1. /\ pc[t] = "reserved"
      /\ pc' = [pc EXCEPT ![t] = "linked"]
      /\ UNCHANGED <<out, wakeupFd, callingPendingFuncs_, quit_, looping_, woken, lpc, pended, calls>>
  BY DEF QueueInLoopLink, loopVars, funcs_!Link
<1> PICK k \in 1..Len(slots) : slots[k].by = t /\ ~slots[k].linked
                                /\ slots' = [slots EXCEPT ![k].linked = TRUE]
  BY DEF QueueInLoopLink, funcs_!Link
<1>2. slots \in Seq(funcs_!Slot) /\ Len(slots) \in Nat /\ slots[k] \in funcs_!Slot
  BY DEF TypeOK
<1> DEFINE b == TRUE
           r == [slots[k] EXCEPT !.linked = b]
<1>3. b \in BOOLEAN
  OBVIOUS
<1> HIDE DEF b
<1>4. r \in funcs_!Slot /\ r.by = slots[k].by /\ r.linked = b
  BY <1>2, <1>3 DEF funcs_!Slot
<1>5. slots' = [slots EXCEPT ![k] = r]
  BY DEF b
<1> HIDE DEF r
<1>6. /\ slots' \in Seq(funcs_!Slot) /\ Len(slots') = Len(slots)
      /\ slots'[k] = r /\ r.linked
      /\ \A i \in 1..Len(slots) : i # k => slots'[i] = slots[i]
  <2>1. /\ slots' \in Seq(funcs_!Slot) /\ Len(slots') = Len(slots)
        /\ slots'[k] = r
        /\ \A i \in 1..Len(slots) : i # k => slots'[i] = slots[i]
    <3> DEFINE T == [slots EXCEPT ![k] = r]
    <3>1. /\ T \in Seq(funcs_!Slot) /\ Len(T) = Len(slots)
          /\ T[k] = r
          /\ \A i \in 1..Len(slots) : i # k => T[i] = slots[i]
      BY <1>2, <1>4, ReplacePlace
    <3>2. slots' = T
      BY <1>5
    <3> HIDE DEF T
    <3> QED
      BY <3>1, <3>2
  <2>2. r.linked
    BY <1>4 DEF b
  <2> QED
    BY <2>1, <2>2
<1>7. TypeOK'
  <2>1. funcs_!Slot' = funcs_!Slot
    BY DEF funcs_!Slot
  <2> QED
    BY <2>1, <1>1, <1>6 DEF TypeOK
<1>8. ASSUME NEW i \in 1..Len(slots'), ~slots'[i].linked
      PROVE  /\ i \in 1..Len(slots) /\ slots'[i] = slots[i]
             /\ slots[i].by \in Callers /\ slots[i].by # t
  <2>1. i \in 1..Len(slots) /\ slots'[i] = slots[i]
    BY <1>6, <1>8
  <2>2. slots[i] \in funcs_!Slot /\ i # k
    BY <2>1, <1>2, <1>6, <1>8
  <2>3. slots[i].by \in Callers
    BY <2>2 DEF funcs_!Slot
  <2> QED
    BY <2>1, <2>2, <2>3, <1>8 DEF PlacesOwned
<1>9. PlacesOwned'
  <2>1. ASSUME NEW i \in 1..Len(slots'), ~slots'[i].linked
        PROVE  pc'[slots'[i].by] = "reserved"
    BY <2>1, <1>1, <1>8 DEF PlacesOwned, TypeOK
  <2>2. ASSUME NEW i \in 1..Len(slots'), NEW j \in 1..Len(slots'),
               ~slots'[i].linked, ~slots'[j].linked, slots'[i].by = slots'[j].by
        PROVE  i = j
    <3>1. /\ i \in 1..Len(slots) /\ slots'[i] = slots[i]
          /\ j \in 1..Len(slots) /\ slots'[j] = slots[j]
      BY <2>2, <1>8
    <3> QED
      BY <2>2, <3>1 DEF PlacesOwned
  <2> QED
    BY <2>1, <2>2 DEF PlacesOwned
<1>10. LoopThreadBusy' /\ FirstPass'
  BY <1>1 DEF LoopThreadBusy, FirstPass, TypeOK
<1>11. NoLostWakeup'
  <2>1. CASE t = Loop
    BY <2>1, <1>1 DEF LoopThreadBusy, NoLostWakeup
  <2>2. CASE t # Loop
    BY <2>2, <1>1 DEF NoLostWakeup, InCall, Callers, TypeOK
  <2> QED
    BY <2>1, <2>2
<1> QED
  BY <1>7, <1>9, <1>10, <1>11

(* The wakeups at the end of queueInLoop and quit, and quit's flag. *)
LEMMA CallIInv ==
    ASSUME IInv, NEW t \in Callers, QueueInLoopWake(t) \/ Quit(t) \/ QuitWake(t)
    PROVE  IInv'
<1> USE DEF IInv
<1>1. /\ UNCHANGED <<slots, out, callingPendingFuncs_, looping_, woken, lpc, calls, pended>>
      /\ pc[t] # "reserved"
      /\ \E c \in {"idle", "quitting"} : pc' = [pc EXCEPT ![t] = c]
      /\ t = Loop => pc'[t] = "idle" \/ MayCall(t)
      /\ wakeupFd' = wakeupFd \/ wakeupFd' = wakeupFd + 1
      /\ quit_' = quit_ \/ quit_' = TRUE
  BY DEF QueueInLoopWake, Quit, QuitWake, loopVars, TypeOK
<1>2. TypeOK'
  <2>1. quit_' \in BOOLEAN
    <3>1. quit_ \in BOOLEAN
      BY DEF TypeOK
    <3> QED
      BY <3>1, <1>1, Zenon
  <2>2. funcs_!Slot' = funcs_!Slot
    BY DEF funcs_!Slot
  <2> QED
    BY <2>1, <2>2, <1>1 DEF TypeOK
<1>3. \A i \in 1..Len(slots) : ~slots[i].linked => pc'[slots[i].by] = "reserved"
  <2> SUFFICES ASSUME NEW i \in 1..Len(slots), ~slots[i].linked
               PROVE  pc'[slots[i].by] = "reserved"
    OBVIOUS
  <2>1. pc[slots[i].by] = "reserved" /\ slots[i].by # t
    BY <1>1 DEF PlacesOwned
  <2>2. slots[i] \in funcs_!Slot
    BY DEF TypeOK
  <2>3. slots[i].by \in Callers
    BY <2>2 DEF funcs_!Slot
  <2> QED
    BY <2>1, <2>3, <1>1 DEF TypeOK
<1>4. PlacesOwned'
  BY <1>1, <1>3 DEF PlacesOwned
<1>5. LoopThreadBusy' /\ FirstPass'
  <2>1. CASE t = Loop
    BY <2>1, <1>1 DEF LoopThreadBusy, FirstPass, MayCall
  <2>2. CASE t # Loop
    BY <2>2, <1>1 DEF LoopThreadBusy, FirstPass, TypeOK, Callers
  <2> QED
    BY <2>1, <2>2
<1>6. NoLostWakeup'
  <2>1. CASE ~(lpc \in {"leave", "check", "poll"})
    BY <2>1, <1>1 DEF NoLostWakeup
  <2>2. CASE lpc \in {"leave", "check", "poll"} /\ QueueInLoopWake(t)
    <3>1. t # Loop
      BY <2>2 DEF LoopThreadBusy, QueueInLoopWake
    <3>2. wakeupFd' > 0
      BY <2>2, <3>1 DEF QueueInLoopWake, NeedsWakeup, TypeOK
    <3> QED
      BY <3>2 DEF NoLostWakeup
  <2>3. CASE Quit(t) \/ QuitWake(t)
    <3>1. \A u \in Threads : InCall(u) => InCall(u)'
      <4>1. ~InCall(t)
        BY <2>3 DEF Quit, QuitWake, InCall
      <4> QED
        BY <4>1, <1>1 DEF InCall, TypeOK, Callers
    <3>2. wakeupFd > 0 => wakeupFd' > 0
      BY <1>1 DEF TypeOK
    <3> QED
      BY <3>1, <3>2, <1>1 DEF NoLostWakeup
  <2> QED
    BY <2>1, <2>2, <2>3
<1> QED
  BY <1>2, <1>4, <1>5, <1>6

(* The steps of the loop thread that leave the queue alone: doPendingFuncs *)
(* returns only when every remaining functor is still to be linked.        *)
LEMMA LoopIInv ==
    ASSUME IInv,
           \/ LoopEnter \/ LoopCheck \/ PollWakeup \/ PollOther \/ HandleRead
           \/ DoPendingFuncs \/ PendingCheck \/ PendingDrained \/ FuncReturns \/ PendingExit
    PROVE  IInv'
<1> USE DEF IInv
<1>1. /\ UNCHANGED <<slots, out, pc, calls>>
      /\ wakeupFd' \in {0, wakeupFd}
      /\ lpc' \in LoopPoints
  BY DEF LoopEnter, LoopCheck, PollWakeup, PollOther, HandleRead, DoPendingFuncs, PendingCheck,
         PendingDrained, FuncReturns, PendingExit, callVars, LoopPoints, TypeOK
<1>2. /\ callingPendingFuncs_' \in {callingPendingFuncs_, TRUE, FALSE}
      /\ quit_' \in {quit_, FALSE}
      /\ looping_' \in {looping_, TRUE, ~quit_}
      /\ woken' \in {woken, TRUE, FALSE}
      /\ pended' \in {pended, TRUE}
  BY Zenon DEF LoopEnter, LoopCheck, PollWakeup, PollOther, HandleRead, DoPendingFuncs, PendingCheck,
         PendingDrained, FuncReturns, PendingExit
<1>3. TypeOK'
  <2>1. /\ callingPendingFuncs_' \in BOOLEAN /\ quit_' \in BOOLEAN /\ looping_' \in BOOLEAN
        /\ woken' \in BOOLEAN /\ pended' \in BOOLEAN
    <3>1. /\ callingPendingFuncs_ \in BOOLEAN /\ quit_ \in BOOLEAN /\ looping_ \in BOOLEAN
          /\ woken \in BOOLEAN /\ pended \in BOOLEAN
      BY DEF TypeOK
    <3> QED
      BY <3>1, <1>2, Zenon
  <2>2. funcs_!Slot' = funcs_!Slot
    BY DEF funcs_!Slot
  <2> QED
    BY <2>1, <2>2, <1>1 DEF TypeOK
<1>4. PlacesOwned'
  BY <1>1 DEF PlacesOwned
<1>5. LoopThreadBusy' /\ FirstPass'
  BY <1>1 DEF LoopThreadBusy, FirstPass, LoopEnter, LoopCheck, PollWakeup, PollOther, HandleRead, DoPendingFuncs,
              PendingCheck, PendingDrained, FuncReturns, PendingExit
<1>6. NoLostWakeup'
  <2>1. CASE LoopCheck
    BY <2>1, <1>1 DEF NoLostWakeup, LoopCheck, InCall
  <2>2. CASE PendingCheck
    <3> SUFFICES ASSUME lpc' = "leave", slots' # <<>>
                 PROVE  \E u \in Threads : InCall(u)'
      BY <2>2 DEF NoLostWakeup, PendingCheck
    <3>1. funcs_!NothingVisible /\ lpc = "pending"
      BY <2>2 DEF PendingCheck
    <3>2. slots \in Seq(funcs_!Slot) /\ slots # <<>>
      BY <1>1 DEF TypeOK
    <3>3. ~slots[1].linked /\ 1 \in 1..Len(slots) /\ slots[1] \in funcs_!Slot
      BY <3>1, <3>2 DEF funcs_!NothingVisible
    <3>4. pc[slots[1].by] = "reserved" /\ slots[1].by \in Callers
      BY <3>3 DEF PlacesOwned, funcs_!Slot
    <3>5. slots[1].by # Loop
      BY <3>1, <3>4 DEF LoopThreadBusy
    <3> QED
      BY <3>4, <3>5, <1>1 DEF InCall, Callers
  <2>3. CASE ~LoopCheck /\ ~PendingCheck
    <3>1. CASE LoopEnter
      BY <3>1 DEF LoopEnter, FirstPass, NoLostWakeup
    <3>2. CASE PendingExit
      BY <3>2, <1>1 DEF PendingExit, NoLostWakeup, InCall
    <3>3. CASE ~LoopEnter /\ ~PendingExit
      BY <2>3, <3>3 DEF NoLostWakeup, PollWakeup, PollOther, HandleRead, DoPendingFuncs,
         PendingDrained, FuncReturns
    <3> QED
      BY <3>1, <3>2, <3>3
  <2> QED
    BY <2>1, <2>2, <2>3
<1> QED
  BY <1>3, <1>4, <1>5, <1>6

(* A dequeue removes a visible place and disturbs no other. *)
LEMMA DequeueIInv ==
    ASSUME IInv, PendingDequeue
    PROVE  IInv'
<1> USE DEF IInv
<1>1. /\ lpc = "dequeue" /\ lpc' = "run"
      /\ slots # <<>> /\ slots[1].linked
      /\ slots' = Tail(slots)
      /\ out' = Append(out, slots[1].val)
      /\ UNCHANGED <<wakeupFd, callingPendingFuncs_, quit_, looping_, woken, pended, pc, calls>>
  BY DEF PendingDequeue, callVars, funcs_!Take, funcs_!NothingVisible
<1>2. /\ slots \in Seq(funcs_!Slot) /\ Len(slots) \in Nat
      /\ slots' \in Seq(funcs_!Slot)
      /\ Len(slots') = Len(slots) - 1
      /\ \A i \in 1..(Len(slots) - 1) : slots'[i] = slots[i + 1]
      /\ slots[1] \in funcs_!Slot
  BY <1>1, TailPlaces DEF TypeOK
<1>3. TypeOK'
  <2>1. out' \in Seq(Funcs)
    <3>1. slots[1].val \in Funcs
      BY <1>2 DEF funcs_!Slot
    <3> QED
      BY <3>1, <1>1, AppendPlace DEF TypeOK
  <2>2. funcs_!Slot' = funcs_!Slot
    BY DEF funcs_!Slot
  <2> QED
    BY <2>1, <2>2, <1>1, <1>2 DEF TypeOK, LoopPoints
<1>4. PlacesOwned'
  <2>1. ASSUME NEW i \in 1..Len(slots')
        PROVE  i + 1 \in 1..Len(slots) /\ slots'[i] = slots[i + 1]
    BY <1>2
  <2>2. ASSUME NEW i \in 1..Len(slots'), ~slots'[i].linked
        PROVE  pc'[slots'[i].by] = "reserved"
    BY <2>1, <2>2, <1>1 DEF PlacesOwned
  <2>3. ASSUME NEW i \in 1..Len(slots'), NEW j \in 1..Len(slots'),
               ~slots'[i].linked, ~slots'[j].linked, slots'[i].by = slots'[j].by
        PROVE  i = j
    <3>1. /\ i + 1 \in 1..Len(slots) /\ slots'[i] = slots[i + 1]
          /\ j + 1 \in 1..Len(slots) /\ slots'[j] = slots[j + 1]
      BY <2>1
    <3>2. i + 1 = j + 1
      BY <2>3, <3>1 DEF PlacesOwned
    <3> QED
      BY <3>2
  <2> QED
    BY <2>2, <2>3 DEF PlacesOwned
<1>5. LoopThreadBusy' /\ FirstPass' /\ NoLostWakeup'
  BY <1>1 DEF LoopThreadBusy, FirstPass, NoLostWakeup
<1> QED
  BY <1>3, <1>4, <1>5

(* The inductive invariant holds in every reachable state of the loop. *)
THEOREM LoopIndInv == Spec => []IInv
<1>1. IInv /\ [Next]_vars => IInv'
  <2> SUFFICES ASSUME IInv, [Next]_vars PROVE IInv'
    OBVIOUS
  <2>1. CASE \E t \in Callers : QueueInLoop(t) \/ Quit(t) \/ CallSteps(t)
    BY <2>1, QueueIInv, LinkIInv, CallIInv DEF CallSteps
  <2>2. CASE LoopSteps \/ PollOther
    BY <2>2, LoopIInv, DequeueIInv DEF LoopSteps
  <2>3. CASE UNCHANGED vars
    <3>1. UNCHANGED <<slots, out, wakeupFd, callingPendingFuncs_, quit_, looping_, woken, lpc, pended, pc, calls>>
      BY <2>3 DEF vars, loopVars, callVars
    <3>2. TypeOK'
      <4>1. funcs_!Slot' = funcs_!Slot
        BY DEF funcs_!Slot
      <4> QED
        BY <3>1, <4>1 DEF IInv, TypeOK
    <3> QED
      BY <3>1, <3>2 DEF IInv, PlacesOwned, LoopThreadBusy, FirstPass, NoLostWakeup, InCall
  <2> QED
    BY <2>1, <2>2, <2>3 DEF Next
<1> QED
  BY <1>1, InitIInv, PTL DEF Spec

(* Type correctness of the event loop. *)
THEOREM LoopTypeCorrect == Spec => []TypeOK
<1>1. IInv => TypeOK
  BY DEF IInv
<1> QED
  BY <1>1, LoopIndInv, PTL

(* The loop never sleeps on a functor that nobody will wake it for. *)
THEOREM WakeupSafety == Spec => []NoLostWakeup
<1>1. IInv => NoLostWakeup
  BY DEF IInv
<1> QED
  BY <1>1, LoopIndInv, PTL

-----------------------------------------------------------------------------
(* EventLoopThread.                                                        *)

(* The owner is one of the callers and not the loop thread. *)
LEMMA OwnerCalls == Owner \in Callers /\ Owner # Loop
  BY OwnerAssumption, LoopAssumption DEF Callers

(* The invariant of the loop speaks of the loop's variables alone. *)
LEMMA StutterIInv ==
    ASSUME IInv, UNCHANGED vars
    PROVE  IInv'
<1>1. UNCHANGED <<slots, out, wakeupFd, callingPendingFuncs_, quit_, looping_, woken, lpc, pended, pc, calls>>
  BY DEF vars, loopVars, callVars
<1>2. funcs_!Slot' = funcs_!Slot
  BY DEF funcs_!Slot
<1>3. TypeOK'
  BY <1>1, <1>2 DEF IInv, TypeOK
<1> QED
  BY <1>1, <1>3 DEF IInv, PlacesOwned, LoopThreadBusy, FirstPass, NoLostWakeup, InCall

(* The destructor's quit() disturbs no other call on the loop. *)
LEMMA OwnerQuitIInv ==
    ASSUME IInv, pc[Owner] = "idle", OwnerQuit
    PROVE  IInv'
<1> USE DEF IInv
<1>1. /\ UNCHANGED <<slots, out, wakeupFd, callingPendingFuncs_, looping_, woken, lpc, calls, pended>>
      /\ pc' = [pc EXCEPT ![Owner] = "quitting"]
      /\ quit_' = TRUE
  BY DEF OwnerQuit
<1>2. pc \in [Callers -> {"idle", "reserved", "linked", "quitting"}]
  BY DEF TypeOK
<1>3. TypeOK'
  <2>1. quit_' \in BOOLEAN
    BY <1>1, Zenon
  <2>2. funcs_!Slot' = funcs_!Slot
    BY DEF funcs_!Slot
  <2>3. pc' \in [Callers -> {"idle", "reserved", "linked", "quitting"}]
    BY <1>1, <1>2
  <2> QED
    BY <2>1, <2>2, <2>3, <1>1 DEF TypeOK
<1>4. \A t \in Callers : t # Owner => pc'[t] = pc[t]
  BY <1>1, <1>2
<1>5. PlacesOwned'
  <2>1. ASSUME NEW i \in 1..Len(slots), ~slots[i].linked
        PROVE  pc'[slots[i].by] = "reserved"
    <3>1. pc[slots[i].by] = "reserved" /\ slots[i].by # Owner
      BY <2>1 DEF PlacesOwned
    <3>2. slots[i] \in funcs_!Slot
      BY DEF TypeOK
    <3>3. slots[i].by \in Callers
      BY <3>2 DEF funcs_!Slot
    <3> QED
      BY <3>1, <3>3, <1>4
  <2> QED
    BY <2>1, <1>1 DEF PlacesOwned
<1>6. LoopThreadBusy' /\ FirstPass'
  BY <1>1, <1>4, OwnerCalls DEF LoopThreadBusy, FirstPass, Callers
<1>7. NoLostWakeup'
  <2>1. \A t \in Threads : InCall(t) => InCall(t)'
    BY <1>4 DEF InCall, Callers
  <2> QED
    BY <2>1, <1>1 DEF NoLostWakeup
<1> QED
  BY <1>3, <1>5, <1>6, <1>7

(* What has run stays run when doPendingFuncs dequeues another functor. *)
LEMMA RanStable ==
    ASSUME IInv, PendingDequeue, Ran(PromiseFunc)
    PROVE  Ran(PromiseFunc)'
<1>1. PICK i \in 1..Len(out) : out[i] = PromiseFunc
  BY DEF Ran
<1>2. /\ out \in Seq(Funcs)
      /\ slots \in Seq(funcs_!Slot) /\ slots # <<>>
      /\ out' = Append(out, slots[1].val)
  BY DEF IInv, TypeOK, PendingDequeue, funcs_!Take, funcs_!NothingVisible
<1>3. slots[1].val \in Funcs
  <2>1. slots[1] \in funcs_!Slot
    BY <1>2
  <2> QED
    BY <2>1 DEF funcs_!Slot
<1>4. i \in 1..Len(out') /\ out'[i] = PromiseFunc
  BY <1>1, <1>2, <1>3, AppendPlace
<1> QED
  BY <1>4 DEF Ran, PromiseFunc

(* Once a functor is dequeued the list of the dequeued ones is not empty. *)
LEMMA DequeuedSome ==
    ASSUME IInv, PendingDequeue
    PROVE  out' # <<>>
<1>1. /\ out \in Seq(Funcs)
      /\ slots \in Seq(funcs_!Slot) /\ slots # <<>>
      /\ out' = Append(out, slots[1].val)
  BY DEF IInv, TypeOK, PendingDequeue, funcs_!Take, funcs_!NothingVisible
<1>2. slots[1].val \in Funcs
  <2>1. slots[1] \in funcs_!Slot
    BY <1>1
  <2> QED
    BY <2>1 DEF funcs_!Slot
<1> QED
  BY <1>1, <1>2, AppendPlace

(* Every step keeps the invariant of the loop. *)
LEMMA StepIInv ==
    ASSUME TInv, ThreadNext
    PROVE  IInv'
<1>1. CASE FuncsPublish \/ FuncsClear \/ FuncsReturn \/ OwnerBuilt \/ OwnerRun \/ OwnerRunReturns
           \/ OwnerDestroy \/ OwnerJoined \/ OwnerWait
  BY <1>1, StutterIInv DEF TInv, FuncsPublish, FuncsClear, FuncsReturn, OwnerBuilt, OwnerRun, OwnerRunReturns,
     OwnerDestroy, OwnerJoined, OwnerWait
<1>2. CASE FuncsQueue \/ LoopCalls
  BY <1>2, QueueIInv, CallIInv DEF TInv, FuncsQueue, LoopCalls, Callers
<1>3. CASE FuncsLoop \/ FuncsLoopStep \/ FuncsPollOther
  BY <1>3, LoopIInv, DequeueIInv DEF TInv, FuncsLoop, FuncsLoopStep, FuncsPollOther, LoopSteps
<1>4. CASE OwnerQuit
  BY <1>4, OwnerQuitIInv DEF TInv, OwnerIdle, OwnerQuit
<1>5. CASE \E t \in Threads \ {Owner} : OthersCall(t)
  BY <1>5, QueueIInv, CallIInv DEF TInv, OthersCall, Callers
<1>6. CASE \E t \in Callers : CallContinues(t)
  BY <1>6, LinkIInv, CallIInv DEF TInv, CallContinues, CallSteps
<1> QED
  BY <1>1, <1>2, <1>3, <1>4, <1>5, <1>6 DEF ThreadNext, FuncsSteps, OwnerSteps

(* A call on the loop, by whatever thread, leaves the loop thread where it *)
(* is and the queue of what has run alone.                                 *)
LEMMA CallsLeaveLoop ==
    ASSUME NEW t \in Callers, QueueInLoop(t) \/ Quit(t) \/ CallSteps(t)
    PROVE  /\ UNCHANGED <<out, looping_, lpc>>
           /\ quit_' = quit_ \/ quit_' = TRUE
<1>1. CASE QueueInLoop(t)
  BY <1>1 DEF QueueInLoop, loopVars, funcs_!Reserve
<1>2. CASE Quit(t)
  BY <1>2 DEF Quit
<1>3. CASE CallSteps(t)
  BY <1>3 DEF CallSteps, QueueInLoopLink, QueueInLoopWake, QuitWake, loopVars, funcs_!Link
<1> QED
  BY <1>1, <1>2, <1>3

(* A call of one thread leaves the place of another in its own alone. *)
LEMMA CallsLeaveOwner ==
    ASSUME IInv, NEW t \in Callers, t # Owner, QueueInLoop(t) \/ Quit(t) \/ CallSteps(t)
    PROVE  pc'[Owner] = pc[Owner]
<1>1. \E c \in {"idle", "reserved", "linked", "quitting"} : pc' = [pc EXCEPT ![t] = c]
  BY DEF QueueInLoop, Quit, CallSteps, QueueInLoopLink, QueueInLoopWake, QuitWake
<1>2. pc \in [Callers -> {"idle", "reserved", "linked", "quitting"}]
  BY DEF IInv, TypeOK
<1> QED
  BY <1>1, <1>2, OwnerCalls

(* The calls on the loop do not disturb the handshake. *)
LEMMA CallsTInv ==
    ASSUME TInv, IInv',
           \/ LoopCalls
           \/ \E t \in Threads \ {Owner} : OthersCall(t)
           \/ \E t \in Callers : CallContinues(t)
    PROVE  TInv'
<1>1. PICK t \in Callers : QueueInLoop(t) \/ Quit(t) \/ CallSteps(t)
  BY DEF LoopCalls, OthersCall, CallContinues, Callers
<1>2. UNCHANGED <<loop_, tpc, opc, pointerSet, runSet, loopSet>>
  BY DEF LoopCalls, OthersCall, CallContinues, threadVars, handshake
<1>3. UNCHANGED <<out, looping_, lpc>> /\ (quit_' = quit_ \/ quit_' = TRUE)
  BY <1>1, CallsLeaveLoop
<1>4. ThreadTypeOK'
  BY <1>2 DEF IInv, ThreadTypeOK, TInv
<1>5. Handshake' /\ PointerHeld'
  BY <1>2, <1>3 DEF TInv, Handshake, PointerHeld, Ran, PromiseFunc
<1>6. ThreadInLoop'
  BY <1>2, <1>3 DEF TInv, ThreadInLoop
<1>7. OwnerIdle'
  <2> SUFFICES ASSUME opc \notin {"join", "joined"} PROVE pc'[Owner] = "idle"
    BY <1>2 DEF OwnerIdle
  <2>1. pc[Owner] = "idle" /\ IInv
    BY DEF TInv, OwnerIdle
  <2>2. PICK u \in Callers : u # Owner /\ (QueueInLoop(u) \/ Quit(u) \/ CallSteps(u))
    <3>1. CASE LoopCalls
      BY <3>1, OwnerCalls DEF LoopCalls, Callers
    <3>2. CASE \E u \in Threads \ {Owner} : OthersCall(u)
      BY <3>2 DEF OthersCall, Callers
    <3>3. CASE \E u \in Callers : CallContinues(u)
      BY <3>3, <2>1 DEF CallContinues, CallSteps, QueueInLoopLink, QueueInLoopWake, QuitWake
    <3> QED
      BY <3>1, <3>2, <3>3
  <2> QED
    BY <2>1, <2>2, CallsLeaveOwner
<1> QED
  BY <1>4, <1>5, <1>6, <1>7 DEF TInv

(* loopFuncs() around loop(): each promise is set after what it tells of.  *)
LEMMA FuncsTInv ==
    ASSUME TInv, IInv', FuncsQueue \/ FuncsPublish \/ FuncsLoop \/ FuncsClear \/ FuncsReturn
    PROVE  TInv'
<1>1. CASE FuncsQueue
  <2>1. /\ tpc = "start" /\ tpc' = "queued"
        /\ UNCHANGED <<loop_, opc, pointerSet, runSet, loopSet>>
    BY <1>1 DEF FuncsQueue, handshake
  <2>2. UNCHANGED <<out, looping_, lpc>> /\ (quit_' = quit_ \/ quit_' = TRUE)
    BY <1>1, CallsLeaveLoop DEF FuncsQueue, Callers
  <2>3. pc'[Owner] = pc[Owner]
    BY <1>1, CallsLeaveOwner, OwnerCalls DEF FuncsQueue, Callers, TInv
  <2>4. ThreadTypeOK'
    BY <2>1 DEF IInv, ThreadTypeOK, TInv
  <2>5. Handshake' /\ PointerHeld'
    BY <2>1, <2>2 DEF TInv, Handshake, PointerHeld, Ran, PromiseFunc
  <2>6. ThreadInLoop' /\ OwnerIdle'
    BY <2>1, <2>2, <2>3 DEF TInv, ThreadInLoop, OwnerIdle
  <2> QED
    BY <2>4, <2>5, <2>6 DEF TInv
<1>2. CASE FuncsLoop
  <2>1. /\ tpc = "published" /\ tpc' = "looping" /\ runSet
        /\ lpc = "created" /\ lpc' = "check" /\ looping_' = TRUE
        /\ UNCHANGED <<loop_, opc, pointerSet, runSet, loopSet, out, pc>>
    BY <1>2 DEF FuncsLoop, handshake, LoopEnter, callVars
  <2>2. ThreadTypeOK'
    BY <2>1 DEF IInv, ThreadTypeOK, TInv
  <2>3. Handshake' /\ PointerHeld'
    BY <2>1 DEF TInv, Handshake, PointerHeld, Ran, PromiseFunc
  <2>4. ThreadInLoop' /\ OwnerIdle'
    BY <2>1 DEF TInv, ThreadInLoop, OwnerIdle
  <2> QED
    BY <2>2, <2>3, <2>4 DEF TInv
<1>3. CASE FuncsPublish \/ FuncsClear \/ FuncsReturn
  <2>1. /\ UNCHANGED <<out, looping_, lpc, quit_, pc, opc, runSet, loopSet>>
        /\ \/ tpc = "queued" /\ tpc' = "published" /\ pointerSet' = TRUE /\ loop_' = loop_
           \/ tpc = "looping" /\ tpc' = "cleared" /\ lpc = "exited" /\ loop_' = FALSE /\ pointerSet' = pointerSet
           \/ tpc = "cleared" /\ tpc' = "ended" /\ loop_' = loop_ /\ pointerSet' = pointerSet
    BY <1>3 DEF FuncsPublish, FuncsClear, FuncsReturn, vars, loopVars, callVars, handshake
  <2>2. ThreadTypeOK'
    <3>1. loop_' \in BOOLEAN /\ pointerSet' \in BOOLEAN
      BY <2>1, Zenon DEF TInv, ThreadTypeOK
    <3> QED
      BY <2>1, <3>1 DEF IInv, ThreadTypeOK, TInv
  <2>3. Handshake' /\ PointerHeld'
    BY <2>1 DEF TInv, Handshake, PointerHeld, Ran, PromiseFunc
  <2>4. ThreadInLoop' /\ OwnerIdle'
    BY <2>1 DEF TInv, ThreadInLoop, OwnerIdle
  <2> QED
    BY <2>2, <2>3, <2>4 DEF TInv
<1> QED
  BY <1>1, <1>2, <1>3

(* The steps of loop(): the promise of run() is set by its functor alone,  *)
(* and only quit_ ends the loop.                                           *)
LEMMA LoopTInv ==
    ASSUME TInv, IInv', FuncsLoopStep \/ FuncsPollOther
    PROVE  TInv'
<1>1. tpc = "looping" /\ lpc # "created"
  BY DEF FuncsLoopStep, FuncsPollOther, TInv, ThreadInLoop
<1>2. /\ UNCHANGED <<loop_, tpc, opc, pointerSet, runSet>>
      /\ loopSet' = (loopSet \/ (FuncReturns /\ out[Len(out)] = PromiseFunc)) \/ loopSet' = loopSet
      /\ LoopSteps \/ PollOther
  BY DEF FuncsLoopStep, FuncsPollOther, threadVars, handshake
<1>3. ~LoopEnter
  BY <1>1 DEF LoopEnter
<1>4. pc' = pc
  BY <1>2 DEF LoopSteps, LoopEnter, LoopCheck, PollWakeup, PollOther, HandleRead, DoPendingFuncs, PendingCheck,
     PendingDequeue, PendingDrained, FuncReturns, PendingExit, callVars
<1>5. Ran(PromiseFunc) => Ran(PromiseFunc)'
  <2>1. CASE PendingDequeue
    BY <2>1, RanStable DEF TInv
  <2>2. CASE ~PendingDequeue
    <3>1. out' = out
      BY <1>2, <2>2 DEF LoopSteps, LoopEnter, LoopCheck, PollWakeup, PollOther, HandleRead, DoPendingFuncs,
         PendingCheck, PendingDrained, FuncReturns, PendingExit
    <3> QED
      BY <3>1 DEF Ran, PromiseFunc
  <2> QED
    BY <2>1, <2>2
<1>6. ThreadInLoop'
  <2>1. CASE LoopCheck
    BY <2>1, <1>1, <1>2 DEF TInv, ThreadInLoop, LoopCheck
  <2>2. CASE PendingDequeue
    BY <2>2, <1>1, <1>2, DequeuedSome DEF TInv, ThreadInLoop, PendingDequeue
  <2>3. CASE ~LoopCheck /\ ~PendingDequeue
    <3>1. /\ looping_' = looping_
          /\ lpc \notin {"created", "exited"}
          /\ lpc' \notin {"created", "exited", "run"} \/ (lpc' = lpc /\ out' = out)
      BY <2>3, <1>2, <1>3 DEF LoopSteps, PollWakeup, PollOther, HandleRead, DoPendingFuncs, PendingCheck,
         PendingDrained, FuncReturns, PendingExit
    <3> QED
      BY <3>1, <1>1, <1>2 DEF TInv, ThreadInLoop
  <2> QED
    BY <2>1, <2>2, <2>3
<1>7. ASSUME FuncReturns, out[Len(out)] = PromiseFunc
      PROVE  Ran(PromiseFunc)
  <2>1. out \in Seq(Funcs) /\ out # <<>>
    BY <1>7 DEF FuncReturns, TInv, ThreadInLoop, IInv, TypeOK
  <2>2. Len(out) \in 1..Len(out)
    BY <2>1
  <2> QED
    BY <1>7, <2>2 DEF Ran
<1>8. loopSet' => loopSet \/ Ran(PromiseFunc)
  BY <1>2, <1>7
<1>9. Handshake' /\ PointerHeld'
  <2>1. loopSet => loopSet'
    BY <1>2
  <2> QED
    BY <2>1, <1>1, <1>2, <1>5, <1>8 DEF TInv, Handshake, PointerHeld
<1>10. ThreadTypeOK'
  <2>1. loopSet' \in BOOLEAN
    BY <1>2, Zenon DEF TInv, ThreadTypeOK
  <2> QED
    BY <2>1, <1>2 DEF IInv, ThreadTypeOK, TInv
<1> QED
  BY <1>2, <1>4, <1>6, <1>9, <1>10 DEF TInv, OwnerIdle

(* The owner's steps: it goes on only when the promise it waits for is set.*)
LEMMA OwnerTInv ==
    ASSUME TInv, IInv', OwnerSteps \/ OwnerWait
    PROVE  TInv'
<1>1. UNCHANGED <<out, looping_, lpc, tpc, pointerSet, loopSet>>
  BY DEF OwnerSteps, OwnerBuilt, OwnerRun, OwnerRunReturns, OwnerDestroy, OwnerQuit, OwnerJoined, OwnerWait,
     vars, loopVars, callVars, handshake
<1>2. quit_' = quit_ \/ quit_' = TRUE
  BY DEF OwnerSteps, OwnerBuilt, OwnerRun, OwnerRunReturns, OwnerDestroy, OwnerQuit, OwnerJoined, OwnerWait,
     vars, loopVars
<1>3. ThreadInLoop'
  BY <1>1, <1>2 DEF TInv, ThreadInLoop
<1>4. CASE OwnerBuilt
  <2>1. opc = "ctor" /\ pointerSet /\ loop_' = TRUE /\ opc' = "built" /\ runSet' = runSet /\ pc' = pc
    BY <1>4 DEF OwnerBuilt, vars, callVars, handshake
  <2>2. ThreadTypeOK'
    <3>1. loop_' \in BOOLEAN
      BY <2>1, Zenon
    <3> QED
      BY <3>1, <1>1, <2>1 DEF IInv, ThreadTypeOK, TInv
  <2>3. Handshake' /\ PointerHeld' /\ OwnerIdle'
    BY <1>1, <2>1 DEF TInv, Handshake, PointerHeld, OwnerIdle, Ran, PromiseFunc
  <2> QED
    BY <1>3, <2>2, <2>3 DEF TInv
<1>5. CASE OwnerRun
  <2>1. opc = "built" /\ opc' = "waiting" /\ runSet' = TRUE /\ loop_' = loop_ /\ pc' = pc
    BY <1>5 DEF OwnerRun, vars, callVars
  <2>2. ThreadTypeOK'
    <3>1. runSet' \in BOOLEAN
      BY <2>1, Zenon
    <3> QED
      BY <3>1, <1>1, <2>1 DEF IInv, ThreadTypeOK, TInv
  <2>3. Handshake' /\ PointerHeld' /\ OwnerIdle'
    BY <1>1, <2>1 DEF TInv, Handshake, PointerHeld, OwnerIdle, Ran, PromiseFunc
  <2> QED
    BY <1>3, <2>2, <2>3 DEF TInv
<1>6. CASE OwnerRunReturns \/ OwnerDestroy \/ OwnerJoined \/ OwnerWait
  <2>1. /\ UNCHANGED <<loop_, runSet, pc>>
        /\ \/ opc = "waiting" /\ loopSet /\ opc' = "running"
           \/ opc \in {"running", "wait"} /\ opc' \in {"quit", "join"}
           \/ opc = "join" /\ opc' = "joined"
           \/ opc = "running" /\ opc' = "wait"
    BY <1>6 DEF OwnerRunReturns, OwnerDestroy, OwnerJoined, OwnerWait, vars, callVars, handshake
  <2>2. ThreadTypeOK'
    BY <1>1, <2>1 DEF IInv, ThreadTypeOK, TInv
  <2>3. Handshake' /\ PointerHeld' /\ OwnerIdle'
    BY <1>1, <2>1 DEF TInv, Handshake, PointerHeld, OwnerIdle, Ran, PromiseFunc
  <2> QED
    BY <1>3, <2>2, <2>3 DEF TInv
<1>7. CASE OwnerQuit
  <2>1. opc = "quit" /\ opc' = "join" /\ UNCHANGED <<loop_, runSet>>
    BY <1>7 DEF OwnerQuit, handshake
  <2>2. ThreadTypeOK'
    BY <1>1, <2>1 DEF IInv, ThreadTypeOK, TInv
  <2>3. Handshake' /\ PointerHeld' /\ OwnerIdle'
    BY <1>1, <2>1 DEF TInv, Handshake, PointerHeld, OwnerIdle, Ran, PromiseFunc
  <2> QED
    BY <1>3, <2>2, <2>3 DEF TInv
<1> QED
  BY <1>4, <1>5, <1>6, <1>7 DEF OwnerSteps

(* The inductive invariant holds in every reachable state.                 *)
THEOREM ThreadIndInv == ThreadSpec => []TInv
<1>1. ThreadInit => TInv
  <2> SUFFICES ASSUME ThreadInit PROVE TInv
    OBVIOUS
  <2>1. IInv
    BY InitIInv DEF ThreadInit
  <2>2. ThreadTypeOK
    <3>1. loop_ \in BOOLEAN /\ pointerSet \in BOOLEAN /\ runSet \in BOOLEAN /\ loopSet \in BOOLEAN
      BY Zenon DEF ThreadInit
    <3> QED
      BY <2>1, <3>1 DEF ThreadInit, ThreadTypeOK, IInv
  <2>3. Handshake /\ PointerHeld /\ ThreadInLoop
    BY DEF ThreadInit, Init, Handshake, PointerHeld, ThreadInLoop
  <2>4. OwnerIdle
    BY OwnerCalls DEF ThreadInit, Init, OwnerIdle
  <2> QED
    BY <2>1, <2>2, <2>3, <2>4 DEF TInv
<1>2. TInv /\ [ThreadNext]_allVars => TInv'
  <2> SUFFICES ASSUME TInv, [ThreadNext]_allVars PROVE TInv'
    OBVIOUS
  <2>1. CASE ThreadNext
    <3>1. IInv'
      BY <2>1, StepIInv
    <3> QED
      BY <2>1, <3>1, CallsTInv, FuncsTInv, LoopTInv, OwnerTInv DEF ThreadNext, FuncsSteps
  <2>2. CASE UNCHANGED allVars
    <3>1. UNCHANGED vars /\ UNCHANGED <<loop_, tpc, opc, pointerSet, runSet, loopSet>>
      BY <2>2 DEF allVars, threadVars, handshake
    <3>2. UNCHANGED <<out, looping_, lpc, quit_, pc>>
      BY <3>1 DEF vars, loopVars, callVars
    <3>3. IInv'
      BY <3>1, StutterIInv DEF TInv
    <3> QED
      BY <3>1, <3>2, <3>3 DEF TInv, ThreadTypeOK, Handshake, PointerHeld, ThreadInLoop, OwnerIdle, IInv, Ran,
         PromiseFunc
  <2> QED
    BY <2>1, <2>2
<1> QED
  BY <1>1, <1>2, PTL DEF ThreadSpec

(* Type correctness of the thread, its owner and its loop.                 *)
THEOREM ThreadTypeCorrect == ThreadSpec => []ThreadTypeOK
<1>1. TInv => ThreadTypeOK
  BY DEF TInv
<1> QED
  BY <1>1, ThreadIndInv, PTL

(* The loop of a thread loses no wakeup either, whoever uses it.           *)
THEOREM ThreadWakeupSafety == ThreadSpec => []NoLostWakeup
<1>1. TInv => NoLostWakeup
  BY DEF TInv, IInv
<1> QED
  BY <1>1, ThreadIndInv, PTL

(* When run() has returned (EventLoopThread.cpp:58-70) the promise's       *)
(* functor has run, and the loop thread stays in loop() until it is told   *)
(* to quit.                                                                *)
THEOREM RunReturnsLooping == ThreadSpec => []RunningMeansLooping
<1>1. TInv => RunningMeansLooping
  <2> SUFFICES ASSUME TInv, opc = "running"
               PROVE  Ran(PromiseFunc) /\ (~quit_ => looping_ /\ tpc = "looping" /\ loop_)
    BY DEF RunningMeansLooping
  <2>1. Ran(PromiseFunc) /\ tpc \in {"looping", "cleared", "ended"}
    BY DEF TInv, Handshake
  <2>2. ~quit_ => tpc = "looping" /\ looping_
    BY <2>1 DEF TInv, ThreadInLoop
  <2> QED
    BY <2>1, <2>2 DEF TInv, PointerHeld
<1> QED
  BY <1>1, ThreadIndInv, PTL

(* The destructor's loop_->quit() (EventLoopThread.cpp:22-24) goes through *)
(* a pointer the loop thread has not cleared, unless somebody else told    *)
(* the loop to quit.                                                       *)
THEOREM QuitPointerSafety == ThreadSpec => []QuitPointerValid
<1>1. TInv => QuitPointerValid
  <2> SUFFICES ASSUME TInv, opc = "quit", ~quit_
               PROVE  tpc = "looping" /\ loop_
    BY DEF QuitPointerValid
  <2>1. tpc \in {"looping", "cleared", "ended"}
    BY DEF TInv, Handshake
  <2>2. tpc = "looping"
    BY <2>1 DEF TInv, ThreadInLoop
  <2> QED
    BY <2>2 DEF TInv, PointerHeld
<1> QED
  BY <1>1, ThreadIndInv, PTL
=============================================================================
