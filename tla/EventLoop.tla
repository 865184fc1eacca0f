------------------------------ MODULE EventLoop ------------------------------
(***************************************************************************)
(* The event loop of src/EventLoop.cpp: the thread that runs loop(), the   *)
(* queue of functors other threads hand to it, and the eventfd that wakes  *)
(* it from epoll.  Any thread may call queueInLoop and quit at any time;   *)
(* the loop thread calls them before loop() and from inside callbacks.     *)
(*                                                                         *)
(* The queue is MpscQueueSpec, which MpscQueue implements.                 *)
(***************************************************************************)
EXTENDS Naturals, Sequences

CONSTANTS Threads,   \* the threads other than the loop thread
          Loop,      \* the loop thread
          MaxCalls   \* bound: calls of queueInLoop per thread

ASSUME LoopAssumption == Loop \notin Threads
ASSUME MaxCallsAssumption == MaxCalls \in Nat

Callers == Threads \cup {Loop}

(* The k-th functor a thread queues. *)
Funcs == Callers \X (1..MaxCalls)

VARIABLES
    slots,                 \* funcs_: the places of the MpscQueue
    out,                   \* the functors doPendingFuncs has dequeued
    wakeupFd,              \* the counter of the eventfd wakeupFd_
    callingPendingFuncs_,
    quit_,
    looping_,
    woken,                 \* wakeupChannelPtr_ is in activeChannels_
    lpc,                   \* where the loop thread is
    pc,                    \* per thread: where its call of queueInLoop or quit is
    calls,                 \* per thread: calls of queueInLoop begun
    pended                 \* ghost: doPendingFuncs has seen the queue empty

loopVars == <<callingPendingFuncs_, quit_, looping_, woken, lpc, pended>>
callVars == <<pc, calls>>
vars == <<slots, out, wakeupFd, loopVars, callVars>>

funcs_ == INSTANCE MpscQueueSpec WITH Producers <- Callers, Items <- Funcs

LoopPoints == {"created", "check", "poll", "handle", "pending", "dequeue", "run", "leave", "exited"}

TypeOK ==
    /\ slots \in Seq(funcs_!Slot)
    /\ out \in Seq(Funcs)
    /\ wakeupFd \in Nat
    /\ callingPendingFuncs_ \in BOOLEAN
    /\ quit_ \in BOOLEAN
    /\ looping_ \in BOOLEAN
    /\ woken \in BOOLEAN
    /\ lpc \in LoopPoints
    /\ pc \in [Callers -> {"idle", "reserved", "linked", "quitting"}]
    /\ calls \in [Callers -> 0..MaxCalls]
    /\ pended \in BOOLEAN

(* The constructor; it does not initialise callingPendingFuncs_. *)
Init ==
    /\ funcs_!SpecInit
    /\ wakeupFd = 0
    /\ callingPendingFuncs_ \in BOOLEAN
    /\ quit_ = FALSE
    /\ looping_ = FALSE
    /\ woken = FALSE
    /\ lpc = "created"
    /\ pc = [t \in Callers |-> "idle"]
    /\ calls = [t \in Callers |-> 0]
    /\ pended = FALSE

(* The loop thread runs user code: before loop(), in the callback of an    *)
(* active channel, or in a functor.  Other threads always may.             *)
MayCall(t) == t = Loop => lpc \in {"created", "handle", "run"}

-----------------------------------------------------------------------------
(* queueInLoop(cb), which is also runInLoop(cb) in another thread.         *)

(* funcs_.enqueue, up to the exchange. *)
QueueInLoop(t) ==
    /\ pc[t] = "idle"
    /\ MayCall(t)
    /\ calls[t] < MaxCalls
    /\ calls' = [calls EXCEPT ![t] = @ + 1]
    /\ funcs_!Reserve(t, <<t, calls[t] + 1>>)
    /\ pc' = [pc EXCEPT ![t] = "reserved"]
    /\ UNCHANGED <<wakeupFd, loopVars>>

(* funcs_.enqueue, the store of the link. *)
QueueInLoopLink(t) ==
    /\ pc[t] = "reserved"
    /\ funcs_!Link(t)
    /\ pc' = [pc EXCEPT ![t] = "linked"]
    /\ UNCHANGED <<wakeupFd, loopVars, calls>>

(* Mutant of NeedsWakeup: the test of the thread is dropped. *)
NeedsWakeupUnlessPending(t) == ~callingPendingFuncs_

(* wakeup() is skipped only by the loop thread inside doPendingFuncs. *)
NeedsWakeup(t) == t # Loop \/ ~callingPendingFuncs_

(* The test after enqueue, and wakeup(). *)
QueueInLoopWake(t) ==
    /\ pc[t] = "linked"
    /\ wakeupFd' = IF NeedsWakeup(t) THEN wakeupFd + 1 ELSE wakeupFd
    /\ pc' = [pc EXCEPT ![t] = "idle"]
    /\ UNCHANGED <<slots, out, loopVars, calls>>

(* quit(): the flag is set; only another thread goes on to wakeup(). *)
Quit(t) ==
    /\ pc[t] = "idle"
    /\ MayCall(t)
    /\ ~quit_
    /\ quit_' = TRUE
    /\ pc' = [pc EXCEPT ![t] = IF t = Loop THEN "idle" ELSE "quitting"]
    /\ UNCHANGED <<slots, out, wakeupFd, callingPendingFuncs_, looping_, woken, lpc, calls, pended>>

QuitWake(t) ==
    /\ pc[t] = "quitting"
    /\ wakeupFd' = wakeupFd + 1
    /\ pc' = [pc EXCEPT ![t] = "idle"]
    /\ UNCHANGED <<slots, out, loopVars, calls>>

-----------------------------------------------------------------------------
(* loop().  The loop thread is inside at most one call of its own. *)

(* The entry of loop(). *)
LoopEnter ==
    /\ lpc = "created"
    /\ pc[Loop] = "idle"
    /\ looping_' = TRUE
    /\ quit_' = FALSE
    /\ lpc' = "check"
    /\ UNCHANGED <<slots, out, wakeupFd, callingPendingFuncs_, woken, pended, callVars>>

(* while (!quit_), and the exit of loop(). *)
LoopCheck ==
    /\ lpc = "check"
    /\ lpc' = IF quit_ THEN "exited" ELSE "poll"
    /\ looping_' = ~quit_
    /\ UNCHANGED <<slots, out, wakeupFd, callingPendingFuncs_, quit_, woken, pended, callVars>>

(* epoll_wait returns because the eventfd is readable. *)
PollWakeup ==
    /\ lpc = "poll"
    /\ wakeupFd > 0
    /\ woken' = TRUE
    /\ lpc' = "handle"
    /\ UNCHANGED <<slots, out, wakeupFd, callingPendingFuncs_, quit_, looping_, pended, callVars>>

(* epoll_wait returns for another channel or after kPollTimeMs. *)
PollOther ==
    /\ lpc = "poll"
    /\ wakeupFd = 0
    /\ lpc' = "handle"
    /\ UNCHANGED <<slots, out, wakeupFd, callingPendingFuncs_, quit_, looping_, woken, pended, callVars>>

(* handleEvent of wakeupChannelPtr_: the read resets the eventfd. *)
HandleRead ==
    /\ lpc = "handle"
    /\ pc[Loop] = "idle"
    /\ woken
    /\ wakeupFd' = 0
    /\ woken' = FALSE
    /\ UNCHANGED <<slots, out, callingPendingFuncs_, quit_, looping_, lpc, pended, callVars>>

(* The active channels are handled; doPendingFuncs is entered. *)
DoPendingFuncs ==
    /\ lpc = "handle"
    /\ pc[Loop] = "idle"
    /\ ~woken
    /\ callingPendingFuncs_' = TRUE
    /\ lpc' = "pending"
    /\ UNCHANGED <<slots, out, wakeupFd, quit_, looping_, woken, pended, callVars>>

(* while (!funcs_.empty()). *)
PendingCheck ==
    /\ lpc = "pending"
    /\ lpc' = IF funcs_!NothingVisible THEN "leave" ELSE "dequeue"
    /\ pended' = IF funcs_!NothingVisible THEN TRUE ELSE pended
    /\ UNCHANGED <<slots, out, wakeupFd, callingPendingFuncs_, quit_, looping_, woken, callVars>>

(* The exit of doPendingFuncs. *)
PendingExit ==
    /\ lpc = "leave"
    /\ callingPendingFuncs_' = FALSE
    /\ lpc' = "check"
    /\ UNCHANGED <<slots, out, wakeupFd, quit_, looping_, woken, pended, callVars>>

(* while (funcs_.dequeue(func)) succeeds. *)
PendingDequeue ==
    /\ lpc = "dequeue"
    /\ funcs_!Take
    /\ lpc' = "run"
    /\ UNCHANGED <<wakeupFd, callingPendingFuncs_, quit_, looping_, woken, pended, callVars>>

(* while (funcs_.dequeue(func)) fails. *)
PendingDrained ==
    /\ lpc = "dequeue"
    /\ funcs_!NothingVisible
    /\ lpc' = "pending"
    /\ UNCHANGED <<slots, out, wakeupFd, callingPendingFuncs_, quit_, looping_, woken, pended, callVars>>

(* func() returns. *)
FuncReturns ==
    /\ lpc = "run"
    /\ pc[Loop] = "idle"
    /\ lpc' = "dequeue"
    /\ UNCHANGED <<slots, out, wakeupFd, callingPendingFuncs_, quit_, looping_, woken, pended, callVars>>

CallSteps(t) == QueueInLoopLink(t) \/ QueueInLoopWake(t) \/ QuitWake(t)

LoopSteps == \/ LoopEnter \/ LoopCheck \/ PollWakeup \/ HandleRead \/ DoPendingFuncs
             \/ PendingCheck \/ PendingDequeue \/ PendingDrained \/ FuncReturns \/ PendingExit

Next == \/ \E t \in Callers : QueueInLoop(t) \/ Quit(t) \/ CallSteps(t)
        \/ LoopSteps
        \/ PollOther

Spec == Init /\ [][Next]_vars

(* A thread finishes the call it is in, callbacks and functors return, and *)
(* the loop thread takes its steps.  PollOther is not among them: no I/O   *)
(* need arrive, and a functor should not have to wait for the timeout.     *)
Fairness == /\ \A t \in Callers : WF_vars(CallSteps(t))
            /\ WF_vars(LoopSteps)

FairSpec == Spec /\ Fairness

-----------------------------------------------------------------------------
InCall(t) == pc[t] \in {"reserved", "linked"}

(* The loop never sleeps in epoll on a queued functor that nobody will     *)
(* wake it for: from the last test of the queue to the next poll a functor *)
(* in it was not visible (MpscQueue.h:65) or came later, and the wakeup    *)
(* (EventLoop.cpp:175-178) of some call is to come or already written.     *)
(* Before the first doPendingFuncs the uninitialised callingPendingFuncs_  *)
(* may have suppressed the wakeup of a functor the loop thread queued.     *)
NoLostWakeup ==
    /\ lpc \in {"leave", "check", "poll"}
    /\ pended
    /\ slots # <<>>
    => wakeupFd > 0 \/ \E t \in Threads : InCall(t)

(* A functor whose enqueue has begun. *)
Queued(f) == calls[f[1]] >= f[2]

Ran(f) == \E i \in 1..Len(out) : out[i] = f

(* Without any I/O or timeout, a functor queued by another thread, or by   *)
(* the loop thread once doPendingFuncs has run, is executed unless the     *)
(* loop is told to quit.  With the timeout of epoll_wait every functor is, *)
(* also one queued before loop() whose wakeup the uninitialised            *)
(* callingPendingFuncs_ (EventLoop.h:144) suppressed.                      *)
EveryFuncRunsUnlessQuit == \A f \in Funcs :
    /\ Queued(f) /\ pended ~> Ran(f) \/ quit_
    /\ WF_vars(PollOther) => (Queued(f) ~> Ran(f) \/ quit_)

-----------------------------------------------------------------------------
(* The inductive invariant behind NoLostWakeup. *)

(* A place that is not visible yet belongs to a call that will link it. *)
PlacesOwned ==
    /\ \A i \in 1..Len(slots) : ~slots[i].linked => pc[slots[i].by] = "reserved"
    /\ \A i, j \in 1..Len(slots) :
          ~slots[i].linked /\ ~slots[j].linked /\ slots[i].by = slots[j].by => i = j

(* The loop thread calls queueInLoop only where it runs user code. *)
LoopThreadBusy == pc[Loop] # "idle" => lpc \in {"created", "handle", "run"}

(* doPendingFuncs runs only inside loop(). *)
FirstPass == pended => lpc # "created"

IInv == /\ TypeOK
        /\ PlacesOwned
        /\ LoopThreadBusy
        /\ FirstPass
        /\ NoLostWakeup
=============================================================================
