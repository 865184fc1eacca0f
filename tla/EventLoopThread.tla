--------------------------- MODULE EventLoopThread ---------------------------
(***************************************************************************)
(* src/EventLoopThread.cpp: an EventLoop on the stack of a thread of its   *)
(* own, and the handshake of three promises by which the owner learns the  *)
(* loop's address, starts it, and learns that it runs.  The owner is the   *)
(* thread that constructs, runs and destroys the EventLoopThread; the      *)
(* other threads use the loop it hands out with getLoop().                 *)
(***************************************************************************)
EXTENDS EventLoop

CONSTANT Owner   \* the owner of the EventLoopThread

ASSUME OwnerAssumption == Owner \in Threads

VARIABLES
    loop_,         \* loop_ # nullptr
    tpc,           \* where loopFuncs() is
    opc,           \* where the owner is
    pointerSet,    \* promiseForLoopPointer_ has its value
    runSet,        \* promiseForRun_ has its value
    loopSet        \* promiseForLoop_ has its value

handshake == <<pointerSet, runSet, loopSet>>
threadVars == <<loop_, tpc, opc, handshake>>
allVars == <<vars, threadVars>>

(* The functor loopFuncs() queues: promiseForLoop_.set_value(1). *)
PromiseFunc == <<Loop, 1>>

ThreadTypeOK ==
    /\ TypeOK
    /\ loop_ \in BOOLEAN
    /\ tpc \in {"start", "queued", "published", "looping", "cleared", "ended"}
    /\ opc \in {"ctor", "built", "waiting", "running", "wait", "quit", "join", "joined"}
    /\ pointerSet \in BOOLEAN /\ runSet \in BOOLEAN /\ loopSet \in BOOLEAN

ThreadInit ==
    /\ Init
    /\ loop_ = FALSE
    /\ tpc = "start"
    /\ opc = "ctor"
    /\ pointerSet = FALSE /\ runSet = FALSE /\ loopSet = FALSE

-----------------------------------------------------------------------------
(* loopFuncs(), on the loop thread. *)

(* EventLoop loop; loop.queueInLoop(...), whose steps are EventLoop's. *)
FuncsQueue ==
    /\ tpc = "start"
    /\ QueueInLoop(Loop)
    /\ tpc' = "queued"
    /\ UNCHANGED <<loop_, opc, handshake>>

(* promiseForLoopPointer_.set_value(&loop). *)
FuncsPublish ==
    /\ tpc = "queued"
    /\ pc[Loop] = "idle"
    /\ pointerSet' = TRUE
    /\ tpc' = "published"
    /\ UNCHANGED <<vars, loop_, opc, runSet, loopSet>>

(* promiseForRun_ has arrived: loop.loop(). *)
FuncsLoop ==
    /\ tpc = "published"
    /\ runSet
    /\ LoopEnter
    /\ tpc' = "looping"
    /\ UNCHANGED <<loop_, opc, handshake>>

(* loop() has returned: loop_ = NULL. *)
FuncsClear ==
    /\ tpc = "looping"
    /\ lpc = "exited"
    /\ loop_' = FALSE
    /\ tpc' = "cleared"
    /\ UNCHANGED <<vars, opc, handshake>>

(* loopFuncs() returns, which destroys the loop and ends the thread. *)
FuncsReturn ==
    /\ tpc = "cleared"
    /\ tpc' = "ended"
    /\ UNCHANGED <<vars, loop_, opc, handshake>>

(* The steps of loop(); a functor that is the promise's sets its value. *)
FuncsLoopStep ==
    /\ tpc = "looping"
    /\ LoopSteps
    /\ loopSet' = (loopSet \/ (FuncReturns /\ out[Len(out)] = PromiseFunc))
    /\ UNCHANGED <<loop_, tpc, opc, pointerSet, runSet>>

(* epoll_wait returns for I/O or by its timeout. *)
FuncsPollOther == tpc = "looping" /\ PollOther /\ UNCHANGED threadVars

-----------------------------------------------------------------------------
(* The owner. *)

(* The constructor returns once it has the pointer. *)
OwnerBuilt ==
    /\ opc = "ctor"
    /\ pointerSet
    /\ loop_' = TRUE
    /\ opc' = "built"
    /\ UNCHANGED <<vars, tpc, handshake>>

(* run(), also when the destructor is the first to call it. *)
OwnerRun ==
    /\ opc = "built"
    /\ runSet' = TRUE
    /\ opc' = "waiting"
    /\ UNCHANGED <<vars, loop_, tpc, pointerSet, loopSet>>

(* Mutant of OwnerRunReturns: run() does not wait for promiseForLoop_. *)
OwnerRunReturnsEarly ==
    opc = "waiting" /\ opc' = "running" /\ UNCHANGED <<vars, loop_, tpc, handshake>>

(* run() returns once promiseForLoop_ has its value. *)
OwnerRunReturns ==
    /\ opc = "waiting"
    /\ loopSet
    /\ opc' = "running"
    /\ UNCHANGED <<vars, loop_, tpc, handshake>>

(* wait(): joins the loop thread. *)
OwnerWait ==
    /\ opc = "running"
    /\ opc' = "wait"
    /\ UNCHANGED <<vars, loop_, tpc, handshake>>

(* Mutant of OwnerDestroy: the destructor does not call run() first. *)
OwnerDestroyUnrun ==
    opc = "built" /\ opc' = (IF loop_ THEN "quit" ELSE "join")
    /\ UNCHANGED <<vars, loop_, tpc, handshake>>

(* The destructor, after its run(): the test of loop_. *)
OwnerDestroy ==
    /\ opc = "running" \/ (opc = "wait" /\ tpc = "ended")
    /\ opc' = IF loop_ THEN "quit" ELSE "join"
    /\ UNCHANGED <<vars, loop_, tpc, handshake>>

(* The destructor: loop_->quit(), whose wakeup is QuitWake. *)
OwnerQuit ==
    /\ opc = "quit"
    /\ quit_' = TRUE
    /\ pc' = [pc EXCEPT ![Owner] = "quitting"]
    /\ opc' = "join"
    /\ UNCHANGED <<slots, out, wakeupFd, callingPendingFuncs_, looping_, woken, lpc, calls, pended,
                   loop_, tpc, handshake>>

(* The destructor: thread_.join() returns. *)
OwnerJoined ==
    /\ opc = "join"
    /\ pc[Owner] = "idle"
    /\ tpc = "ended"
    /\ opc' = "joined"
    /\ UNCHANGED <<vars, loop_, tpc, handshake>>

OwnerSteps == OwnerBuilt \/ OwnerRun \/ OwnerRunReturns \/ OwnerDestroy \/ OwnerQuit \/ OwnerJoined

-----------------------------------------------------------------------------
(* Another thread uses the loop it got from getLoop(). *)
OthersCall(t) ==
    /\ opc \notin {"ctor", "joined"}
    /\ loop_
    /\ QueueInLoop(t) \/ Quit(t)
    /\ UNCHANGED threadVars

(* Any thread finishes a call it is in. *)
CallContinues(t) == CallSteps(t) /\ UNCHANGED threadVars

(* User code that runs in the loop thread, in a callback or in a functor   *)
(* that is not the promise's, uses the loop.                               *)
LoopCalls ==
    /\ tpc = "looping"
    /\ lpc = "handle" \/ (lpc = "run" /\ out[Len(out)] # PromiseFunc)
    /\ QueueInLoop(Loop) \/ Quit(Loop)
    /\ UNCHANGED threadVars

FuncsSteps == FuncsQueue \/ FuncsPublish \/ FuncsLoop \/ FuncsLoopStep \/ FuncsClear \/ FuncsReturn

ThreadNext ==
    \/ FuncsSteps
    \/ FuncsPollOther
    \/ OwnerSteps
    \/ OwnerWait
    \/ LoopCalls
    \/ \E t \in Threads \ {Owner} : OthersCall(t)
    \/ \E t \in Callers : CallContinues(t)

ThreadSpec == ThreadInit /\ [][ThreadNext]_allVars

(* Every thread takes its steps; the owner, unless it waits, destroys the  *)
(* EventLoopThread in the end.  FuncsPollOther is not among them.          *)
ThreadFairness ==
    /\ WF_allVars(FuncsSteps)
    /\ WF_allVars(OwnerSteps)
    /\ \A t \in Callers : WF_allVars(CallContinues(t))

ThreadFairSpec == ThreadSpec /\ ThreadFairness

-----------------------------------------------------------------------------
(* "Make sure the event loop loops before returning." (EventLoopThread.cpp *)
(* :58): when run() has returned and nobody has told the loop to quit, the *)
(* loop thread is inside loop(), has run the promise's functor, and its    *)
(* loop_ is valid.                                                         *)
RunningMeansLooping ==
    opc = "running" =>
        /\ Ran(PromiseFunc)
        /\ ~quit_ => looping_ /\ tpc = "looping" /\ loop_

(* The owner's pointer is good when the destructor dereferences it         *)
(* (EventLoopThread.cpp:22-24): the thread clears loop_ only once somebody *)
(* told the loop to quit.                                                  *)
QuitPointerValid == opc = "quit" /\ ~quit_ => tpc = "looping" /\ loop_

(* The destructor's join returns by the wakeup of its quit() alone, also   *)
(* when other threads quit the loop as well.  As long as none does, run()  *)
(* returns too: no promise is waited for in vain, though its functor may   *)
(* have to wait for the timeout of epoll_wait, since callingPendingFuncs_  *)
(* may have suppressed its wakeup.                                         *)
DestructorReturns ==
    /\ opc \in {"quit", "join"} ~> opc = "joined"
    /\ WF_vars(PollOther) /\ [](quit_ => opc \in {"join", "joined"})
        => (opc \in {"ctor", "waiting", "quit", "join"} ~> opc \in {"running", "joined"})

(* "Run the event loop of the thread. This method doesn't block the        *)
(* current thread." (EventLoopThread.h:41-42): run() returns.  A quit()    *)
(* between EventLoop.cpp:129 and 131 makes loop() return before it ran the *)
(* promise's functor, and run() waits for it forever.                      *)
RunReturns == WF_vars(PollOther) => (opc = "waiting" ~> opc = "running")

-----------------------------------------------------------------------------
(* The inductive invariant behind the two.                                 *)

(* Each promise is set only after what it tells of.                        *)
Handshake ==
    /\ runSet <=> opc \notin {"ctor", "built"}
    /\ tpc \in {"looping", "cleared", "ended"} => runSet
    /\ loopSet => Ran(PromiseFunc) /\ tpc \in {"looping", "cleared", "ended"}
    /\ opc \in {"running", "wait", "quit", "join", "joined"} => loopSet

(* loop_ is the loop from the constructor's return until the thread leaves *)
(* the loop.                                                               *)
PointerHeld == loop_ <=> opc # "ctor" /\ tpc \notin {"cleared", "ended"}

(* The thread function and the loop it runs agree on where it is, and the  *)
(* loop is left only when it was told to quit.                             *)
ThreadInLoop ==
    /\ tpc \in {"start", "queued", "published"} <=> lpc = "created"
    /\ tpc \in {"cleared", "ended"} => lpc = "exited"
    /\ looping_ <=> lpc \notin {"created", "exited"}
    /\ lpc = "exited" => quit_
    /\ lpc = "run" => out # <<>>

(* The owner makes no call on the loop before its quit().                  *)
OwnerIdle == opc \notin {"join", "joined"} => pc[Owner] = "idle"

TInv == /\ IInv
        /\ ThreadTypeOK
        /\ Handshake
        /\ PointerHeld
        /\ ThreadInLoop
        /\ OwnerIdle
=============================================================================
