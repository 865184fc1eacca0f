------------------------------ MODULE ThreadPool ------------------------------
(***************************************************************************)
(* src/timer/thread_pool/ThreadPool.cc: a fixed set of worker threads, a   *)
(* deque of tasks behind a mutex and a condition variable, and the flag    *)
(* m_isStarted, which stop() and threadLoop() use without the mutex.       *)
(*                                                                         *)
(* Tasks are added by client threads and by the tasks themselves (the      *)
(* timer's tickers do); the owner calls stop().  The builds use -O0, so    *)
(* every read of m_isStarted is a load and a racing read of m_tasks.empty()*)
(* gives the answer of one of the moments it spans.                        *)
(***************************************************************************)
EXTENDS Naturals, Sequences, FiniteSets

CONSTANTS Workers,    \* the threads of m_threads
          Clients,    \* the other threads that call addTask
          Nobody,     \* the holder of a free mutex
          MaxTasks    \* bound: calls of addTask per thread

ASSUME WorkersAssumption == Workers # {} /\ IsFiniteSet(Workers)
ASSUME ClientsAssumption == Clients \cap Workers = {}
ASSUME NobodyAssumption == Nobody \notin Workers \cup Clients
ASSUME MaxTasksAssumption == MaxTasks \in Nat

Adders == Clients \cup Workers

(* The k-th task a thread adds. *)
Tasks == Adders \X (1..MaxTasks)
NoTask == <<Nobody, 0>>

VARIABLES
    m_isStarted,
    m_tasks,
    m_mutex,      \* the thread that holds it, or Nobody
    wpc,          \* per worker: where threadLoop() is; "waiting" is in m_cond's wait set
    task,         \* per worker: the task it executes
    apc,          \* per thread: where its call of addTask is
    adds,         \* per thread: calls of addTask begun
    spc,          \* where the owner's stop() is
    accepted,     \* ghost: the tasks addTask has put into m_tasks
    done,         \* ghost: the tasks that have been executed
    late          \* ghost: the tasks accepted after stop() cleared m_isStarted

workerVars == <<wpc, task>>
adderVars == <<apc, adds>>
ghosts == <<accepted, done, late>>
vars == <<m_isStarted, m_tasks, m_mutex, workerVars, adderVars, spc, ghosts>>

TypeOK ==
    /\ m_isStarted \in BOOLEAN
    /\ m_tasks \in Seq(Tasks)
    /\ m_mutex \in Adders \cup {Nobody}
    /\ wpc \in [Workers -> {"check", "checkTasks", "lock", "started", "sleep", "waiting", "run", "exited"}]
    /\ task \in [Workers -> Tasks \cup {NoTask}]
    /\ apc \in [Adders -> {"idle", "lock", "push"}]
    /\ adds \in [Adders -> 0..MaxTasks]
    /\ spc \in {"running", "notify", "join", "stopped"}
    /\ accepted \subseteq Tasks
    /\ done \subseteq Tasks
    /\ late \subseteq Tasks
    /\ \A w \in Workers : wpc[w] = "run" => task[w] # NoTask
    /\ \A t \in Adders : apc[t] # "idle" => adds[t] # 0

(* The constructor and start(). *)
Init ==
    /\ m_isStarted = TRUE
    /\ m_tasks = <<>>
    /\ m_mutex = Nobody
    /\ wpc = [w \in Workers |-> "check"]
    /\ task = [w \in Workers |-> NoTask]
    /\ apc = [t \in Adders |-> "idle"]
    /\ adds = [t \in Adders |-> 0]
    /\ spc = "running"
    /\ accepted = {}
    /\ done = {}
    /\ late = {}

Goto(w, point) == wpc' = [wpc EXCEPT ![w] = point]

(* A worker adds a task from inside the task it executes. *)
InUserCode(t) == t \in Workers => wpc[t] = "run"

-----------------------------------------------------------------------------
(* threadLoop() and take(). *)

(* Mutant of LoopStarted: a stopped pool is left without a look at m_tasks. *)
LoopStartedOnly(w) ==
    wpc[w] = "check" /\ Goto(w, IF m_isStarted THEN "lock" ELSE "exited")
    /\ UNCHANGED <<m_isStarted, m_tasks, m_mutex, task, adderVars, spc, ghosts>>

(* while (m_isStarted || ...) *)
LoopStarted(w) ==
    /\ wpc[w] = "check"
    /\ Goto(w, IF m_isStarted THEN "lock" ELSE "checkTasks")
    /\ UNCHANGED <<m_isStarted, m_tasks, m_mutex, task, adderVars, spc, ghosts>>

(* while (... || !m_tasks.empty()), read without the mutex. *)
LoopTasks(w) ==
    /\ wpc[w] = "checkTasks"
    /\ Goto(w, IF m_tasks = <<>> THEN "exited" ELSE "lock")
    /\ UNCHANGED <<m_isStarted, m_tasks, m_mutex, task, adderVars, spc, ghosts>>

(* take() with a task in the deque: pops it under the mutex. *)
TakeTask(w) ==
    /\ wpc[w] = "lock"
    /\ m_mutex = Nobody
    /\ m_tasks # <<>>
    /\ task' = [task EXCEPT ![w] = Head(m_tasks)]
    /\ m_tasks' = Tail(m_tasks)
    /\ Goto(w, "run")
    /\ UNCHANGED <<m_isStarted, m_mutex, adderVars, spc, ghosts>>

(* take() with an empty deque: the mutex is held when m_isStarted is read. *)
TakeEmpty(w) ==
    /\ wpc[w] = "lock"
    /\ m_mutex = Nobody
    /\ m_tasks = <<>>
    /\ m_mutex' = w
    /\ Goto(w, "started")
    /\ UNCHANGED <<m_isStarted, m_tasks, task, adderVars, spc, ghosts>>

(* while (... && m_isStarted): if not, take() returns an empty task. *)
TakeStarted(w) ==
    /\ wpc[w] = "started"
    /\ IF m_isStarted
         THEN Goto(w, "sleep") /\ UNCHANGED m_mutex
         ELSE Goto(w, "check") /\ m_mutex' = Nobody
    /\ UNCHANGED <<m_isStarted, m_tasks, task, adderVars, spc, ghosts>>

(* m_cond.wait(lock): joins the wait set and releases the mutex. *)
TakeWait(w) ==
    /\ wpc[w] = "sleep"
    /\ Goto(w, "waiting")
    /\ m_mutex' = Nobody
    /\ UNCHANGED <<m_isStarted, m_tasks, task, adderVars, spc, ghosts>>

(* m_cond.wait(lock) ends without a notification. *)
SpuriousWakeup(w) ==
    /\ wpc[w] = "waiting"
    /\ Goto(w, "lock")
    /\ UNCHANGED <<m_isStarted, m_tasks, m_mutex, task, adderVars, spc, ghosts>>

(* task() returns. *)
TaskReturns(w) ==
    /\ wpc[w] = "run"
    /\ apc[w] = "idle"
    /\ done' = done \cup {task[w]}
    /\ task' = [task EXCEPT ![w] = NoTask]
    /\ Goto(w, "check")
    /\ UNCHANGED <<m_isStarted, m_tasks, m_mutex, adderVars, spc, accepted, late>>

-----------------------------------------------------------------------------
(* addTask(task). *)

AddCall(t) ==
    /\ apc[t] = "idle"
    /\ InUserCode(t)
    /\ adds[t] < MaxTasks
    /\ adds' = [adds EXCEPT ![t] = @ + 1]
    /\ apc' = [apc EXCEPT ![t] = "lock"]
    /\ UNCHANGED <<m_isStarted, m_tasks, m_mutex, workerVars, spc, ghosts>>

(* The mutex is taken and m_isStarted read: a stopped pool refuses. *)
AddLock(t) ==
    /\ apc[t] = "lock"
    /\ m_mutex = Nobody
    /\ IF m_isStarted
         THEN m_mutex' = t /\ apc' = [apc EXCEPT ![t] = "push"]
         ELSE UNCHANGED m_mutex /\ apc' = [apc EXCEPT ![t] = "idle"]
    /\ UNCHANGED <<m_isStarted, m_tasks, workerVars, adds, spc, ghosts>>

(* The wait set of m_cond. *)
Waiting == {w \in Workers : wpc[w] = "waiting"}

(* Mutants of NotifyOne: only the first task of a deque is notified; none is. *)
NotifyOneWhenEmpty == IF m_tasks = <<>> /\ Waiting # {} THEN \E w \in Waiting : Goto(w, "lock")
                                                       ELSE UNCHANGED wpc
NotifyNone == UNCHANGED wpc

(* notify_one(): one waiting worker, if there is any, goes for the mutex. *)
NotifyOne == \/ \E w \in Waiting : Goto(w, "lock")
             \/ Waiting = {} /\ UNCHANGED wpc

(* m_tasks.emplace_back(task), notify_one() and the release of the mutex. *)
AddPush(t) ==
    /\ apc[t] = "push"
    /\ m_tasks' = Append(m_tasks, <<t, adds[t]>>)
    /\ NotifyOne
    /\ m_mutex' = Nobody
    /\ apc' = [apc EXCEPT ![t] = "idle"]
    /\ accepted' = accepted \cup {<<t, adds[t]>>}
    /\ late' = IF m_isStarted THEN late ELSE late \cup {<<t, adds[t]>>}
    /\ UNCHANGED <<m_isStarted, task, adds, spc, done>>

-----------------------------------------------------------------------------
(* stop(), called by the owner, or by its destructor. *)

(* m_isStarted = false, without the mutex. *)
StopFlag ==
    /\ spc = "running"
    /\ m_isStarted' = FALSE
    /\ spc' = "notify"
    /\ UNCHANGED <<m_tasks, m_mutex, workerVars, adderVars, ghosts>>

(* m_cond.notify_all(). *)
StopNotify ==
    /\ spc = "notify"
    /\ wpc' = [w \in Workers |-> IF w \in Waiting THEN "lock" ELSE wpc[w]]
    /\ spc' = "join"
    /\ UNCHANGED <<m_isStarted, m_tasks, m_mutex, task, adderVars, ghosts>>

(* The last of the joins returns; the threads are deleted. *)
StopReturn ==
    /\ spc = "join"
    /\ \A w \in Workers : wpc[w] = "exited"
    /\ spc' = "stopped"
    /\ UNCHANGED <<m_isStarted, m_tasks, m_mutex, workerVars, adderVars, ghosts>>

WorkerSteps(w) == \/ LoopStarted(w) \/ LoopTasks(w) \/ TakeTask(w) \/ TakeEmpty(w)
                  \/ TakeStarted(w) \/ TakeWait(w) \/ TaskReturns(w)

AdderSteps(t) == AddLock(t) \/ AddPush(t)

OwnerSteps == StopNotify \/ StopReturn

Next == \/ \E w \in Workers : WorkerSteps(w) \/ SpuriousWakeup(w)
        \/ \E t \in Adders : AddCall(t) \/ AdderSteps(t)
        \/ StopFlag
        \/ OwnerSteps

Spec == Init /\ [][Next]_vars

(* Every thread takes its steps, tasks return, and a stop() that has begun *)
(* goes on.  Nobody has to add a task or to call stop(), and a wakeup need *)
(* not be spurious; the strong fairness says that workers that wake for    *)
(* nothing over and over do not shut addTask out of the mutex forever.     *)
Fairness == /\ \A w \in Workers : WF_vars(WorkerSteps(w))
            /\ \A t \in Adders : SF_vars(AdderSteps(t))
            /\ WF_vars(OwnerSteps)

FairSpec == Spec /\ Fairness

-----------------------------------------------------------------------------
(* A worker that is awake and will look at m_tasks before it sleeps. *)
Seekers == {w \in Workers : wpc[w] \in {"check", "checkTasks", "lock", "started", "sleep"}}

(* One notify_one() per task (ThreadPool.cc:75) is enough: while a worker  *)
(* sleeps in take(), no more tasks wait than there are workers on their    *)
(* way to take them.                                                       *)
NoSleepOverWork == Waiting # {} => Len(m_tasks) <= Cardinality(Seekers)

(* The mutex-free loop condition (ThreadPool.cc:61) reads the flag before  *)
(* the deque: a worker that leaves its loop leaves nothing behind that was *)
(* accepted before stop() cleared the flag.                                *)
ExitLeavesOnlyLate ==
    (\E w \in Workers : wpc[w] = "exited") => \A i \in 1..Len(m_tasks) : m_tasks[i] \in late

(* "close only after the remaining tasks of the queue" (ThreadPool.h:41),  *)
(* for the tasks accepted before stop() cleared the flag: they have all    *)
(* been executed when stop() returns.                                      *)
StopDrains == spc = "stopped" => accepted \ late \subseteq done

(* An accepted task is executed, or the pool is told to stop. *)
AcceptedTaskRuns == \A k \in Tasks : k \in accepted ~> k \in done \/ ~m_isStarted

(* The same with no exception for stop(): the pool executes the tasks of   *)
(* its queue before it is gone (ThreadPool.h:41).  addTask's test and its  *)
(* emplace_back straddle stop()'s unlocked store: the task comes after the *)
(* workers have left.                                                      *)
StopLeavesNoTask == spc = "stopped" => m_tasks = <<>>

(* stop() returns (ThreadPool.h:41: it executes the queue's tasks, then    *)
(* destroys the pool).  But its store and notify_all (lines 41-42) can     *)
(* fall between a worker's test of the flag and its wait (lines 83-84).    *)
StopReturns == spc = "notify" ~> spc = "stopped"

-----------------------------------------------------------------------------
(* The inductive invariant behind NoSleepOverWork, ExitLeavesOnlyLate and   *)
(* StopDrains.                                                             *)

(* Who holds the mutex, and what it protects. *)
MutexHeld ==
    /\ \A w \in Workers : wpc[w] \in {"started", "sleep"} => m_mutex = w /\ m_tasks = <<>>
    /\ \A t \in Adders : apc[t] = "push" => m_mutex = t
    /\ \A w \in Workers : apc[w] # "idle" => wpc[w] = "run"

(* An accepted task is in the deque, with a worker, or done. *)
TaskKept == \A k \in accepted : \/ k \in done
                                \/ \E i \in 1..Len(m_tasks) : m_tasks[i] = k
                                \/ \E w \in Workers : wpc[w] = "run" /\ task[w] = k

(* stop() is what clears the flag; the workers leave only after that. *)
FlagCleared == /\ spc # "running" => ~m_isStarted
               /\ \A w \in Workers : wpc[w] \in {"checkTasks", "exited"} => ~m_isStarted
               /\ spc = "stopped" => \A w \in Workers : wpc[w] = "exited"

IInv == /\ TypeOK
        /\ MutexHeld
        /\ TaskKept
        /\ FlagCleared
        /\ ExitLeavesOnlyLate
        /\ NoSleepOverWork
=============================================================================
