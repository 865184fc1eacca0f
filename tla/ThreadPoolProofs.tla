--------------------------- MODULE ThreadPoolProofs ---------------------------
(***************************************************************************)
(* Proofs about ThreadPool, for any number of workers, clients and tasks:  *)
(* no worker sleeps over a waiting task, and stop() drains what was        *)
(* accepted before it.                                                     *)
(***************************************************************************)
EXTENDS ThreadPool, FiniteSetTheorems, TLAPS

(* What emplace_back and pop_front do to the deque. *)
LEMMA PushBack ==
    ASSUME NEW S, NEW s \in Seq(S), NEW e \in S
    PROVE  /\ Append(s, e) \in Seq(S)
           /\ Len(Append(s, e)) = Len(s) + 1
           /\ Len(s) \in Nat
           /\ \A i \in 1..Len(s) : Append(s, e)[i] = s[i]
           /\ Append(s, e)[Len(s) + 1] = e
           /\ Append(s, e) # <<>>
  OBVIOUS

LEMMA PopFront ==
    ASSUME NEW S, NEW s \in Seq(S), s # <<>>
    PROVE  /\ Tail(s) \in Seq(S)
           /\ Len(Tail(s)) = Len(s) - 1
           /\ Len(s) \in Nat \ {0}
           /\ \A i \in 1..(Len(s) - 1) : Tail(s)[i] = s[i + 1]
           /\ Head(s) = s[1]
           /\ Head(s) \in S
  OBVIOUS

-----------------------------------------------------------------------------
(* Type correctness is inductive by itself. *)
LEMMA TypeInit == Init => TypeOK
<1> SUFFICES ASSUME Init PROVE TypeOK
  OBVIOUS
<1>1. m_isStarted \in BOOLEAN
  BY Zenon DEF Init
<1> QED
  BY <1>1, MaxTasksAssumption DEF Init, TypeOK

LEMMA TypeStep == TypeOK /\ [Next]_vars => TypeOK'
<1> SUFFICES ASSUME TypeOK, [Next]_vars PROVE TypeOK'
  OBVIOUS
<1> USE DEF TypeOK, Goto, ghosts, adderVars, workerVars
<1>1. ASSUME NEW w \in Workers, WorkerSteps(w) \/ SpuriousWakeup(w) PROVE TypeOK'
  <2>1. m_isStarted' = m_isStarted
    BY <1>1 DEF WorkerSteps, LoopStarted, LoopTasks, TakeTask, TakeEmpty, TakeStarted, TakeWait,
                SpuriousWakeup, TaskReturns
  <2>2. m_isStarted' \in BOOLEAN
    BY <2>1, Zenon
  <2>3. CASE LoopStarted(w)
    BY <2>3, <2>2 DEF LoopStarted
  <2>4. CASE LoopTasks(w)
    BY <2>4, <2>2 DEF LoopTasks
  <2>5. CASE TakeTask(w)
    <3>1. Head(m_tasks) \in Tasks /\ Tail(m_tasks) \in Seq(Tasks)
      BY <2>5, PopFront DEF TakeTask
    <3>2. Head(m_tasks) # NoTask
      BY <3>1, NobodyAssumption DEF Tasks, Adders, NoTask
    <3> QED
      BY <3>1, <3>2, <2>5, <2>2 DEF TakeTask
  <2>6. CASE TakeEmpty(w)
    BY <2>6, <2>2 DEF TakeEmpty, Adders
  <2>7. CASE TakeStarted(w)
    BY <2>7, <2>2 DEF TakeStarted
  <2>8. CASE TakeWait(w)
    BY <2>8, <2>2 DEF TakeWait
  <2>9. CASE SpuriousWakeup(w)
    BY <2>9, <2>2 DEF SpuriousWakeup
  <2>10. CASE TaskReturns(w)
    <3>1. task[w] \in Tasks
      BY <2>10 DEF TaskReturns
    <3>2. done' \subseteq Tasks
      BY <2>10, <3>1 DEF TaskReturns
    <3> QED
      BY <3>2, <2>10, <2>2 DEF TaskReturns
  <2> QED
    BY <1>1, <2>3, <2>4, <2>5, <2>6, <2>7, <2>8, <2>9, <2>10 DEF WorkerSteps
<1>2. ASSUME NEW t \in Adders, AddCall(t) \/ AdderSteps(t) PROVE TypeOK'
  <2>1. m_isStarted' = m_isStarted
    BY <1>2 DEF AdderSteps, AddCall, AddLock, AddPush
  <2>2. m_isStarted' \in BOOLEAN
    BY <2>1, Zenon
  <2>3. CASE AddCall(t)
    BY <2>3, <2>2, MaxTasksAssumption DEF AddCall
  <2>4. CASE AddLock(t)
    BY <2>4, <2>2 DEF AddLock
  <2>5. CASE AddPush(t)
    <3> DEFINE k == <<t, adds[t]>>
    <3>1. adds[t] \in 1..MaxTasks
      BY <2>5, MaxTasksAssumption DEF AddPush
    <3>2. k \in Tasks
      BY <3>1 DEF Tasks
    <3> HIDE DEF k
    <3>3. m_tasks' \in Seq(Tasks)
      BY <3>2, <2>5, PushBack DEF AddPush, k
    <3>4. accepted' \subseteq Tasks /\ late' \subseteq Tasks
      BY <3>2, <2>5 DEF AddPush, k
    <3>5. wpc' \in [Workers -> {"check", "checkTasks", "lock", "started", "sleep", "waiting", "run", "exited"}]
          /\ \A w \in Workers : wpc'[w] = "run" => wpc[w] = "run"
      BY <2>5 DEF AddPush, NotifyOne, Waiting
    <3> QED
      BY <3>3, <3>4, <3>5, <2>5, <2>2 DEF AddPush
  <2> QED
    BY <1>2, <2>3, <2>4, <2>5 DEF AdderSteps
<1>3. CASE StopFlag
  <2>1. m_isStarted' \in BOOLEAN
    BY <1>3, Zenon DEF StopFlag
  <2> QED
    BY <2>1, <1>3 DEF StopFlag
<1>4. CASE OwnerSteps
  <2>1. m_isStarted' = m_isStarted
    BY <1>4 DEF OwnerSteps, StopNotify, StopReturn
  <2>2. m_isStarted' \in BOOLEAN
    BY <2>1, Zenon
  <2> QED
    BY <2>2, <1>4 DEF OwnerSteps, StopNotify, StopReturn
<1>5. CASE UNCHANGED vars
  <2>1. m_isStarted' \in BOOLEAN
    BY <1>5, Zenon DEF vars
  <2> QED
    BY <2>1, <1>5 DEF vars
<1> QED
  BY <1>1, <1>2, <1>3, <1>4, <1>5 DEF Next

-----------------------------------------------------------------------------
(* The mutex has one holder, and a worker on its way to m_cond.wait holds  *)
(* it with the deque empty.                                                *)
LEMMA MutexStep == TypeOK /\ MutexHeld /\ [Next]_vars => MutexHeld'
<1> SUFFICES ASSUME TypeOK, MutexHeld, [Next]_vars PROVE MutexHeld'
  OBVIOUS
<1> USE NobodyAssumption DEF TypeOK, MutexHeld, Goto, ghosts, adderVars, workerVars, Adders
<1>1. ASSUME NEW w \in Workers, WorkerSteps(w) \/ SpuriousWakeup(w) PROVE MutexHeld'
  <2>1. CASE LoopStarted(w)
    BY <2>1 DEF LoopStarted
  <2>2. CASE LoopTasks(w)
    BY <2>2 DEF LoopTasks
  <2>3. CASE TakeTask(w)
    BY <2>3 DEF TakeTask
  <2>4. CASE TakeEmpty(w)
    BY <2>4 DEF TakeEmpty
  <2>5. CASE TakeStarted(w)
    BY <2>5, SMTT(30) DEF TakeStarted
  <2>6. CASE TakeWait(w)
    BY <2>6 DEF TakeWait
  <2>7. CASE SpuriousWakeup(w)
    BY <2>7 DEF SpuriousWakeup
  <2>8. CASE TaskReturns(w)
    BY <2>8 DEF TaskReturns
  <2> QED
    BY <1>1, <2>1, <2>2, <2>3, <2>4, <2>5, <2>6, <2>7, <2>8 DEF WorkerSteps
<1>2. ASSUME NEW t \in Adders, AddCall(t) \/ AdderSteps(t) PROVE MutexHeld'
  <2>1. CASE AddCall(t)
    BY <2>1 DEF AddCall, InUserCode
  <2>2. CASE AddLock(t)
    BY <2>2 DEF AddLock
  <2>3. CASE AddPush(t)
    BY <2>3 DEF AddPush, NotifyOne, Waiting
  <2> QED
    BY <1>2, <2>1, <2>2, <2>3 DEF AdderSteps
<1>3. CASE StopFlag
  BY <1>3 DEF StopFlag
<1>4. CASE OwnerSteps
  BY <1>4 DEF OwnerSteps, StopNotify, StopReturn, Waiting
<1>5. CASE UNCHANGED vars
  BY <1>5 DEF vars
<1> QED
  BY <1>1, <1>2, <1>3, <1>4, <1>5 DEF Next

(* Workers leave threadLoop() only after stop() has cleared the flag. *)
LEMMA FlagStep == TypeOK /\ FlagCleared /\ [Next]_vars => FlagCleared'
<1> SUFFICES ASSUME TypeOK, FlagCleared, [Next]_vars PROVE FlagCleared'
  OBVIOUS
<1> USE DEF TypeOK, FlagCleared, Goto, ghosts, adderVars, workerVars
<1>1. ASSUME NEW w \in Workers, WorkerSteps(w) \/ SpuriousWakeup(w) PROVE FlagCleared'
  <2>1. CASE LoopStarted(w)
    BY <2>1 DEF LoopStarted
  <2>2. CASE LoopTasks(w)
    BY <2>2 DEF LoopTasks
  <2>3. CASE TakeTask(w) \/ TakeEmpty(w) \/ TakeStarted(w) \/ TakeWait(w) \/ SpuriousWakeup(w) \/ TaskReturns(w)
    BY <2>3 DEF TakeTask, TakeEmpty, TakeStarted, TakeWait, SpuriousWakeup, TaskReturns
  <2> QED
    BY <1>1, <2>1, <2>2, <2>3 DEF WorkerSteps
<1>2. ASSUME NEW t \in Adders, AddCall(t) \/ AdderSteps(t) PROVE FlagCleared'
  BY <1>2 DEF AdderSteps, AddCall, AddLock, AddPush, NotifyOne, Waiting
<1>3. CASE StopFlag
  BY <1>3 DEF StopFlag
<1>4. CASE OwnerSteps
  BY <1>4 DEF OwnerSteps, StopNotify, StopReturn, Waiting
<1>5. CASE UNCHANGED vars
  BY <1>5 DEF vars
<1> QED
  BY <1>1, <1>2, <1>3, <1>4, <1>5 DEF Next

-----------------------------------------------------------------------------
(* No accepted task is lost between the deque, the workers and done. *)
LEMMA KeptStep == TypeOK /\ MutexHeld /\ TaskKept /\ [Next]_vars => TaskKept'
<1> SUFFICES ASSUME TypeOK, MutexHeld, TaskKept, [Next]_vars, NEW k \in accepted'
             PROVE  \/ k \in done'
                    \/ \E i \in 1..Len(m_tasks') : m_tasks'[i] = k
                    \/ \E w \in Workers : wpc'[w] = "run" /\ task'[w] = k
  BY DEF TaskKept
<1> DEFINE Kept == \/ k \in done'
                   \/ \E i \in 1..Len(m_tasks') : m_tasks'[i] = k
                   \/ \E w \in Workers : wpc'[w] = "run" /\ task'[w] = k
<1> USE DEF TypeOK, Goto, ghosts, adderVars, workerVars
<1>1. ASSUME k \in accepted, done' = done, m_tasks' = m_tasks, task' = task,
             \A w \in Workers : wpc[w] = "run" => wpc'[w] = "run"
      PROVE  Kept
  BY <1>1 DEF TaskKept
<1>2. ASSUME NEW w \in Workers, WorkerSteps(w) \/ SpuriousWakeup(w) PROVE Kept
  <2>1. k \in accepted
    BY <1>2 DEF WorkerSteps, LoopStarted, LoopTasks, TakeTask, TakeEmpty, TakeStarted, TakeWait,
                SpuriousWakeup, TaskReturns
  <2>2. CASE LoopStarted(w) \/ LoopTasks(w)
    BY <2>1, <2>2, <1>1 DEF LoopStarted, LoopTasks
  <2>3. CASE TakeTask(w)
    <3>1. Head(m_tasks) = m_tasks[1] /\ Len(Tail(m_tasks)) = Len(m_tasks) - 1 /\ Len(m_tasks) \in Nat \ {0}
          /\ \A i \in 1..(Len(m_tasks) - 1) : Tail(m_tasks)[i] = m_tasks[i + 1]
      BY <2>3, PopFront DEF TakeTask
    <3>2. wpc'[w] = "run" /\ task'[w] = m_tasks[1] /\ m_tasks' = Tail(m_tasks) /\ done' = done
          /\ \A u \in Workers : u # w => wpc'[u] = wpc[u] /\ task'[u] = task[u]
      BY <2>3, <3>1 DEF TakeTask
    <3>3. CASE \E i \in 1..Len(m_tasks) : m_tasks[i] = k
      <4>1. PICK i \in 1..Len(m_tasks) : m_tasks[i] = k
        BY <3>3
      <4>2. CASE i = 1
        BY <4>1, <4>2, <3>2
      <4>3. CASE i # 1
        <5>1. i - 1 \in 1..Len(m_tasks') /\ m_tasks'[i - 1] = k
          BY <4>1, <4>3, <3>1, <3>2
        <5> QED
          BY <5>1
      <4> QED
        BY <4>2, <4>3
    <3>4. CASE \E u \in Workers : wpc[u] = "run" /\ task[u] = k
      <4>1. PICK u \in Workers : wpc[u] = "run" /\ task[u] = k
        BY <3>4
      <4>2. u # w
        BY <4>1, <2>3 DEF TakeTask
      <4> QED
        BY <4>1, <4>2, <3>2
    <3> QED
      BY <2>1, <3>2, <3>3, <3>4 DEF TaskKept
  <2>4. CASE TakeEmpty(w) \/ TakeStarted(w) \/ TakeWait(w) \/ SpuriousWakeup(w)
    BY <2>1, <2>4, <1>1 DEF TakeEmpty, TakeStarted, TakeWait, SpuriousWakeup
  <2>5. CASE TaskReturns(w)
    <3>1. done' = done \cup {task[w]} /\ m_tasks' = m_tasks
          /\ \A u \in Workers : u # w => wpc'[u] = wpc[u] /\ task'[u] = task[u]
      BY <2>5 DEF TaskReturns
    <3>2. CASE \E u \in Workers : wpc[u] = "run" /\ task[u] = k
      <4>1. PICK u \in Workers : wpc[u] = "run" /\ task[u] = k
        BY <3>2
      <4> QED
        BY <4>1, <3>1
    <3>3. CASE k \in done \/ \E i \in 1..Len(m_tasks) : m_tasks[i] = k
      BY <3>1, <3>3
    <3> QED
      BY <2>1, <3>2, <3>3 DEF TaskKept
  <2> QED
    BY <1>2, <2>2, <2>3, <2>4, <2>5 DEF WorkerSteps
<1>3. ASSUME NEW t \in Adders, AddCall(t) \/ AdderSteps(t) PROVE Kept
  <2>1. CASE AddCall(t) \/ AddLock(t)
    BY <2>1, <1>1 DEF AddCall, AddLock
  <2>2. CASE AddPush(t)
    <3> DEFINE e == <<t, adds[t]>>
    <3>1. e \in Tasks
      BY <2>2, MaxTasksAssumption DEF AddPush, Tasks
    <3>2. m_tasks' = Append(m_tasks, e) /\ done' = done /\ task' = task /\ accepted' = accepted \cup {e}
          /\ \A w \in Workers : wpc[w] = "run" => wpc'[w] = "run"
      BY <2>2 DEF AddPush, NotifyOne, Waiting
    <3> HIDE DEF e
    <3>3. /\ Len(m_tasks') = Len(m_tasks) + 1 /\ Len(m_tasks) \in Nat
          /\ \A i \in 1..Len(m_tasks) : m_tasks'[i] = m_tasks[i]
          /\ m_tasks'[Len(m_tasks) + 1] = e
      BY <3>1, <3>2, PushBack
    <3>4. CASE k = e
      <4>1. Len(m_tasks) + 1 \in 1..Len(m_tasks')
        BY <3>3
      <4> QED
        BY <4>1, <3>3, <3>4
    <3>5. CASE k \in accepted /\ \E i \in 1..Len(m_tasks) : m_tasks[i] = k
      <4>1. PICK i \in 1..Len(m_tasks) : m_tasks[i] = k
        BY <3>5
      <4>2. i \in 1..Len(m_tasks') /\ m_tasks'[i] = k
        BY <4>1, <3>3
      <4> QED
        BY <4>2
    <3>6. CASE k \in accepted /\ ~\E i \in 1..Len(m_tasks) : m_tasks[i] = k
      BY <3>2, <3>6 DEF TaskKept
    <3> QED
      BY <3>2, <3>4, <3>5, <3>6
  <2> QED
    BY <1>3, <2>1, <2>2 DEF AdderSteps
<1>4. CASE StopFlag
  BY <1>4, <1>1 DEF StopFlag
<1>5. CASE OwnerSteps
  BY <1>5, <1>1 DEF OwnerSteps, StopNotify, StopReturn, Waiting
<1>6. CASE UNCHANGED vars
  BY <1>6, <1>1 DEF vars
<1> QED
  BY <1>2, <1>3, <1>4, <1>5, <1>6 DEF Next

(* A worker that has left its loop left only tasks that came after stop(). *)
LEMMA ExitStep == TypeOK /\ FlagCleared /\ ExitLeavesOnlyLate /\ [Next]_vars => ExitLeavesOnlyLate'
<1> SUFFICES ASSUME TypeOK, FlagCleared, ExitLeavesOnlyLate, [Next]_vars,
                    NEW x \in Workers, wpc'[x] = "exited", NEW j \in 1..Len(m_tasks')
             PROVE  m_tasks'[j] \in late'
  BY DEF ExitLeavesOnlyLate
<1> DEFINE Goal == m_tasks'[j] \in late'
<1> USE DEF TypeOK, Goto, ghosts, adderVars, workerVars
<1>1. ASSUME wpc[x] = "exited", m_tasks' = m_tasks, late' = late PROVE Goal
  BY <1>1 DEF ExitLeavesOnlyLate
<1>2. ASSUME NEW w \in Workers, WorkerSteps(w) \/ SpuriousWakeup(w) PROVE Goal
  <2>1. CASE LoopTasks(w)
    <3>1. CASE m_tasks = <<>>
      BY <2>1, <3>1 DEF LoopTasks
    <3>2. CASE m_tasks # <<>>
      BY <2>1, <3>2, <1>1 DEF LoopTasks
    <3> QED
      BY <3>1, <3>2
  <2>2. CASE TakeTask(w)
    <3>1. /\ Len(Tail(m_tasks)) = Len(m_tasks) - 1 /\ Len(m_tasks) \in Nat \ {0}
          /\ \A i \in 1..(Len(m_tasks) - 1) : Tail(m_tasks)[i] = m_tasks[i + 1]
      BY <2>2, PopFront DEF TakeTask
    <3>2. wpc[x] = "exited" /\ m_tasks' = Tail(m_tasks) /\ late' = late
      BY <2>2 DEF TakeTask
    <3>3. m_tasks'[j] = m_tasks[j + 1] /\ j + 1 \in 1..Len(m_tasks)
      BY <3>1, <3>2
    <3> QED
      BY <3>2, <3>3 DEF ExitLeavesOnlyLate
  <2>3. CASE LoopStarted(w) \/ TakeEmpty(w) \/ TakeStarted(w) \/ TakeWait(w) \/ SpuriousWakeup(w) \/ TaskReturns(w)
    BY <2>3, <1>1 DEF LoopStarted, TakeEmpty, TakeStarted, TakeWait, SpuriousWakeup, TaskReturns
  <2> QED
    BY <1>2, <2>1, <2>2, <2>3 DEF WorkerSteps
<1>3. ASSUME NEW t \in Adders, AddCall(t) \/ AdderSteps(t) PROVE Goal
  <2>1. CASE AddCall(t) \/ AddLock(t)
    BY <2>1, <1>1 DEF AddCall, AddLock
  <2>2. CASE AddPush(t)
    <3> DEFINE e == <<t, adds[t]>>
    <3>1. e \in Tasks
      BY <2>2, MaxTasksAssumption DEF AddPush, Tasks
    <3>2. wpc[x] = "exited"
      BY <2>2 DEF AddPush, NotifyOne, Waiting
    <3>3. ~m_isStarted
      BY <3>2 DEF FlagCleared
    <3>4. m_tasks' = Append(m_tasks, e) /\ late' = late \cup {e}
      BY <2>2, <3>3 DEF AddPush
    <3> HIDE DEF e
    <3>5. /\ Len(m_tasks') = Len(m_tasks) + 1 /\ Len(m_tasks) \in Nat
          /\ \A i \in 1..Len(m_tasks) : m_tasks'[i] = m_tasks[i]
          /\ m_tasks'[Len(m_tasks) + 1] = e
      BY <3>1, <3>4, PushBack
    <3>6. CASE j = Len(m_tasks) + 1
      BY <3>4, <3>5, <3>6
    <3>7. CASE j # Len(m_tasks) + 1
      <4>1. j \in 1..Len(m_tasks) /\ m_tasks'[j] = m_tasks[j]
        BY <3>5, <3>7
      <4> QED
        BY <4>1, <3>2, <3>4 DEF ExitLeavesOnlyLate
    <3> QED
      BY <3>6, <3>7
  <2> QED
    BY <1>3, <2>1, <2>2 DEF AdderSteps
<1>4. CASE StopFlag
  BY <1>4, <1>1 DEF StopFlag
<1>5. CASE OwnerSteps
  BY <1>5, <1>1 DEF OwnerSteps, StopNotify, StopReturn, Waiting
<1>6. CASE UNCHANGED vars
  BY <1>6, <1>1 DEF vars
<1> QED
  BY <1>2, <1>3, <1>4, <1>5, <1>6 DEF Next

(* One notify_one() per task: each step keeps the count of seekers up with *)
(* the length of the deque as long as a worker sleeps.                     *)
LEMMA SleepStep == TypeOK /\ MutexHeld /\ NoSleepOverWork /\ [Next]_vars => NoSleepOverWork'
<1> SUFFICES ASSUME TypeOK, MutexHeld, NoSleepOverWork, [Next]_vars, Waiting' # {}
             PROVE  Len(m_tasks') <= Cardinality(Seekers')
  BY DEF NoSleepOverWork
<1> DEFINE Goal == Len(m_tasks') <= Cardinality(Seekers')
<1> USE DEF TypeOK, Goto, ghosts, adderVars, workerVars
<1>1. /\ Len(m_tasks) \in Nat
      /\ IsFiniteSet(Seekers) /\ Cardinality(Seekers) \in Nat
      /\ IsFiniteSet(Seekers') /\ Cardinality(Seekers') \in Nat
  <2>1. Seekers \subseteq Workers /\ Seekers' \subseteq Workers
    BY DEF Seekers
  <2>2. IsFiniteSet(Seekers) /\ IsFiniteSet(Seekers')
    BY <2>1, WorkersAssumption, FS_Subset
  <2>3. Cardinality(Seekers) \in Nat /\ Cardinality(Seekers') \in Nat
    BY <2>2, FS_CardinalityType
  <2> QED
    BY <2>2, <2>3
<1>2. ASSUME m_tasks' = m_tasks, Waiting # {}, Seekers \subseteq Seekers' PROVE Goal
  <2>1. Cardinality(Seekers) <= Cardinality(Seekers')
    BY <1>1, <1>2, FS_Subset
  <2> QED
    BY <1>1, <1>2, <2>1 DEF NoSleepOverWork
<1>3. ASSUME m_tasks' = <<>> PROVE Goal
  BY <1>1, <1>3
<1>4. ASSUME NEW w \in Workers, WorkerSteps(w) \/ SpuriousWakeup(w) PROVE Goal
  <2>1. CASE LoopTasks(w)
    <3>1. CASE m_tasks = <<>>
      BY <2>1, <3>1, <1>3 DEF LoopTasks
    <3>2. CASE m_tasks # <<>>
      BY <2>1, <3>2, <1>2 DEF LoopTasks, Seekers, Waiting
    <3> QED
      BY <3>1, <3>2
  <2>2. CASE TakeTask(w)
    <3>1. Len(m_tasks') = Len(m_tasks) - 1
      BY <2>2, PopFront DEF TakeTask
    <3>2. Seekers' = Seekers \ {w} /\ w \in Seekers /\ Waiting' = Waiting
      BY <2>2 DEF TakeTask, Seekers, Waiting
    <3>3. Cardinality(Seekers') = Cardinality(Seekers) - 1
      BY <3>2, <1>1, FS_RemoveElement
    <3> QED
      BY <3>1, <3>2, <3>3, <1>1 DEF NoSleepOverWork
  <2>3. CASE TakeWait(w)
    BY <2>3, <1>3 DEF TakeWait, MutexHeld
  <2>4. CASE LoopStarted(w) \/ TakeEmpty(w) \/ TakeStarted(w) \/ SpuriousWakeup(w) \/ TaskReturns(w)
    BY <2>4, <1>2 DEF LoopStarted, TakeEmpty, TakeStarted, SpuriousWakeup, TaskReturns, Seekers, Waiting
  <2> QED
    BY <1>4, <2>1, <2>2, <2>3, <2>4 DEF WorkerSteps
<1>5. ASSUME NEW t \in Adders, AddCall(t) \/ AdderSteps(t) PROVE Goal
  <2>1. CASE AddCall(t) \/ AddLock(t)
    BY <2>1, <1>2 DEF AddCall, AddLock, Seekers, Waiting
  <2>2. CASE AddPush(t)
    <3>1. <<t, adds[t]>> \in Tasks
      BY <2>2, MaxTasksAssumption DEF AddPush, Tasks
    <3>2. Len(m_tasks') = Len(m_tasks) + 1
      BY <2>2, <3>1, PushBack DEF AddPush
    <3>3. Waiting # {}
      BY <2>2 DEF AddPush, NotifyOne, Waiting
    <3>4. PICK w \in Waiting : Goto(w, "lock")
      BY <2>2, <3>3 DEF AddPush, NotifyOne
    <3>5. Seekers' = Seekers \cup {w} /\ w \notin Seekers
      BY <3>4 DEF Seekers, Waiting
    <3>6. Cardinality(Seekers') = Cardinality(Seekers) + 1
      BY <3>5, <1>1, FS_AddElement
    <3> QED
      BY <3>2, <3>3, <3>6, <1>1 DEF NoSleepOverWork
  <2> QED
    BY <1>5, <2>1, <2>2 DEF AdderSteps
<1>6. CASE StopFlag
  BY <1>6, <1>2 DEF StopFlag, Seekers, Waiting
<1>7. CASE OwnerSteps
  <2>1. CASE StopNotify
    BY <2>1 DEF StopNotify, Waiting
  <2>2. CASE StopReturn
    BY <2>2, <1>2 DEF StopReturn, Seekers, Waiting
  <2> QED
    BY <1>7, <2>1, <2>2 DEF OwnerSteps
<1>8. CASE UNCHANGED vars
  BY <1>8, <1>2 DEF vars, Seekers, Waiting
<1> QED
  BY <1>4, <1>5, <1>6, <1>7, <1>8 DEF Next

-----------------------------------------------------------------------------
(* The constructor establishes the inductive invariant. *)
LEMMA InitIInv == Init => IInv
<1> SUFFICES ASSUME Init PROVE IInv
  OBVIOUS
<1>1. TypeOK
  BY TypeInit
<1>2. MutexHeld /\ TaskKept /\ FlagCleared /\ ExitLeavesOnlyLate
  BY DEF Init, MutexHeld, Adders, TaskKept, FlagCleared, ExitLeavesOnlyLate
<1>3. NoSleepOverWork
  BY DEF Init, NoSleepOverWork, Waiting
<1> QED
  BY <1>1, <1>2, <1>3 DEF IInv

(* Every reachable state of the pool satisfies the inductive invariant. *)
THEOREM PoolIndInv == Spec => []IInv
<1>1. IInv /\ [Next]_vars => IInv'
  BY TypeStep, MutexStep, KeptStep, FlagStep, ExitStep, SleepStep DEF IInv
<1> QED
  BY <1>1, InitIInv, PTL DEF Spec

(* Every field of the pool keeps its type. *)
THEOREM PoolTypeCorrect == Spec => []TypeOK
<1>1. IInv => TypeOK
  BY DEF IInv
<1> QED
  BY <1>1, PoolIndInv, PTL

(* One notify_one() per task (ThreadPool.cc:75) never leaves more tasks    *)
(* than workers on their way while another worker sleeps in take().        *)
THEOREM WorkConservation == Spec => []NoSleepOverWork
<1>1. IInv => NoSleepOverWork
  BY DEF IInv
<1> QED
  BY <1>1, PoolIndInv, PTL

(* A worker that leaves threadLoop() (ThreadPool.cc:61) leaves no task     *)
(* that was accepted before stop() cleared m_isStarted.                    *)
THEOREM ExitSafety == Spec => []ExitLeavesOnlyLate
<1>1. IInv => ExitLeavesOnlyLate
  BY DEF IInv
<1> QED
  BY <1>1, PoolIndInv, PTL

(* When stop() returns (ThreadPool.cc:44-57), every task accepted before   *)
(* it cleared m_isStarted has been executed.                               *)
THEOREM DrainOnStop == Spec => []StopDrains
<1>1. IInv => StopDrains
  <2> SUFFICES ASSUME IInv, spc = "stopped", NEW k \in accepted \ late PROVE k \in done
    BY DEF StopDrains
  <2>1. \A w \in Workers : wpc[w] = "exited"
    BY DEF IInv, FlagCleared
  <2>2. \A i \in 1..Len(m_tasks) : m_tasks[i] # k
    BY <2>1, WorkersAssumption DEF IInv, ExitLeavesOnlyLate
  <2> QED
    BY <2>1, <2>2 DEF IInv, TaskKept
<1> QED
  BY <1>1, PoolIndInv, PTL
=============================================================================
