-------------------------------- MODULE Timer --------------------------------
(***************************************************************************)
(* src/timer: the timer of all event loops.  A Timer has a hierarchy of    *)
(* TimingWheels, a DelayQueue of the buckets that are not empty, tickers   *)
(* that poll it, and a pool of threads that run what is due.               *)
(*                                                                         *)
(* The buckets of a wheel are copies of one TimerTaskList, made by resize()*)
(* (TimingWheel.cc:27), and the copy constructor shares root, mutex and    *)
(* flag (TimerTaskList.cc:35): a wheel has ONE list of entries, and of its *)
(* buckets only m_expiration and the address are their own.                *)
(***************************************************************************)
EXTENDS Integers, Sequences, FiniteSets, Bags, SequencesExt

CONSTANTS
    Tickers, Adders,      \* threads of the pool that tick, threads that add
    Tasks,
    m_tickMs, m_wheelSize,
    Wheels,               \* the most wheels that get created
    Delays,               \* delays of the calls of addByDelay
    MaxAddTime, MaxTime,  \* the last time of a call, and of the clock
    None

Levels == 0..(Wheels - 1)
Buckets == Levels \X (0..(m_wheelSize - 1))

(* The tick of an overflow wheel is the interval of the wheel below. *)
tick[l \in Levels] == IF l = 0 THEN m_tickMs ELSE tick[l - 1] * m_wheelSize
interval(l) == tick[l] * m_wheelSize

ASSUME TimerAssumption ==
    /\ m_tickMs \in Nat \ {0} /\ m_wheelSize \in Nat \ {0} /\ Wheels \in Nat \ {0}
    /\ Delays \subseteq Nat
    /\ MaxAddTime \in Nat /\ MaxTime \in Nat
    /\ IsFiniteSet(Tasks)

(* No task is beyond the last wheel. *)
ASSUME ReachAssumption == \A d \in Delays : MaxAddTime + d < interval(Wheels - 1)

ASSUME NamesAssumption ==
    Tickers \cap Adders = {} /\ None \notin Nat /\ None \notin Buckets

VARIABLES
    now,
    m_currentTime,   \* wheel -> its clock, None before it is created
    m_expiration,    \* bucket -> its expiration, -1 when the next entry is to offer it
    list,            \* wheel -> the entries linked in the list of its buckets
    where,           \* task -> the bucket its entry's list points to, or None
    m_taskCounter,
    m_queue,         \* the delay queue: a bag of buckets with the time to poll
    m_setFlag,       \* wheel -> the adder that has set the flag, or None
    m_rwMutex,       \* the threads that hold it: one ticker, or adders that share it
    kpc, kbucket,    \* where a ticker is, the bucket it has polled
    apc, atask,      \* where an adder is, its task
    due,             \* task -> its entry's m_expiration, None before the call
    ran,             \* task -> how often the thread pool was given it
    crashed,         \* a deleted entry was reached
    lost, overtaken, \* tasks whose setExpiration() found the flag busy; whether a
                     \* bucket got an entry of another round before it was flushed
    freed            \* tasks whose entry was deleted while it was linked

wheelVars == <<m_currentTime, m_expiration, list, where, m_taskCounter, m_queue, ran>>
adderVars == <<apc, atask>>
tickerVars == <<kpc, kbucket>>
history == <<lost, overtaken, freed>>
vars == <<now, wheelVars, m_setFlag, m_rwMutex, tickerVars, adderVars, due, crashed, history>>

Linked(l) == {list[l][i] : i \in DOMAIN list[l]}
Unlinked(l, t) == RemoveAt(list[l], CHOOSE i \in DOMAIN list[l] : list[l][i] = t)

TypeOK ==
    /\ now \in 0..MaxTime
    /\ m_currentTime \in [Levels -> Nat \cup {None}]
    /\ m_expiration \in [Buckets -> Nat \cup {-1}]
    /\ list \in [Levels -> Seq(Tasks)]
    /\ where \in [Tasks -> Buckets \cup {None}]
    /\ m_taskCounter \in Int
    /\ BagToSet(m_queue) \subseteq Nat \X Buckets /\ IsABag(m_queue)
    /\ m_setFlag \in [Levels -> Adders \cup {None}]
    /\ m_rwMutex \subseteq Tickers \cup Adders
    /\ kpc \in [Tickers -> {"tick", "wait", "flush"}]
    /\ kbucket \in [Tickers -> Buckets \cup {None}]
    /\ apc \in [Adders -> {"idle", "enter", "set", "busy", "offer", "unlock"}]
    /\ atask \in [Adders -> Tasks \cup {None}]
    /\ due \in [Tasks -> Nat \cup {None}]
    /\ ran \in [Tasks -> Nat]
    /\ crashed \in BOOLEAN /\ overtaken \in BOOLEAN
    /\ lost \subseteq Tasks /\ freed \subseteq Tasks

(* m_expiration of a bucket starts as time_entry<>(), below every time. *)
Init ==
    /\ now = 0
    /\ m_currentTime = [l \in Levels |-> IF l = 0 THEN 0 ELSE None]
    /\ m_expiration = [b \in Buckets |-> -1]
    /\ list = [l \in Levels |-> <<>>]
    /\ where = [t \in Tasks |-> None]
    /\ m_taskCounter = 0
    /\ m_queue = EmptyBag
    /\ m_setFlag = [l \in Levels |-> None]
    /\ m_rwMutex = {}
    /\ kpc = [k \in Tickers |-> "tick"]
    /\ kbucket = [k \in Tickers |-> None]
    /\ apc = [a \in Adders |-> "idle"]
    /\ atask = [a \in Adders |-> None]
    /\ due = [t \in Tasks |-> None]
    /\ ran = [t \in Tasks |-> 0]
    /\ crashed = FALSE
    /\ lost = {}
    /\ overtaken = FALSE
    /\ freed = {}

-----------------------------------------------------------------------------
(* TimingWheel. *)

floorTo(time, step) == time - (time % step)

(* Mutant of Created: an overflow wheel takes the clock below as it is. *)
CreatedUnaligned(exp) ==
    LET clock[l \in Levels] ==
            IF m_currentTime[l] # None THEN m_currentTime[l]
            ELSE IF clock[l - 1] = None \/ exp < clock[l - 1] + interval(l - 1) THEN None
            ELSE clock[l - 1]
    IN [l \in Levels |-> clock[l]]

(* The clocks with the overflow wheels that an expiration needs created:   *)
(* addOverflowWheel() starts each from the clock of the wheel below it.    *)
Created(exp) ==
    LET clock[l \in Levels] ==
            IF m_currentTime[l] # None THEN m_currentTime[l]
            ELSE IF clock[l - 1] = None \/ exp < clock[l - 1] + interval(l - 1) THEN None
            ELSE floorTo(clock[l - 1], tick[l])
    IN [l \in Levels |-> clock[l]]

(* add(): the first wheel that reaches as far as the expiration. *)
levelFor(exp) == CHOOSE l \in Levels :
    /\ Created(exp)[l] # None /\ exp < Created(exp)[l] + interval(l)
    /\ \A k \in 0..(l - 1) : exp >= Created(exp)[k] + interval(k)

(* Mutant of isDue: the end of the tick counts as due. *)
isDueAtEnd(exp) == exp <= m_currentTime[0] + m_tickMs

isDue(exp) == exp < m_currentTime[0] + m_tickMs

bucketFor(exp) == <<levelFor(exp), (exp \div tick[levelFor(exp)]) % m_wheelSize>>
startOf(exp) == floorTo(exp, tick[levelFor(exp)])     \* m_tickMs * virtualId

(* advanceClock() of a wheel and, if it moved, of the wheel above it to    *)
(* its new time.                                                           *)
Advanced(time) ==
    LET clock[l \in Levels] ==
            LET given == IF l = 0 THEN time ELSE clock[l - 1]
            IN IF /\ m_currentTime[l] # None
                  /\ l > 0 => given # m_currentTime[l - 1]
                  /\ given >= m_currentTime[l] + tick[l]
               THEN floorTo(given, tick[l])
               ELSE m_currentTime[l]
    IN [l \in Levels |-> clock[l]]

(* The round of its wheel for which a bucket gets the entry of a task. *)
roundOf(t, b) == floorTo(due[t], tick[b[1]])

(* Mutant of Placed: the entry is not taken off its list first. *)
PlacedTwice(t, b) ==
    /\ list' = [list EXCEPT ![b[1]] = Append(@, t)]
    /\ where' = [where EXCEPT ![t] = b]
    /\ m_taskCounter' = m_taskCounter + 1
    /\ UNCHANGED overtaken

(* TimerTaskList::add(): off the list it is on, at the end of this one. *)
Placed(t, b) ==
    LET off == IF where[t] = None THEN list
               ELSE [list EXCEPT ![where[t][1]] = Unlinked(where[t][1], t)]
    IN /\ list' = [off EXCEPT ![b[1]] = Append(@, t)]
       /\ where' = [where EXCEPT ![t] = b]
       /\ m_taskCounter' = IF where[t] = None THEN m_taskCounter + 1 ELSE m_taskCounter
       /\ overtaken' = \/ overtaken
                        \/ m_expiration[b] \notin {-1, roundOf(t, b)}
                        \/ \E s \in Tasks \ {t} : where[s] = b /\ roundOf(s, b) # roundOf(t, b)

Offer(exp, b) == m_queue (+) SetToBag({<<exp, b>>})

(* add() of the first wheel has no return where it hands the entry to the  *)
(* overflow wheel (TimingWheel.cc:69-75); what it returns is anything.  If *)
(* that reads as false, addTimerTaskEntry() runs the task and deletes the  *)
(* entry, which stays linked.                                              *)
Returned(t, b) ==
    \/ UNCHANGED <<ran, freed>>
    \/ /\ b[1] # 0
       /\ ran' = [ran EXCEPT ![t] = @ + 1]
       /\ freed' = freed \cup {t}

(* The last entry of a list, to which add() writes, and the first two,     *)
(* which remove() of the first writes to.                                  *)
lastOf(l) == {list[l][i] : i \in {Len(list[l])} \ {0}}
firstTwo(l) == {list[l][i] : i \in {1, 2} \cap DOMAIN list[l]}

-----------------------------------------------------------------------------
(* Timer::add() and its callers. *)

(* addByDelay(): reads the time, makes the entry. *)
AddByDelay(a) ==
    /\ apc[a] = "idle" /\ now <= MaxAddTime
    /\ \E t \in Tasks, d \in Delays :
          /\ due[t] = None
          /\ due' = [due EXCEPT ![t] = now + d]
          /\ atask' = [atask EXCEPT ![a] = t]
    /\ apc' = [apc EXCEPT ![a] = "enter"]
    /\ UNCHANGED <<now, wheelVars, m_setFlag, m_rwMutex, tickerVars, crashed, history>>

(* Shares the lock; an entry that is due goes to the thread pool, another  *)
(* into its bucket.                                                        *)
AddEntry(a) ==
    LET t == atask[a]
        b == bucketFor(due[t])
    IN /\ apc[a] = "enter"
       /\ m_rwMutex \cap Tickers = {}
       /\ IF isDue(due[t])
          THEN /\ ran' = [ran EXCEPT ![t] = @ + 1]
               /\ apc' = [apc EXCEPT ![a] = "idle"]
               /\ UNCHANGED <<m_currentTime, list, where, m_taskCounter, m_rwMutex, overtaken,
                              crashed>>
          ELSE /\ m_currentTime' = Created(due[t])
               /\ Placed(t, b)
               /\ apc' = [apc EXCEPT ![a] = "set"]
               /\ m_rwMutex' = m_rwMutex \cup {a}
               /\ crashed' = (lastOf(b[1]) \cap freed # {})
               /\ UNCHANGED ran
       /\ UNCHANGED <<now, m_expiration, m_queue, m_setFlag, tickerVars, atask, due, lost, freed>>

(* setExpiration(): with the flag set by another adder it reaches its end  *)
(* without a return, having changed nothing; what it returns is anything.  *)
AddTestFlag(a) ==
    LET l == where[atask[a]][1]
    IN /\ apc[a] = "set"
       /\ IF m_setFlag[l] = None
          THEN /\ m_setFlag' = [m_setFlag EXCEPT ![l] = a]
               /\ apc' = [apc EXCEPT ![a] = "busy"]
               /\ UNCHANGED lost
          ELSE /\ \E pc \in {"offer", "unlock"} : apc' = [apc EXCEPT ![a] = pc]
               /\ lost' = lost \cup {atask[a]}
               /\ UNCHANGED m_setFlag
       /\ UNCHANGED <<now, wheelVars, m_rwMutex, tickerVars, atask, due, crashed, overtaken,
                      freed>>

(* Mutant of AddSetExpiration: its result is the wrong way round. *)
AddSetExpirationInverted(a) ==
    LET b == where[atask[a]]
        start == startOf(due[atask[a]])
    IN /\ apc[a] = "busy"
       /\ m_setFlag' = [m_setFlag EXCEPT ![b[1]] = None]
       /\ m_expiration' = [m_expiration EXCEPT ![b] = start]
       /\ apc' = [apc EXCEPT ![a] = IF m_expiration[b] = start THEN "offer" ELSE "unlock"]
       /\ UNCHANGED <<now, m_currentTime, list, where, m_taskCounter, m_queue, ran, m_rwMutex,
                      tickerVars, atask, due, crashed, history>>

(* With the flag set, it exchanges the expiration and tells whether it was *)
(* another one.                                                            *)
AddSetExpiration(a) ==
    LET b == where[atask[a]]
        start == startOf(due[atask[a]])
    IN /\ apc[a] = "busy"
       /\ m_setFlag' = [m_setFlag EXCEPT ![b[1]] = None]
       /\ m_expiration' = [m_expiration EXCEPT ![b] = start]
       /\ apc' = [apc EXCEPT ![a] = IF m_expiration[b] # start THEN "offer" ELSE "unlock"]
       /\ UNCHANGED <<now, m_currentTime, list, where, m_taskCounter, m_queue, ran, m_rwMutex,
                      tickerVars, atask, due, crashed, history>>

(* offer() if the bucket's expiration is new; add() returns, and the lock  *)
(* is released.                                                            *)
AddReturn(a) ==
    LET t == atask[a]
    IN /\ apc[a] \in {"offer", "unlock"}
       /\ m_queue' = IF apc[a] = "offer" THEN Offer(due[t], where[t]) ELSE m_queue
       /\ apc' = [apc EXCEPT ![a] = "idle"]
       /\ m_rwMutex' = m_rwMutex \ {a}
       /\ Returned(t, where[t])
       /\ UNCHANGED <<now, m_currentTime, m_expiration, list, where, m_taskCounter, m_setFlag,
                      tickerVars, atask, due, crashed, lost, overtaken>>

-----------------------------------------------------------------------------
(* Ticker::startTick(), Timer::advanceClock(). *)

(* DelayQueue::poll(): the buckets it may return, an earliest one whose    *)
(* time has come.                                                          *)
Polled == {e \in BagToSet(m_queue) :
    e[1] <= now /\ \A f \in BagToSet(m_queue) : e[1] <= f[1]}

Take(e) == m_queue (-) SetToBag({e})

(* The first poll, without the lock. *)
TickerPoll(k) ==
    /\ kpc[k] = "tick"
    /\ \E e \in Polled :
          /\ m_queue' = Take(e)
          /\ kbucket' = [kbucket EXCEPT ![k] = e[2]]
    /\ kpc' = [kpc EXCEPT ![k] = "wait"]
    /\ UNCHANGED <<now, m_currentTime, m_expiration, list, where, m_taskCounter, ran, m_setFlag,
                   m_rwMutex, adderVars, due, crashed, history>>

(* The lock, and the clocks advance to the bucket's expiration. *)
TickerLock(k) ==
    LET b == kbucket[k]
    IN /\ kpc[k] = "wait"
       /\ m_rwMutex = {}
       /\ m_rwMutex' = {k}
       /\ m_currentTime' = Advanced(m_expiration[b])
       /\ kpc' = [kpc EXCEPT ![k] = "flush"]
       /\ UNCHANGED <<now, m_expiration, list, where, m_taskCounter, m_queue, ran, m_setFlag,
                      kbucket, adderVars, due, crashed, history>>

(* The entries that a turn of the loop of flush() reads or writes: those   *)
(* where the first is removed, and the last where it is added again.       *)
reached(k) ==
    LET l == kbucket[k][1]
        exp == due[Head(list[l])]
    IN firstTwo(l) \cup IF isDue(exp) THEN {} ELSE lastOf(bucketFor(exp)[1])

(* It comes to an entry that add() has deleted. *)
FlushFreed(k) ==
    /\ kpc[k] = "flush" /\ list[kbucket[k][1]] # <<>> /\ reached(k) \cap freed # {}
    /\ crashed' = TRUE
    /\ UNCHANGED <<now, wheelVars, m_setFlag, m_rwMutex, tickerVars, adderVars, due, history>>

(* One turn of the loop of flush().  remove() unlinks the first entry only *)
(* if it is this bucket's; addTimerTaskEntry() then runs and deletes it if *)
(* it is due, else puts it into the bucket for what is left of its time.   *)
FlushEntry(k) ==
    LET l == kbucket[k][1]
        t == Head(list[l])
        b == bucketFor(due[t])
        start == startOf(due[t])
    IN /\ kpc[k] = "flush" /\ list[l] # <<>> /\ reached(k) \cap freed = {}
       /\ IF isDue(due[t])
          THEN /\ ran' = [ran EXCEPT ![t] = @ + 1]
               /\ IF where[t] = kbucket[k]
                  THEN /\ list' = [list EXCEPT ![l] = Tail(@)]
                       /\ where' = [where EXCEPT ![t] = None]
                       /\ m_taskCounter' = m_taskCounter - 1
                       /\ UNCHANGED crashed
                  ELSE crashed' = TRUE /\ UNCHANGED <<list, where, m_taskCounter>>
               /\ UNCHANGED <<m_currentTime, m_expiration, m_queue, overtaken, freed>>
          ELSE /\ m_currentTime' = Created(due[t])
               /\ Placed(t, b)
               /\ m_expiration' = [m_expiration EXCEPT ![b] = start]
               /\ m_queue' = IF m_expiration[b] # start THEN Offer(due[t], b) ELSE m_queue
               /\ Returned(t, b)
               /\ UNCHANGED crashed
       /\ UNCHANGED <<now, m_setFlag, m_rwMutex, tickerVars, adderVars, due, lost>>

(* The end of flush() resets the expiration, so that the next entry offers *)
(* the bucket again.                                                       *)
Flushed(b) == [m_expiration EXCEPT ![b] = -1]

(* The end of flush(), and the next poll: with a bucket the clocks advance *)
(* and it is flushed, without one the lock is released.                    *)
FlushEnd(k) ==
    LET flushed == Flushed(kbucket[k])
    IN /\ kpc[k] = "flush" /\ list[kbucket[k][1]] = <<>>
       /\ m_expiration' = flushed
       /\ \/ /\ Polled = {}
             /\ m_rwMutex' = {}
             /\ kpc' = [kpc EXCEPT ![k] = "tick"]
             /\ kbucket' = [kbucket EXCEPT ![k] = None]
             /\ UNCHANGED <<m_currentTime, m_queue>>
          \/ \E e \in Polled :
             /\ m_queue' = Take(e)
             /\ kbucket' = [kbucket EXCEPT ![k] = e[2]]
             /\ m_currentTime' = Advanced(flushed[e[2]])
             /\ UNCHANGED <<m_rwMutex, kpc>>
       /\ UNCHANGED <<now, list, where, m_taskCounter, ran, m_setFlag, adderVars, due, crashed, history>>

-----------------------------------------------------------------------------
TimePasses ==
    /\ now < MaxTime
    /\ now' = now + 1
    /\ UNCHANGED <<wheelVars, m_setFlag, m_rwMutex, tickerVars, adderVars, due, crashed, history>>

AdderSteps(a) == AddEntry(a) \/ AddTestFlag(a) \/ AddSetExpiration(a) \/ AddReturn(a)
TickerSteps(k) ==
    TickerPoll(k) \/ TickerLock(k) \/ FlushEntry(k) \/ FlushFreed(k) \/ FlushEnd(k)

(* Nothing is said of what follows the use of a deleted entry. *)
Next ==
    /\ ~crashed
    /\ \/ TimePasses
       \/ \E a \in Adders : AddByDelay(a) \/ AdderSteps(a)
       \/ \E k \in Tickers : TickerSteps(k)

Spec == Init /\ [][Next]_vars

(* Time goes on; a call that has begun goes on; a ticker goes on.          *)
Fairness ==
    /\ WF_vars(~crashed /\ TimePasses)
    /\ \A a \in Adders : WF_vars(~crashed /\ AdderSteps(a))
    /\ \A k \in Tickers : WF_vars(~crashed /\ TickerSteps(k))

FairSpec == Spec /\ Fairness

-----------------------------------------------------------------------------
(* An entry is linked once, in the list of the wheel of its bucket, from   *)
(* its add until the task is given to the thread pool, which happens once; *)
(* m_taskCounter counts the linked ones.  Cascading from wheel to wheel    *)
(* and taking entries of another bucket in flush() keep that up.  Only an  *)
(* entry that add() has deleted for want of a return stays linked after.   *)
EntriesConserved == ~crashed =>
    /\ \A t \in Tasks :
          ran[t] = IF due[t] = None \/ (where[t] # None /\ t \notin freed)
                      \/ \E a \in Adders : apc[a] = "enter" /\ atask[a] = t
                   THEN 0 ELSE 1
    /\ \A l \in Levels :
          /\ \A i, j \in DOMAIN list[l] : i # j => list[l][i] # list[l][j]
          /\ Linked(l) = {t \in Tasks : where[t] # None /\ where[t][1] = l}
    /\ m_taskCounter = Cardinality({t \in Tasks : where[t] # None})

(* A task that waits will be looked at: its bucket is in the delay queue   *)
(* at a time less than a tick after the task's, is polled or is about to   *)
(* be offered.  Only the missing return of setExpiration() can lose it.    *)
NothingForgotten == ~crashed =>
    \A t \in Tasks : where[t] # None /\ t \notin lost =>
        \/ \E e \in BagToSet(m_queue) : e[2] = where[t] /\ e[1] < due[t] + tick[where[t][1]]
        \/ \E k \in Tickers : kpc[k] # "tick" /\ kbucket[k] = where[t]
        \/ \E a \in Adders : apc[a] \in {"set", "busy", "offer"} /\ where[atask[a]] = where[t]

(* No task runs a tick or more before its time, unless a bucket is used    *)
(* for another round before it has been flushed: between its poll and the  *)
(* lock (Timer.cc:79-83), or when an adder is slow to offer it; or unless  *)
(* one of the missing returns is at work: setExpiration() has found the    *)
(* flag busy, or add() read as false for the task (TimingWheel.cc:69).     *)
NeverATickEarly == [][~overtaken' /\ lost = {} =>
    \A t \in Tasks \ freed' : ran'[t] > ran[t] => due[t] < now + m_tickMs]_vars

(* The same of all tasks, as Timer.h:76 promises ("when its time has come  *)
(* it is executed").                                                       *)
NoTaskRunsEarly == [][~overtaken' /\ lost = {} =>
    \A t \in Tasks : ran'[t] > ran[t] => due[t] < now + m_tickMs]_vars

(* The clocks of the wheels agree: each is aligned to its tick and the     *)
(* clock below lies within its current tick.  add() relies on it: then an  *)
(* overflow wheel never refuses an entry, and no slot of a wheel serves    *)
(* two rounds at once.                                                     *)
ClocksAgree == \A l \in Levels : m_currentTime[l] # None =>
    /\ m_currentTime[l] % tick[l] = 0
    /\ l > 0 => /\ m_currentTime[l - 1] # None
                /\ m_currentTime[l] = floorTo(m_currentTime[l - 1], tick[l])

(* Every task runs, as long as no two buckets of a wheel have entries at   *)
(* the same time, setExpiration() never lacks its return (lost) and no     *)
(* deleted entry is reached (crashed).                                     *)
Apart == \A s, t \in Tasks :
    where[s] # None /\ where[t] # None /\ where[s][1] = where[t][1] => where[s] = where[t]

TasksRunIfApart ==
    [](Apart /\ lost = {} /\ ~crashed) => \A t \in Tasks : due[t] # None ~> ran[t] > 0

(* "如果延时时间到，则执行该任务" (Timer.h:76): when its time has come the task  *)
(* is executed.                                                            *)
TasksRun == \A t \in Tasks : due[t] # None ~> ran[t] > 0
=============================================================================
