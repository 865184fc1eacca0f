------------------------------ MODULE Connector ------------------------------
(***************************************************************************)
(* src/Connector: makes one outgoing connection in the thread of a loop,   *)
(* over the Channel that watches the socket and the loop's queue of        *)
(* functors.  Users call start() from other threads and from the callbacks,*)
(* and drop their pointer to the connector when they like.                 *)
(*                                                                         *)
(* connect_ is TRUE from the first start() on; stop() and restart() are    *)
(* empty; the retry interval is left out with the time.                    *)
(***************************************************************************)
EXTENDS Naturals, Sequences, SequencesExt

CONSTANTS
    MaxStarts,   \* bound: calls of start(); each makes one socket at most
    None

ASSUME StartsAssumption ==
    /\ MaxStarts \in Nat \ {0}
    /\ None \notin 1..MaxStarts
    /\ None \notin {"connected", "error", "exit", "assert"}

VARIABLES
    retry_,
    status_,
    channelPtr_,     \* the socket of the channel, or None
    watched,         \* the socket registered with the poller, or None
    revents,         \* the events of the channel still to be dispatched
    lpc,             \* where the loop is: "poll", "events" or "functors"
    callback,        \* the user's callback that the loop thread is in, or None
    pendingFuncs,    \* functors queued: "start" (startInLoop), "reset"
    timers,          \* calls of startInLoop that wait in the Timer
    sockets,         \* socket -> "none", "open", "closed", "handed" over, or
                     \* "misused": closed or handed over when it was not open
    net,             \* socket -> what the network has answered
    userRef,         \* the user has a shared_ptr to the connector
    starts,          \* calls of start()
    ended,           \* "exit", a failed "assert", or None
    early, refused, answered   \* history: a start() came before the attempt before it
                               \* was over; sockets refused at once without retry;
                               \* starts the user has been called back for

loopVars == <<revents, lpc, callback>>
history == <<early, refused, answered>>
attemptVars == <<status_, channelPtr_, watched, timers, sockets>>
userVars == <<userRef, starts>>
vars == <<retry_, attemptVars, loopVars, pendingFuncs, net, userVars, ended, history>>

Sockets == 1..MaxStarts

(* startInLoop() and the reset of the channel. *)
Functors == {"start", "reset"}

TypeOK ==
    /\ status_ \in {"Disconnected", "Connecting", "Connected"}
    /\ channelPtr_ \in Sockets \cup {None} /\ watched \in Sockets \cup {None}
    /\ revents \subseteq {"HUP", "ERR", "OUT"}
    /\ lpc \in {"poll", "events", "functors"}
    /\ callback \in {"connected", "error", None}
    /\ pendingFuncs \in Seq(Functors)
    /\ sockets \in [Sockets -> {"none", "open", "closed", "handed", "misused"}]
    /\ net \in [Sockets -> {"pending", "ok", "self", "failed"}]

Init ==
    /\ retry_ \in BOOLEAN
    /\ status_ = "Disconnected"
    /\ channelPtr_ = None
    /\ watched = None
    /\ revents = {}
    /\ lpc = "poll"
    /\ callback = None
    /\ pendingFuncs = <<>>
    /\ timers = 0
    /\ sockets = [s \in Sockets |-> "none"]
    /\ net = [s \in Sockets |-> "pending"]
    /\ userRef = TRUE
    /\ starts = 0
    /\ ended = None
    /\ early = FALSE
    /\ refused = {}
    /\ answered = 0

(* The channel's callbacks and the Timer's functor hold the connector.     *)
Alive == userRef \/ channelPtr_ # None \/ timers > 0

-----------------------------------------------------------------------------
(* The end of a socket: close(2), or the user's callback that it is handed *)
(* to.  A descriptor that is not open any more may be someone else's.      *)
Ended(s, how) ==
    sockets' = [sockets EXCEPT ![s] = IF @ \in {"none", "open"} THEN how ELSE "misused"]

(* Mutant of retryLater: the socket is left open. *)
retryLaterOpen(s) ==
    /\ status_' = "Disconnected"
    /\ timers' = timers + 1
    /\ UNCHANGED sockets

(* retry(): close, and startInLoop after the interval. *)
retryLater(s) ==
    /\ Ended(s, "closed")
    /\ status_' = "Disconnected"
    /\ timers' = timers + 1

(* Either a retry or, without retry_, a close; status as given. *)
GiveUp(s, status) ==
    IF retry_ THEN retryLater(s)
    ELSE /\ Ended(s, "closed")
         /\ status_' = status
         /\ UNCHANGED timers

(* The descriptor of a new socket. *)
NewSocket == CHOOSE s \in Sockets : sockets[s] = "none" /\ \A r \in 1..(s - 1) : sockets[r] # "none"

(* startInLoop() and connect() in the loop thread: the two assertions, and *)
(* the answers of connect(2): under way, refused in a way that may be      *)
(* retried, or denied.                                                     *)
StartInLoop ==
    LET s == NewSocket
    IN \/ /\ status_ # "Disconnected"
          /\ ended' = "assert"
          /\ UNCHANGED <<attemptVars, callback, refused, answered>>
       \/ /\ status_ = "Disconnected" /\ channelPtr_ # None
          /\ ended' = "assert"
          /\ sockets' = [sockets EXCEPT ![s] = "open"]
          /\ status_' = "Connecting"
          /\ UNCHANGED <<channelPtr_, watched, callback, timers, refused, answered>>
       \/ /\ status_ = "Disconnected" /\ channelPtr_ = None
          /\ sockets' = [sockets EXCEPT ![s] = "open"]
          /\ status_' = "Connecting"
          /\ channelPtr_' = s
          /\ watched' = s
          /\ callback' = None
          /\ UNCHANGED <<timers, ended, refused, answered>>
       \/ /\ status_ = "Disconnected"
          /\ IF retry_ THEN retryLater(s) /\ UNCHANGED refused
             ELSE /\ sockets' = [sockets EXCEPT ![s] = "open"]
                  /\ refused' = refused \cup {s}
                  /\ UNCHANGED <<status_, timers>>
          /\ callback' = None
          /\ UNCHANGED <<channelPtr_, watched, ended, answered>>
       \/ /\ status_ = "Disconnected"
          /\ Ended(s, "closed")
          /\ callback' = "error"
          /\ answered' = answered + 1
          /\ UNCHANGED <<status_, channelPtr_, watched, timers, ended, refused>>

(* What is not over for a caller of start(): a callback, an attempt, a     *)
(* retry, a connection that was made, a turn of the loop that has events.  *)
UnderWay ==
    \/ callback # None \/ lpc # "poll"
    \/ "start" \in ToSet(pendingFuncs)
    \/ watched # None \/ timers > 0
    \/ status_ = "Connected"

(* start() in another thread queues the functor, which has a raw this.     *)
Start ==
    /\ userRef /\ starts < MaxStarts
    /\ starts' = starts + 1
    /\ early' = (early \/ UnderWay)
    /\ pendingFuncs' = Append(pendingFuncs, "start")
    /\ UNCHANGED <<retry_, attemptVars, loopVars, net, userRef, ended, refused, answered>>

(* The user drops its pointer, but not before what it started has run, and *)
(* not inside a callback.                                                  *)
Drop ==
    /\ userRef /\ "start" \notin ToSet(pendingFuncs)
    /\ callback = None
    /\ userRef' = FALSE
    /\ UNCHANGED <<retry_, attemptVars, loopVars, pendingFuncs, net, starts, ended, history>>

(* In a callback: start() runs at once, in the loop thread. *)
CallbackStart ==
    /\ callback # None /\ userRef /\ starts < MaxStarts
    /\ starts' = starts + 1
    /\ early' = (early \/ UnderWay)
    /\ StartInLoop
    /\ UNCHANGED <<retry_, revents, lpc, pendingFuncs, net, userRef>>

CallbackReturn ==
    /\ callback # None
    /\ callback' = None
    /\ UNCHANGED <<retry_, attemptVars, revents, lpc, pendingFuncs, net, userVars, ended, history>>

-----------------------------------------------------------------------------
(* The loop: the events of a poll, then functors until there are none. *)

Reported(s) ==
    CASE net[s] = "pending" -> {}
      [] net[s] \in {"ok", "self"} -> {"OUT"}
      [] net[s] = "failed" -> {"HUP", "ERR", "OUT"}

Poll ==
    /\ lpc = "poll"
    /\ LET ready == IF watched = None THEN {} ELSE Reported(watched)
       IN /\ ready # {} \/ pendingFuncs # <<>>
          /\ revents' = ready
    /\ lpc' = "events"
    /\ UNCHANGED <<retry_, attemptVars, callback, pendingFuncs, net, userVars, ended, history>>

(* Mutant of removeAndResetChannel: the channel is not reset. *)
removeOnly ==
    /\ watched' = None
    /\ UNCHANGED pendingFuncs

(* The channel is reset by a functor: it is in handleEvent() now. *)
removeAndResetChannel ==
    /\ watched' = None
    /\ pendingFuncs' = Append(pendingFuncs, "reset")

(* Mutant of handleError: the status is not tested. *)
handleErrorUntested ==
    /\ removeAndResetChannel
    /\ GiveUp(channelPtr_, "Disconnected")
    /\ callback' = "error"
    /\ answered' = answered + 1

(* Mutant of handleError: the user is not called back. *)
handleErrorSilent ==
    IF status_ = "Connecting"
    THEN /\ removeAndResetChannel
         /\ GiveUp(channelPtr_, "Disconnected")
         /\ UNCHANGED <<callback, answered>>
    ELSE UNCHANGED <<watched, pendingFuncs, sockets, status_, timers, callback, answered>>

(* The first of HUP and ERR ends the attempt, the others find it ended. *)
handleError ==
    IF status_ = "Connecting"
    THEN /\ removeAndResetChannel
         /\ GiveUp(channelPtr_, "Disconnected")
         /\ callback' = "error"
         /\ answered' = answered + 1
    ELSE UNCHANGED <<watched, pendingFuncs, sockets, status_, timers, callback, answered>>

(* handleWrite() reads SO_ERROR, which may have changed since the poll;    *)
(* without retry_ the status stays Connecting after a failure.             *)
handleWrite ==
    IF status_ = "Connecting"
    THEN /\ removeAndResetChannel
         /\ answered' = answered + 1
         /\ IF net[channelPtr_] \in {"failed", "self"}
            THEN GiveUp(channelPtr_, status_) /\ callback' = "error"
            ELSE /\ status_' = "Connected"
                 /\ Ended(channelPtr_, "handed")
                 /\ callback' = "connected"
                 /\ UNCHANGED timers
    ELSE UNCHANGED <<watched, pendingFuncs, sockets, status_, timers, callback, answered>>

(* handleEventWithGuard(): close, error and write callback, as reported.   *)
(* The assertion of handleWrite() fails for a status Connected.            *)
HandleEvent ==
    /\ lpc = "events" /\ callback = None
    /\ \/ /\ "HUP" \in revents
          /\ revents' = revents \ {"HUP"}
          /\ handleError
          /\ UNCHANGED ended
       \/ /\ "HUP" \notin revents /\ "ERR" \in revents
          /\ revents' = revents \ {"ERR"}
          /\ handleError
          /\ UNCHANGED ended
       \/ /\ revents = {"OUT"}
          /\ revents' = {}
          /\ handleWrite
          /\ ended' = IF status_ = "Connected" THEN "assert" ELSE None
    /\ UNCHANGED <<retry_, channelPtr_, lpc, net, userVars, early, refused>>

EventsDone ==
    /\ lpc = "events" /\ callback = None /\ revents = {}
    /\ lpc' = "functors"
    /\ UNCHANGED <<retry_, attemptVars, revents, callback, pendingFuncs, net, userVars, ended, history>>

FunctorStart ==
    /\ lpc = "functors" /\ callback = None /\ pendingFuncs # <<>> /\ Head(pendingFuncs) = "start"
    /\ pendingFuncs' = Tail(pendingFuncs)
    /\ StartInLoop
    /\ UNCHANGED <<retry_, revents, lpc, net, userVars, early>>

FunctorReset ==
    /\ lpc = "functors" /\ callback = None /\ pendingFuncs # <<>> /\ Head(pendingFuncs) = "reset"
    /\ pendingFuncs' = Tail(pendingFuncs)
    /\ channelPtr_' = None
    /\ UNCHANGED <<retry_, status_, watched, loopVars, timers, sockets, net, userVars, ended, history>>

FunctorsDone ==
    /\ lpc = "functors" /\ callback = None /\ pendingFuncs = <<>>
    /\ lpc' = "poll"
    /\ UNCHANGED <<retry_, attemptVars, revents, callback, pendingFuncs, net, userVars, ended, history>>

(* A retry: the Timer runs startInLoop() in a thread of its pool, where    *)
(* assertInLoopThread() ends the process.                                  *)
RetryFires ==
    /\ timers > 0
    /\ timers' = timers - 1
    /\ ended' = "exit"
    /\ UNCHANGED <<retry_, status_, channelPtr_, watched, loopVars, pendingFuncs, sockets, net, userVars, history>>

(* The peer or the network: an attempt succeeds, meets itself or fails, and *)
(* a connection that was made may be reset.                                *)
Answer(s) ==
    /\ watched = s
    /\ \/ net[s] = "pending" /\ \E n \in {"ok", "self", "failed"} : net' = [net EXCEPT ![s] = n]
       \/ net[s] = "ok" /\ net' = [net EXCEPT ![s] = "failed"]
    /\ UNCHANGED <<retry_, attemptVars, loopVars, pendingFuncs, userVars, ended, history>>

-----------------------------------------------------------------------------
LoopSteps == Poll \/ HandleEvent \/ EventsDone \/ FunctorStart \/ FunctorReset \/ FunctorsDone
                  \/ CallbackReturn

Next ==
    /\ ended = None
    /\ \/ Start \/ Drop \/ CallbackStart \/ RetryFires
       \/ LoopSteps
       \/ \E s \in Sockets : Answer(s)

Spec == Init /\ [][Next]_vars

(* The loop goes on, a callback returns, and the network answers at last   *)
(* (a timeout is an answer); a retry's time comes.                         *)
FairSpec == Spec /\ WF_vars(ended = None /\ LoopSteps)
                 /\ WF_vars(ended = None /\ RetryFires)
                 /\ \A s \in Sockets : WF_vars(ended = None /\ net[s] = "pending" /\ Answer(s))

-----------------------------------------------------------------------------
(* No socket is left behind: an open one is the one the poller watches for *)
(* this attempt, and the channel stays until its reset; only a refusal by  *)
(* connect(2) without retry_ (Connector.cpp:69) leaves one open.  And each *)
(* ends once: none is closed twice, closed after it was handed over or     *)
(* handed over when it was closed, though HUP, ERR and OUT of one poll each*)
(* call a handler that would.                                              *)
SocketsAccounted == ended = None =>
    /\ \A s \in Sockets : sockets[s] # "misused"
    /\ {s \in Sockets : sockets[s] = "open"} = refused \cup ({watched} \ {None})
    /\ watched # None => watched = channelPtr_ /\ status_ = "Connecting" /\ watched \notin refused

(* What the loop and the Timer run finds the connector: the channel that   *)
(* the reset is for holds it, and so does the functor of a retry.  The     *)
(* reset itself has a raw this (Connector.cpp:120).                        *)
FunctorsFindConnector == ended = None /\ (pendingFuncs # <<>> \/ revents # {}) => Alive

(* One attempt at a time never fails an assertion, whatever the network    *)
(* does between the poll and the handlers; except that an attempt whose    *)
(* failure only SO_ERROR tells leaves the status at Connecting without     *)
(* retry_, so that no other can be made (Connector.cpp:138).               *)
Stuck == ~retry_ /\ status_ = "Connecting" /\ channelPtr_ = None
AssertsOnlyWhenEarly == ended = "assert" => early \/ Stuck

(* Every start() that was made one at a time is answered by a callback,    *)
(* unless the socket was refused at once without retry_, or the process    *)
(* has ended.                                                              *)
StartsAnswered ==
    \A n \in 1..MaxStarts :
        starts = n ~> early \/ answered + Cardinality(refused) >= n \/ ended # None

-----------------------------------------------------------------------------
(* The inductive invariant behind the three.                               *)

StartsQueued == {i \in 1..Len(pendingFuncs) : pendingFuncs[i] = "start"}

AtMostOnce(f) ==
    \A i, j \in 1..Len(pendingFuncs) : pendingFuncs[i] = f /\ pendingFuncs[j] = f => i = j

(* Each start() makes one socket when its functor runs, in order.          *)
SocketsLeft ==
    /\ \E k \in 0..MaxStarts :
          /\ \A s \in Sockets : sockets[s] = "none" <=> s > k
          /\ k + Cardinality(StartsQueued) = starts
    /\ starts <= MaxStarts

(* A channel that is not watched any more has its one reset queued, and it *)
(* is reset before the next poll.                                          *)
ResetToCome ==
    /\ "reset" \in ToSet(pendingFuncs) => watched = None /\ channelPtr_ # None /\ lpc # "poll"
    /\ channelPtr_ # None /\ watched = None => "reset" \in ToSet(pendingFuncs)
    /\ AtMostOnce("reset")

(* Events are of the channel's attempt, or it is over without a connection.*)
EventsOfAttempt ==
    /\ lpc # "events" => revents = {}
    /\ revents # {} => channelPtr_ # None /\ status_ # "Connected"
    /\ revents # {} /\ status_ = "Connecting" => watched # None
    /\ status_ = "Connecting" /\ watched = None => ~retry_

(* The user keeps its pointer until its start() has run. *)
StartHasUser == "start" \in ToSet(pendingFuncs) => userRef

(* A start() made when nothing was under way finds nothing under way.      *)
OneAtATime == ~early =>
    /\ AtMostOnce("start")
    /\ "start" \in ToSet(pendingFuncs) =>
          callback = None /\ watched = None /\ channelPtr_ = None /\ status_ # "Connected"

CInv ==
    /\ TypeOK
    /\ AssertsOnlyWhenEarly
    /\ ended = None =>
          SocketsLeft /\ SocketsAccounted /\ ResetToCome /\ EventsOfAttempt /\ StartHasUser /\ OneAtATime
=============================================================================
