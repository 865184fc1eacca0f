--------------------------- MODULE ConnectorProofs ---------------------------
(***************************************************************************)
(* Proofs about Connector, for any number of calls of start(): no socket   *)
(* is left open or closed twice, no functor outlives its connector, and    *)
(* the assertions hold as long as one attempt is made at a time.           *)
(***************************************************************************)
EXTENDS Connector, FiniteSetTheorems, TLAPS

-----------------------------------------------------------------------------
(* The queue of functors.                                                  *)

(* What is in the queue is at one of its places. *)
LEMMA QueueSet ==
    ASSUME NEW q \in Seq(Functors), NEW f
    PROVE  f \in ToSet(q) <=> \E i \in 1..Len(q) : q[i] = f
  BY DEF ToSet

(* What queueing a functor does. *)
LEMMA AppendFunctor ==
    ASSUME NEW q \in Seq(Functors), NEW f \in Functors
    PROVE  /\ Append(q, f) \in Seq(Functors)
           /\ Len(Append(q, f)) = Len(q) + 1
           /\ \A i \in 1..Len(q) : Append(q, f)[i] = q[i]
           /\ Append(q, f)[Len(q) + 1] = f
  OBVIOUS

(* What taking the first functor leaves. *)
LEMMA TailFunctors ==
    ASSUME NEW q \in Seq(Functors), q # <<>>
    PROVE  /\ Tail(q) \in Seq(Functors)
           /\ Len(Tail(q)) = Len(q) - 1
           /\ \A i \in 1..(Len(q) - 1) : Tail(q)[i] = q[i + 1]
           /\ Head(q) = q[1] /\ 1 \in 1..Len(q)
  OBVIOUS

(* A functor more. *)
LEMMA Queueing ==
    ASSUME pendingFuncs \in Seq(Functors), NEW f \in Functors, pendingFuncs' = Append(pendingFuncs, f)
    PROVE  /\ pendingFuncs' \in Seq(Functors)
           /\ \A g : g \in ToSet(pendingFuncs') <=> g \in ToSet(pendingFuncs) \/ g = f
           /\ \A g : AtMostOnce(g) /\ (g = f => g \notin ToSet(pendingFuncs)) => AtMostOnce(g)'
<1>1. /\ pendingFuncs' \in Seq(Functors)
      /\ Len(pendingFuncs') = Len(pendingFuncs) + 1 /\ Len(pendingFuncs) \in Nat
      /\ \A i \in 1..Len(pendingFuncs) : pendingFuncs'[i] = pendingFuncs[i]
      /\ pendingFuncs'[Len(pendingFuncs) + 1] = f
  BY AppendFunctor
<1>2. ASSUME NEW g
      PROVE  g \in ToSet(pendingFuncs') <=> g \in ToSet(pendingFuncs) \/ g = f
  <2>1. g \in ToSet(pendingFuncs') <=> \E i \in 1..Len(pendingFuncs') : pendingFuncs'[i] = g
    BY <1>1, QueueSet
  <2>2. g \in ToSet(pendingFuncs) <=> \E i \in 1..Len(pendingFuncs) : pendingFuncs[i] = g
    BY QueueSet
  <2>3. \A i \in 1..Len(pendingFuncs') : i \in 1..Len(pendingFuncs) \/ i = Len(pendingFuncs) + 1
    BY <1>1
  <2>4. Len(pendingFuncs) + 1 \in 1..Len(pendingFuncs') /\ 1..Len(pendingFuncs) \subseteq 1..Len(pendingFuncs')
    BY <1>1
  <2> QED
    BY <1>1, <2>1, <2>2, <2>3, <2>4
<1>3. ASSUME NEW g, AtMostOnce(g), g = f => g \notin ToSet(pendingFuncs)
      PROVE  AtMostOnce(g)'
  <2> SUFFICES ASSUME NEW i \in 1..Len(pendingFuncs'), NEW j \in 1..Len(pendingFuncs'),
                      pendingFuncs'[i] = g, pendingFuncs'[j] = g
               PROVE  i = j
    BY DEF AtMostOnce
  <2>1. \A n \in 1..Len(pendingFuncs') : n \in 1..Len(pendingFuncs) \/ n = Len(pendingFuncs) + 1
    BY <1>1
  <2>2. \A n \in 1..Len(pendingFuncs) : pendingFuncs[n] = g => g # f
    BY <1>3, QueueSet
  <2> QED
    BY <1>1, <1>3, <2>1, <2>2 DEF AtMostOnce
<1> QED
  BY <1>1, <1>2, <1>3

(* A functor less. *)
LEMMA Taking ==
    ASSUME pendingFuncs \in Seq(Functors), pendingFuncs # <<>>, pendingFuncs' = Tail(pendingFuncs)
    PROVE  /\ pendingFuncs' \in Seq(Functors)
           /\ Head(pendingFuncs) \in ToSet(pendingFuncs)
           /\ \A g : g \in ToSet(pendingFuncs') => g \in ToSet(pendingFuncs)
           /\ \A g : g \in ToSet(pendingFuncs) => g = Head(pendingFuncs) \/ g \in ToSet(pendingFuncs')
           /\ \A g : AtMostOnce(g) => AtMostOnce(g)' /\ (g = Head(pendingFuncs) => g \notin ToSet(pendingFuncs'))
<1>1. /\ pendingFuncs' \in Seq(Functors)
      /\ Len(pendingFuncs') = Len(pendingFuncs) - 1 /\ Len(pendingFuncs) \in Nat
      /\ \A i \in 1..Len(pendingFuncs') : pendingFuncs'[i] = pendingFuncs[i + 1]
      /\ Head(pendingFuncs) = pendingFuncs[1] /\ 1 \in 1..Len(pendingFuncs)
  BY TailFunctors
<1>2. \A i \in 1..Len(pendingFuncs') : i + 1 \in 1..Len(pendingFuncs) /\ i + 1 # 1
  BY <1>1
<1>3. \A i \in 1..Len(pendingFuncs) : i = 1 \/ (i - 1 \in 1..Len(pendingFuncs') /\ (i - 1) + 1 = i)
  BY <1>1
<1>4. \A g : g \in ToSet(pendingFuncs') <=> \E i \in 1..Len(pendingFuncs') : pendingFuncs'[i] = g
  BY <1>1, QueueSet
<1>5. \A g : g \in ToSet(pendingFuncs) <=> \E i \in 1..Len(pendingFuncs) : pendingFuncs[i] = g
  BY QueueSet
<1>6. ASSUME NEW g, g \in ToSet(pendingFuncs), g # Head(pendingFuncs)
      PROVE  g \in ToSet(pendingFuncs')
  <2> PICK i \in 1..Len(pendingFuncs) : pendingFuncs[i] = g
    BY <1>5, <1>6
  <2>1. i - 1 \in 1..Len(pendingFuncs') /\ pendingFuncs'[i - 1] = g
    BY <1>1, <1>3, <1>6
  <2> QED
    BY <1>4, <2>1
<1>7. ASSUME NEW g, AtMostOnce(g)
      PROVE  AtMostOnce(g)' /\ (g = Head(pendingFuncs) => g \notin ToSet(pendingFuncs'))
  <2>1. ASSUME NEW i \in 1..Len(pendingFuncs'), NEW j \in 1..Len(pendingFuncs'),
               pendingFuncs'[i] = g, pendingFuncs'[j] = g
        PROVE  i = j
    <3>1. i + 1 = j + 1
      BY <1>1, <1>2, <1>7, <2>1 DEF AtMostOnce
    <3> QED
      BY <3>1
  <2>2. ASSUME g = Head(pendingFuncs), NEW i \in 1..Len(pendingFuncs'), pendingFuncs'[i] = g
        PROVE  FALSE
    BY <1>1, <1>2, <1>7, <2>2 DEF AtMostOnce
  <2> QED
    BY <1>4, <2>1, <2>2 DEF AtMostOnce
<1> QED
  BY <1>1, <1>2, <1>4, <1>5, <1>6, <1>7

-----------------------------------------------------------------------------
(* Counting the calls of start() that are queued.                          *)

(* They are finitely many. *)
LEMMA StartsFinite ==
    ASSUME pendingFuncs \in Seq(Functors)
    PROVE  IsFiniteSet(StartsQueued) /\ Cardinality(StartsQueued) \in Nat
<1>1. Len(pendingFuncs) \in Nat
  OBVIOUS
<1>2. IsFiniteSet(1..Len(pendingFuncs))
  BY <1>1, FS_Interval
<1>3. StartsQueued \in SUBSET (1..Len(pendingFuncs))
  BY DEF StartsQueued
<1> QED
  BY <1>2, <1>3, FS_Subset, FS_CardinalityType

(* Queueing one adds one. *)
LEMMA StartQueued ==
    ASSUME pendingFuncs \in Seq(Functors), pendingFuncs' = Append(pendingFuncs, "start")
    PROVE  Cardinality(StartsQueued)' = Cardinality(StartsQueued) + 1
<1>1. /\ Len(pendingFuncs') = Len(pendingFuncs) + 1 /\ Len(pendingFuncs) \in Nat
      /\ \A i \in 1..Len(pendingFuncs) : pendingFuncs'[i] = pendingFuncs[i]
      /\ pendingFuncs'[Len(pendingFuncs) + 1] = "start"
  BY AppendFunctor DEF Functors
<1>2. StartsQueued' = StartsQueued \cup {Len(pendingFuncs) + 1}
  BY <1>1 DEF StartsQueued
<1>3. Len(pendingFuncs) + 1 \notin StartsQueued
  BY <1>1 DEF StartsQueued
<1> QED
  BY <1>2, <1>3, StartsFinite, FS_AddElement

(* Queueing a reset does not count. *)
LEMMA ResetQueued ==
    ASSUME pendingFuncs \in Seq(Functors), pendingFuncs' = Append(pendingFuncs, "reset")
    PROVE  StartsQueued' = StartsQueued
<1>1. /\ Len(pendingFuncs') = Len(pendingFuncs) + 1 /\ Len(pendingFuncs) \in Nat
      /\ \A i \in 1..Len(pendingFuncs) : pendingFuncs'[i] = pendingFuncs[i]
      /\ pendingFuncs'[Len(pendingFuncs) + 1] = "reset"
  BY AppendFunctor DEF Functors
<1> QED
  BY <1>1 DEF StartsQueued

(* Taking one takes it off the count. *)
LEMMA StartTaken ==
    ASSUME pendingFuncs \in Seq(Functors), pendingFuncs # <<>>, pendingFuncs' = Tail(pendingFuncs)
    PROVE  Cardinality(StartsQueued) =
             Cardinality(StartsQueued)' + (IF Head(pendingFuncs) = "start" THEN 1 ELSE 0)
<1>1. /\ Len(pendingFuncs') = Len(pendingFuncs) - 1 /\ Len(pendingFuncs) \in Nat
      /\ \A i \in 1..Len(pendingFuncs') : pendingFuncs'[i] = pendingFuncs[i + 1]
      /\ Head(pendingFuncs) = pendingFuncs[1] /\ 1 \in 1..Len(pendingFuncs)
  BY TailFunctors
<1> DEFINE S == StartsQueued \ {1}
           T == StartsQueued'
           f == [i \in T |-> i + 1]
<1>2. \A i \in T : i \in Nat /\ i + 1 \in S
  BY <1>1 DEF StartsQueued
<1>3. ASSUME NEW s \in S
      PROVE  \E i \in T : f[i] = s
  <2>1. s \in 2..Len(pendingFuncs) /\ pendingFuncs[s] = "start"
    BY <1>1 DEF StartsQueued
  <2>2. s - 1 \in 1..Len(pendingFuncs') /\ (s - 1) + 1 = s
    BY <1>1, <2>1
  <2>3. s - 1 \in T
    BY <1>1, <2>1, <2>2 DEF StartsQueued
  <2> QED
    BY <2>2, <2>3
<1>4. f \in Bijection(T, S)
  <2>1. f \in [T -> S]
    BY <1>2
  <2>2. \A i, j \in T : f[i] = f[j] => i = j
    BY <1>2
  <2> HIDE DEF f
  <2> QED
    BY <1>3, <2>1, <2>2 DEF Bijection, Injection, Surjection, IsInjective
<1>5. IsFiniteSet(T)
  <2>1. T \in SUBSET (1..Len(pendingFuncs')) /\ Len(pendingFuncs') \in Int
    BY <1>1 DEF StartsQueued
  <2>2. IsFiniteSet(1..Len(pendingFuncs'))
    BY <2>1, FS_Interval
  <2> HIDE DEF T
  <2> QED
    BY <2>1, <2>2, FS_Subset
<1>6. Cardinality(S) = Cardinality(T)
  BY <1>4, <1>5, FS_Bijection DEF ExistsBijection
<1>7. IsFiniteSet(StartsQueued) /\ Cardinality(StartsQueued) \in Nat
  BY StartsFinite
<1>8. 1 \in StartsQueued <=> Head(pendingFuncs) = "start"
  BY <1>1 DEF StartsQueued
<1> HIDE DEF S, T
<1>9. Cardinality(S) = IF 1 \in StartsQueued THEN Cardinality(StartsQueued) - 1 ELSE Cardinality(StartsQueued)
  BY <1>7, FS_RemoveElement DEF S
<1> QED
  BY <1>6, <1>7, <1>8, <1>9 DEF T

-----------------------------------------------------------------------------
(* One attempt.                                                            *)

(* The next socket is the first that was never made. *)
LEMMA NextSocket ==
    ASSUME NEW k \in Nat, k < MaxStarts, \A s \in Sockets : sockets[s] = "none" <=> s > k
    PROVE  NewSocket = k + 1 /\ k + 1 \in Sockets
<1>1. k + 1 \in Sockets /\ \A r \in 1..k : r \in Sockets
  BY StartsAssumption DEF Sockets
<1>2. sockets[k + 1] = "none" /\ \A r \in 1..((k + 1) - 1) : sockets[r] # "none"
  BY <1>1
<1>3. /\ NewSocket \in Sockets
      /\ sockets[NewSocket] = "none" /\ \A r \in 1..(NewSocket - 1) : sockets[r] # "none"
  BY <1>1, <1>2 DEF NewSocket
<1>4. NewSocket \in Nat /\ NewSocket > k
  BY <1>3, StartsAssumption DEF Sockets
<1>5. ~(k + 1 \in 1..(NewSocket - 1))
  BY <1>2, <1>3
<1> QED
  BY <1>1, <1>4, <1>5

(* A socket that is open, or just made, ends as the handler says. *)
LEMMA EndOfSocket ==
    ASSUME NEW s, sockets[s] \in {"none", "open"}, NEW how, Ended(s, how)
    PROVE  sockets' = [sockets EXCEPT ![s] = how]
  BY DEF Ended

(* What startInLoop() does: it fails an assertion, or it makes the next    *)
(* socket, and only an attempt that is under way changes the channel.      *)
LEMMA StartInLoopEffect ==
    ASSUME TypeOK, ended = None, SocketsAccounted, StartInLoop,
           NEW k \in Nat, k < MaxStarts, \A s \in Sockets : sockets[s] = "none" <=> s > k
    PROVE  /\ status_' \in {"Disconnected", "Connecting", "Connected"}
           /\ channelPtr_' \in Sockets \cup {None} /\ watched' \in Sockets \cup {None}
           /\ callback' \in {"connected", "error", None}
           /\ sockets' \in [Sockets -> {"none", "open", "closed", "handed", "misused"}]
           /\ \/ /\ ended' = "assert"
                 /\ \/ status_ # "Disconnected" /\ UNCHANGED <<status_, channelPtr_, watched>>
                    \/ channelPtr_ # None
              \/ /\ ended' = None /\ status_ = "Disconnected"
                 /\ \A s \in Sockets : sockets'[s] = "none" <=> s > k + 1
                 /\ SocketsAccounted'
                 /\ \/ channelPtr_ = None /\ channelPtr_' # None /\ watched' = channelPtr_' /\ status_' = "Connecting"
                    \/ UNCHANGED <<status_, channelPtr_, watched>>
<1> DEFINE s == NewSocket
<1>1. s = k + 1 /\ s \in Sockets /\ s # None /\ sockets[s] = "none"
  BY NextSocket, StartsAssumption DEF Sockets
<1> HIDE DEF s
<1>2. sockets \in [Sockets -> {"none", "open", "closed", "handed", "misused"}]
  BY DEF TypeOK
<1>3. ASSUME NEW c \in {"open", "closed"}, sockets' = [sockets EXCEPT ![s] = c]
      PROVE  /\ sockets' \in [Sockets -> {"none", "open", "closed", "handed", "misused"}]
             /\ \A r \in Sockets : sockets'[r] # "misused"
             /\ \A r \in Sockets : sockets'[r] = "none" <=> r > k + 1
             /\ {r \in Sockets : sockets'[r] = "open"} =
                  {r \in Sockets : sockets[r] = "open"} \cup (IF c = "open" THEN {s} ELSE {})
  <2>1. \A r \in Sockets : sockets'[r] = IF r = s THEN c ELSE sockets[r]
    BY <1>2, <1>3
  <2>2. sockets' \in [Sockets -> {"none", "open", "closed", "handed", "misused"}]
    BY <1>2, <1>3
  <2>3. \A r \in Sockets : sockets'[r] = "none" <=> r > k + 1
    BY <1>1, <2>1, StartsAssumption DEF Sockets
  <2>4. {r \in Sockets : sockets'[r] = "open"} =
          {r \in Sockets : sockets[r] = "open"} \cup (IF c = "open" THEN {s} ELSE {})
    BY <1>1, <2>1
  <2>5. \A r \in Sockets : sockets'[r] # "misused"
    BY <2>1 DEF SocketsAccounted
  <2> QED
    BY <2>2, <2>3, <2>4, <2>5
<1>4. /\ {r \in Sockets : sockets[r] = "open"} = refused \cup ({watched} \ {None})
      /\ \A r \in Sockets : sockets[r] # "misused"
      /\ watched # None => watched = channelPtr_ /\ status_ = "Connecting" /\ watched \notin refused
  BY DEF SocketsAccounted
<1>5. CASE status_ # "Disconnected" /\ ended' = "assert" /\ UNCHANGED <<attemptVars, callback, refused, answered>>
  BY <1>5 DEF TypeOK, attemptVars
<1>6. CASE /\ status_ = "Disconnected" /\ channelPtr_ # None
           /\ ended' = "assert"
           /\ sockets' = [sockets EXCEPT ![s] = "open"]
           /\ status_' = "Connecting"
           /\ UNCHANGED <<channelPtr_, watched, callback, timers, refused, answered>>
  BY <1>3, <1>6 DEF TypeOK
<1>7. CASE /\ status_ = "Disconnected" /\ channelPtr_ = None
           /\ sockets' = [sockets EXCEPT ![s] = "open"]
           /\ status_' = "Connecting"
           /\ channelPtr_' = s
           /\ watched' = s
           /\ callback' = None
           /\ UNCHANGED <<timers, ended, refused, answered>>
  <2>1. watched = None /\ s \notin refused
    BY <1>1, <1>4, <1>7
  <2>2. {r \in Sockets : sockets'[r] = "open"} = refused' \cup ({watched'} \ {None})
    BY <1>1, <1>3, <1>4, <1>7, <2>1
  <2>3. SocketsAccounted'
    BY <1>3, <1>7, <2>1, <2>2 DEF SocketsAccounted, Sockets
  <2> QED
    BY <1>1, <1>3, <1>7, <2>3
<1>8. CASE /\ status_ = "Disconnected"
           /\ IF retry_ THEN retryLater(s) /\ UNCHANGED refused
              ELSE /\ sockets' = [sockets EXCEPT ![s] = "open"]
                   /\ refused' = refused \cup {s}
                   /\ UNCHANGED <<status_, timers>>
           /\ callback' = None
           /\ UNCHANGED <<channelPtr_, watched, ended, answered>>
  <2>1. watched = None
    BY <1>4, <1>8
  <2>2. PICK c \in {"open", "closed"} :
          /\ sockets' = [sockets EXCEPT ![s] = c] /\ status_' = "Disconnected"
          /\ refused' = refused \cup (IF c = "open" THEN {s} ELSE {})
    BY <1>1, <1>8, EndOfSocket DEF retryLater
  <2>3. {r \in Sockets : sockets'[r] = "open"} = refused' \cup ({watched'} \ {None})
    BY <1>3, <1>4, <1>8, <2>1, <2>2
  <2>4. SocketsAccounted'
    BY <1>3, <1>8, <2>1, <2>2, <2>3 DEF SocketsAccounted, Sockets
  <2> QED
    BY <1>3, <1>8, <2>2, <2>4 DEF TypeOK
<1>9. CASE /\ status_ = "Disconnected"
           /\ Ended(s, "closed")
           /\ callback' = "error"
           /\ answered' = answered + 1
           /\ UNCHANGED <<status_, channelPtr_, watched, timers, ended, refused>>
  <2>1. watched = None /\ sockets' = [sockets EXCEPT ![s] = "closed"]
    BY <1>1, <1>4, <1>9, EndOfSocket
  <2>2. {r \in Sockets : sockets'[r] = "open"} = refused' \cup ({watched'} \ {None})
    BY <1>3, <1>4, <1>9, <2>1
  <2>3. SocketsAccounted'
    BY <1>3, <1>9, <2>1, <2>2 DEF SocketsAccounted, Sockets
  <2> QED
    BY <1>3, <1>9, <2>1, <2>3 DEF TypeOK
<1> QED
  BY <1>5, <1>6, <1>7, <1>8, <1>9 DEF StartInLoop, s

(* A handler that ends an attempt takes its socket from the poller and     *)
(* closes it or hands it over.                                             *)
LEMMA AttemptEnds ==
    ASSUME TypeOK, ended = None, SocketsAccounted, watched # None,
           NEW c \in {"closed", "handed"}, sockets' = [sockets EXCEPT ![channelPtr_] = c],
           watched' = None, refused' = refused,
           NEW k \in Nat, \A s \in Sockets : sockets[s] = "none" <=> s > k
    PROVE  /\ sockets' \in [Sockets -> {"none", "open", "closed", "handed", "misused"}]
           /\ \A s \in Sockets : sockets'[s] = "none" <=> s > k
           /\ SocketsAccounted'
<1>1. /\ {s \in Sockets : sockets[s] = "open"} = refused \cup {watched}
      /\ watched = channelPtr_ /\ watched \notin refused
  BY DEF SocketsAccounted
<1>2. sockets \in [Sockets -> {"none", "open", "closed", "handed", "misused"}] /\ watched \in Sockets
  BY DEF TypeOK
<1>3. \A s \in Sockets : sockets'[s] = IF s = watched THEN c ELSE sockets[s]
  BY <1>1, <1>2
<1>4. sockets[watched] = "open"
  BY <1>1, <1>2
<1>5. {s \in Sockets : sockets'[s] = "open"} = refused' \cup ({watched'} \ {None})
  BY <1>1, <1>3
<1>6. SocketsAccounted'
  BY <1>3, <1>5 DEF SocketsAccounted, Sockets
<1>7. \A s \in Sockets : sockets'[s] = "none" <=> s > k
  BY <1>2, <1>3, <1>4
<1> QED
  BY <1>2, <1>6, <1>7

-----------------------------------------------------------------------------
(* The steps.                                                              *)

(* The parts of the invariant while the process runs. *)
RunInv == /\ SocketsLeft /\ SocketsAccounted /\ ResetToCome /\ EventsOfAttempt /\ StartHasUser /\ OneAtATime

(* A start() in another thread: if it is not early nothing is under way,   *)
(* and the channel has been reset.                                         *)
LEMMA StartStep ==
    ASSUME CInv, ended = None, Start
    PROVE  CInv'
<1>1. /\ TypeOK /\ RunInv
      /\ userRef /\ starts < MaxStarts /\ starts' = starts + 1
      /\ early' = (early \/ UnderWay)
      /\ pendingFuncs' = Append(pendingFuncs, "start")
      /\ UNCHANGED <<retry_, status_, channelPtr_, watched, timers, sockets, revents, lpc, callback, net,
                     userRef, ended, refused, answered>>
  BY DEF CInv, RunInv, Start, attemptVars, loopVars
<1>2. pendingFuncs \in Seq(Functors) /\ "start" \in Functors
  BY <1>1 DEF TypeOK, Functors
<1>3. /\ pendingFuncs' \in Seq(Functors)
      /\ \A g : g \in ToSet(pendingFuncs') <=> g \in ToSet(pendingFuncs) \/ g = "start"
      /\ \A g : AtMostOnce(g) /\ (g = "start" => g \notin ToSet(pendingFuncs)) => AtMostOnce(g)'
  BY <1>1, <1>2, Queueing
<1>4. TypeOK'
  BY <1>1, <1>3 DEF TypeOK
<1>5. SocketsLeft'
  <2>1. PICK k \in 0..MaxStarts : /\ \A s \in Sockets : sockets[s] = "none" <=> s > k
                                  /\ k + Cardinality(StartsQueued) = starts
    BY <1>1 DEF RunInv, SocketsLeft
  <2>2. Cardinality(StartsQueued)' = Cardinality(StartsQueued) + 1 /\ Cardinality(StartsQueued) \in Nat
    BY <1>1, <1>2, StartQueued, StartsFinite
  <2>3. k + Cardinality(StartsQueued)' = starts'
    BY <1>1, <2>1, <2>2
  <2>4. starts' <= MaxStarts
    BY <1>1, <2>1, <2>2, StartsAssumption
  <2> QED
    BY <1>1, <2>1, <2>3, <2>4 DEF SocketsLeft, Sockets
<1>6. SocketsAccounted' /\ EventsOfAttempt' /\ StartHasUser'
  BY <1>1, <1>3 DEF RunInv, SocketsAccounted, EventsOfAttempt, StartHasUser, Sockets
<1>7. ResetToCome'
  BY <1>1, <1>3 DEF RunInv, ResetToCome
<1>8. OneAtATime'
  <2> SUFFICES ASSUME ~early'
               PROVE  /\ AtMostOnce("start")'
                      /\ callback' = None /\ watched' = None /\ channelPtr_' = None /\ status_' # "Connected"
    BY DEF OneAtATime
  <2>1. ~early /\ ~UnderWay
    BY <1>1
  <2>2. callback = None /\ watched = None /\ lpc = "poll" /\ "start" \notin ToSet(pendingFuncs)
        /\ status_ # "Connected"
    BY <2>1 DEF UnderWay
  <2>3. channelPtr_ = None
    BY <1>1, <2>2 DEF RunInv, ResetToCome
  <2> QED
    BY <1>1, <1>3, <2>1, <2>2, <2>3 DEF RunInv, OneAtATime
<1>9. AssertsOnlyWhenEarly'
  BY <1>1, StartsAssumption DEF AssertsOnlyWhenEarly
<1> QED
  BY <1>4, <1>5, <1>6, <1>7, <1>8, <1>9 DEF CInv

(* Steps that end nothing and queue nothing: the user's Drop, the return   *)
(* of a callback, the turns of the loop and the answers of the network.    *)
LEMMA TurnStep ==
    ASSUME CInv, ended = None,
           Drop \/ CallbackReturn \/ Poll \/ EventsDone \/ FunctorsDone \/ \E s \in Sockets : Answer(s)
    PROVE  CInv'
<1>1. /\ TypeOK /\ RunInv
      /\ UNCHANGED <<retry_, status_, channelPtr_, watched, timers, sockets, pendingFuncs, starts, ended,
                     early, refused, answered>>
      /\ callback' \in {callback, None}
  BY DEF CInv, RunInv, Drop, CallbackReturn, Poll, EventsDone, FunctorsDone, Answer, attemptVars, userVars,
         loopVars, history
<1>2. TypeOK'
  <2>1. revents' \subseteq {"HUP", "ERR", "OUT"}
    BY <1>1 DEF TypeOK, Drop, CallbackReturn, Poll, EventsDone, FunctorsDone, Answer, loopVars, Reported
  <2>2. lpc' \in {"poll", "events", "functors"}
    BY <1>1 DEF TypeOK, Drop, CallbackReturn, Poll, EventsDone, FunctorsDone, Answer, loopVars
  <2>3. net' \in [Sockets -> {"pending", "ok", "self", "failed"}]
    BY <1>1 DEF TypeOK, Drop, CallbackReturn, Poll, EventsDone, FunctorsDone, Answer
  <2> QED
    BY <1>1, <2>1, <2>2, <2>3 DEF TypeOK
<1>3. SocketsLeft' /\ SocketsAccounted' /\ AssertsOnlyWhenEarly'
  BY <1>1, StartsAssumption DEF RunInv, SocketsLeft, StartsQueued, SocketsAccounted, Sockets, AssertsOnlyWhenEarly
<1>4. ResetToCome'
  <2>1. lpc' = "poll" => lpc = "poll" \/ pendingFuncs = <<>>
    BY DEF Drop, CallbackReturn, Poll, EventsDone, FunctorsDone, Answer, loopVars
  <2>2. pendingFuncs = <<>> => "reset" \notin ToSet(pendingFuncs)
    BY DEF ToSet
  <2> QED
    BY <1>1, <2>1, <2>2 DEF RunInv, ResetToCome, AtMostOnce
<1>5. EventsOfAttempt'
  <2>1. \/ UNCHANGED revents /\ (lpc' = lpc \/ revents = {})
        \/ lpc' = "events" /\ (revents' # {} => watched # None)
    BY DEF Drop, CallbackReturn, Poll, EventsDone, FunctorsDone, Answer, loopVars,
           EventsOfAttempt, CInv
  <2>2. watched # None => channelPtr_ # None /\ status_ = "Connecting"
    BY <1>1 DEF RunInv, SocketsAccounted
  <2> QED
    BY <1>1, <2>1, <2>2 DEF RunInv, EventsOfAttempt
<1>6. StartHasUser'
  BY <1>1 DEF RunInv, StartHasUser, Drop, CallbackReturn, Poll, EventsDone, FunctorsDone, Answer, userVars
<1>7. OneAtATime'
  BY <1>1 DEF RunInv, OneAtATime, AtMostOnce
<1> QED
  BY <1>2, <1>3, <1>4, <1>5, <1>6, <1>7 DEF CInv

(* The functor that resets the channel is the only one, and the socket is  *)
(* not watched any more.                                                   *)
LEMMA ResetStep ==
    ASSUME CInv, ended = None, FunctorReset
    PROVE  CInv'
<1>1. /\ TypeOK /\ RunInv
      /\ lpc = "functors" /\ pendingFuncs # <<>> /\ Head(pendingFuncs) = "reset"
      /\ pendingFuncs' = Tail(pendingFuncs)
      /\ channelPtr_' = None
      /\ UNCHANGED <<retry_, status_, watched, revents, lpc, callback, timers, sockets, net, userRef, starts,
                     ended, early, refused, answered>>
  BY DEF CInv, RunInv, FunctorReset, loopVars, userVars, history
<1>2. pendingFuncs \in Seq(Functors)
  BY <1>1 DEF TypeOK
<1>3. /\ pendingFuncs' \in Seq(Functors)
      /\ "reset" \in ToSet(pendingFuncs)
      /\ \A g : g \in ToSet(pendingFuncs') => g \in ToSet(pendingFuncs)
      /\ \A g : AtMostOnce(g) => AtMostOnce(g)' /\ (g = "reset" => g \notin ToSet(pendingFuncs'))
  BY <1>1, <1>2, Taking
<1>4. watched = None /\ "reset" \notin ToSet(pendingFuncs') /\ AtMostOnce("reset")'
  BY <1>1, <1>3 DEF RunInv, ResetToCome
<1>5. TypeOK'
  BY <1>1, <1>3 DEF TypeOK
<1>6. SocketsLeft'
  <2>1. Cardinality(StartsQueued)' = Cardinality(StartsQueued)
    <3>1. Cardinality(StartsQueued) = Cardinality(StartsQueued)' + 0
      BY <1>1, <1>2, StartTaken
    <3>2. IsFiniteSet(StartsQueued') /\ Cardinality(StartsQueued') \in Nat
      <4>1. StartsQueued' \in SUBSET (1..Len(pendingFuncs')) /\ Len(pendingFuncs') \in Int
        BY <1>3 DEF StartsQueued
      <4>2. IsFiniteSet(1..Len(pendingFuncs'))
        BY <4>1, FS_Interval
      <4> QED
        BY <4>1, <4>2, FS_Subset, FS_CardinalityType
    <3> QED
      BY <3>1, <3>2
  <2> QED
    BY <1>1, <2>1 DEF RunInv, SocketsLeft, Sockets
<1>7. SocketsAccounted' /\ ResetToCome'
  BY <1>1, <1>4 DEF RunInv, SocketsAccounted, Sockets, ResetToCome
<1>8. EventsOfAttempt' /\ StartHasUser'
  BY <1>1, <1>3 DEF RunInv, EventsOfAttempt, StartHasUser
<1>9. OneAtATime'
  BY <1>1, <1>3 DEF RunInv, OneAtATime
<1>10. AssertsOnlyWhenEarly'
  BY <1>1, StartsAssumption DEF AssertsOnlyWhenEarly
<1> QED
  BY <1>5, <1>6, <1>7, <1>8, <1>9, <1>10 DEF CInv

(* A retry ends the process. *)
LEMMA RetryStep ==
    ASSUME CInv, ended = None, RetryFires
    PROVE  CInv'
<1>1. /\ ended' = "exit" /\ "exit" # None
      /\ UNCHANGED <<retry_, status_, channelPtr_, watched, revents, lpc, callback, pendingFuncs, sockets, net>>
  BY StartsAssumption DEF RetryFires, loopVars
<1>2. TypeOK'
  BY <1>1 DEF CInv, TypeOK
<1> QED
  BY <1>1, <1>2 DEF CInv, AssertsOnlyWhenEarly

(* The functor of a start() that was made alone finds the connector at     *)
(* rest, or stuck at Connecting.                                           *)
LEMMA FunctorStartStep ==
    ASSUME CInv, ended = None, FunctorStart
    PROVE  CInv'
<1>1. /\ TypeOK /\ RunInv
      /\ lpc = "functors" /\ pendingFuncs # <<>> /\ Head(pendingFuncs) = "start"
      /\ pendingFuncs' = Tail(pendingFuncs)
      /\ StartInLoop
      /\ UNCHANGED <<retry_, revents, lpc, net, userRef, starts, early>>
  BY DEF CInv, RunInv, FunctorStart, userVars
<1>2. pendingFuncs \in Seq(Functors)
  BY <1>1 DEF TypeOK
<1>3. /\ pendingFuncs' \in Seq(Functors)
      /\ "start" \in ToSet(pendingFuncs)
      /\ \A g : g \in ToSet(pendingFuncs') => g \in ToSet(pendingFuncs)
      /\ \A g : g \in ToSet(pendingFuncs) => g = "start" \/ g \in ToSet(pendingFuncs')
      /\ \A g : AtMostOnce(g) => AtMostOnce(g)' /\ (g = "start" => g \notin ToSet(pendingFuncs'))
  BY <1>1, <1>2, Taking
<1>4. PICK k \in 0..MaxStarts : /\ \A s \in Sockets : sockets[s] = "none" <=> s > k
                                /\ k + Cardinality(StartsQueued) = starts
  BY <1>1 DEF RunInv, SocketsLeft
<1>5. Cardinality(StartsQueued)' \in Nat /\ Cardinality(StartsQueued) = Cardinality(StartsQueued)' + 1
  <2>1. StartsQueued' \in SUBSET (1..Len(pendingFuncs')) /\ Len(pendingFuncs') \in Int
    BY <1>3 DEF StartsQueued
  <2>2. IsFiniteSet(1..Len(pendingFuncs'))
    BY <2>1, FS_Interval
  <2>3. Cardinality(StartsQueued') \in Nat
    BY <2>1, <2>2, FS_Subset, FS_CardinalityType
  <2>4. Cardinality(StartsQueued) = Cardinality(StartsQueued)' + 1
    BY <1>1, <1>2, StartTaken
  <2> QED
    BY <2>3, <2>4
<1>6. starts <= MaxStarts /\ k \in Nat /\ MaxStarts \in Nat
  BY <1>1, StartsAssumption DEF RunInv, SocketsLeft
<1>7. k < MaxStarts /\ k + 1 \in 0..MaxStarts /\ (k + 1) + Cardinality(StartsQueued)' = starts'
  BY <1>1, <1>4, <1>5, <1>6
<1>8. SocketsAccounted
  BY <1>1 DEF RunInv
<1>9. /\ status_' \in {"Disconnected", "Connecting", "Connected"}
      /\ channelPtr_' \in Sockets \cup {None} /\ watched' \in Sockets \cup {None}
      /\ callback' \in {"connected", "error", None}
      /\ sockets' \in [Sockets -> {"none", "open", "closed", "handed", "misused"}]
      /\ \/ /\ ended' = "assert"
            /\ \/ status_ # "Disconnected" /\ UNCHANGED <<status_, channelPtr_, watched>>
               \/ channelPtr_ # None
         \/ /\ ended' = None /\ status_ = "Disconnected"
            /\ \A s \in Sockets : sockets'[s] = "none" <=> s > k + 1
            /\ SocketsAccounted'
            /\ \/ channelPtr_ = None /\ channelPtr_' # None /\ watched' = channelPtr_' /\ status_' = "Connecting"
               \/ UNCHANGED <<status_, channelPtr_, watched>>
  BY <1>1, <1>4, <1>6, <1>7, <1>8, StartInLoopEffect
<1>10. TypeOK'
  BY <1>1, <1>3, <1>9 DEF TypeOK
<1>11. CASE ended' = "assert"
  <2>1. "assert" # None
    BY StartsAssumption
  <2>2. ASSUME ~early
        PROVE  Stuck'
    <3>1. watched = None /\ channelPtr_ = None /\ status_ # "Connected"
      BY <1>1, <1>3, <2>2 DEF RunInv, OneAtATime
    <3>2. status_ = "Connecting" /\ UNCHANGED <<status_, channelPtr_, watched>>
      BY <1>1, <1>9, <1>11, <2>1, <3>1 DEF TypeOK
    <3>3. ~retry_
      BY <1>1, <3>1, <3>2 DEF RunInv, EventsOfAttempt
    <3> QED
      BY <1>1, <3>1, <3>2, <3>3 DEF Stuck
  <2> QED
    BY <1>1, <1>10, <1>11, <2>1, <2>2 DEF CInv, AssertsOnlyWhenEarly
<1>12. CASE ended' = None
  <2>1. /\ status_ = "Disconnected"
        /\ \A s \in Sockets : sockets'[s] = "none" <=> s > k + 1
        /\ SocketsAccounted'
        /\ \/ channelPtr_ = None /\ channelPtr_' # None /\ watched' = channelPtr_' /\ status_' = "Connecting"
           \/ UNCHANGED <<status_, channelPtr_, watched>>
    BY <1>9, <1>12, StartsAssumption
  <2>2. SocketsLeft'
    BY <1>1, <1>6, <1>7, <2>1 DEF SocketsLeft, Sockets
  <2>3. ResetToCome'
    BY <1>1, <1>3, <2>1 DEF RunInv, ResetToCome
  <2>4. EventsOfAttempt' /\ StartHasUser'
    BY <1>1, <1>3, <2>1 DEF RunInv, EventsOfAttempt, StartHasUser
  <2>5. OneAtATime'
    BY <1>1, <1>3 DEF RunInv, OneAtATime
  <2> QED
    BY <1>10, <1>12, <2>1, <2>2, <2>3, <2>4, <2>5, StartsAssumption DEF CInv, AssertsOnlyWhenEarly
<1> QED
  BY <1>9, <1>11, <1>12

(* A start() in a callback is early. *)
LEMMA CallbackStartStep ==
    ASSUME CInv, ended = None, CallbackStart
    PROVE  CInv'
<1>1. /\ TypeOK /\ RunInv
      /\ userRef /\ starts < MaxStarts /\ starts' = starts + 1
      /\ early'
      /\ StartInLoop
      /\ UNCHANGED <<retry_, revents, lpc, pendingFuncs, net, userRef>>
  BY DEF CInv, RunInv, CallbackStart, UnderWay
<1>2. IsFiniteSet(StartsQueued) /\ Cardinality(StartsQueued) \in Nat
  BY <1>1, StartsFinite DEF TypeOK
<1>3. PICK k \in 0..MaxStarts : /\ \A s \in Sockets : sockets[s] = "none" <=> s > k
                                /\ k + Cardinality(StartsQueued) = starts
  BY <1>1 DEF RunInv, SocketsLeft
<1>4. k \in Nat /\ MaxStarts \in Nat
  BY StartsAssumption
<1>5. StartsQueued' = StartsQueued
  BY <1>1 DEF StartsQueued
<1>6. /\ k < MaxStarts /\ k + 1 \in 0..MaxStarts
      /\ (k + 1) + Cardinality(StartsQueued)' = starts' /\ starts' <= MaxStarts
  BY <1>1, <1>2, <1>3, <1>4, <1>5
<1>7. SocketsAccounted
  BY <1>1 DEF RunInv
<1>8. /\ status_' \in {"Disconnected", "Connecting", "Connected"}
      /\ channelPtr_' \in Sockets \cup {None} /\ watched' \in Sockets \cup {None}
      /\ callback' \in {"connected", "error", None}
      /\ sockets' \in [Sockets -> {"none", "open", "closed", "handed", "misused"}]
      /\ \/ ended' = "assert"
         \/ /\ ended' = None /\ status_ = "Disconnected"
            /\ \A s \in Sockets : sockets'[s] = "none" <=> s > k + 1
            /\ SocketsAccounted'
            /\ \/ channelPtr_ = None /\ channelPtr_' # None /\ watched' = channelPtr_' /\ status_' = "Connecting"
               \/ UNCHANGED <<status_, channelPtr_, watched>>
  BY <1>1, <1>3, <1>4, <1>6, <1>7, StartInLoopEffect
<1>9. TypeOK'
  BY <1>1, <1>8 DEF TypeOK
<1>10. AssertsOnlyWhenEarly'
  BY <1>1 DEF AssertsOnlyWhenEarly
<1>11. CASE ended' = "assert"
  BY <1>9, <1>10, <1>11, StartsAssumption DEF CInv
<1>12. CASE ended' = None
  <2>1. /\ status_ = "Disconnected"
        /\ \A s \in Sockets : sockets'[s] = "none" <=> s > k + 1
        /\ SocketsAccounted'
        /\ \/ channelPtr_ = None /\ channelPtr_' # None /\ watched' = channelPtr_' /\ status_' = "Connecting"
           \/ UNCHANGED <<status_, channelPtr_, watched>>
    BY <1>8, <1>12, StartsAssumption
  <2>2. SocketsLeft'
    BY <1>6, <2>1 DEF SocketsLeft, Sockets
  <2>3. ResetToCome'
    BY <1>1, <2>1 DEF RunInv, ResetToCome, AtMostOnce
  <2>4. EventsOfAttempt' /\ StartHasUser' /\ OneAtATime'
    BY <1>1, <2>1 DEF RunInv, EventsOfAttempt, StartHasUser, OneAtATime
  <2> QED
    BY <1>9, <1>10, <2>1, <2>2, <2>3, <2>4 DEF CInv
<1> QED
  BY <1>8, <1>11, <1>12

(* The handlers: the first that finds the attempt under way ends it, and   *)
(* the ones after it find it ended.                                        *)
LEMMA EventStep ==
    ASSUME CInv, ended = None, HandleEvent
    PROVE  CInv'
<1>1. /\ TypeOK /\ RunInv
      /\ lpc = "events" /\ revents # {} /\ revents' \subseteq revents
      /\ UNCHANGED <<retry_, channelPtr_, lpc, net, userRef, starts, early, refused>>
  BY DEF CInv, RunInv, HandleEvent, userVars
<1>2. channelPtr_ # None /\ status_ # "Connected" /\ (status_ = "Connecting" => watched # None)
  BY <1>1 DEF RunInv, EventsOfAttempt
<1>3. ended' = None
  BY <1>2 DEF HandleEvent
<1>4. AssertsOnlyWhenEarly'
  BY <1>3, StartsAssumption DEF AssertsOnlyWhenEarly
<1>5. revents' \subseteq {"HUP", "ERR", "OUT"}
  BY <1>1 DEF TypeOK
<1>6. CASE status_ # "Connecting"
  <2>1. UNCHANGED <<watched, pendingFuncs, sockets, status_, callback>>
    BY <1>6 DEF HandleEvent, handleError, handleWrite
  <2>2. TypeOK'
    BY <1>1, <1>5, <2>1 DEF TypeOK
  <2>3. SocketsLeft' /\ SocketsAccounted'
    BY <1>1, <1>3, <2>1 DEF RunInv, SocketsLeft, StartsQueued, SocketsAccounted, Sockets
  <2>4. ResetToCome' /\ EventsOfAttempt'
    BY <1>1, <2>1, <1>2 DEF RunInv, ResetToCome, AtMostOnce, EventsOfAttempt
  <2>5. StartHasUser' /\ OneAtATime'
    BY <1>1, <2>1 DEF RunInv, StartHasUser, OneAtATime, AtMostOnce
  <2> QED
    BY <1>4, <2>2, <2>3, <2>4, <2>5 DEF CInv
<1>7. CASE status_ = "Connecting"
  <2>1. /\ watched' = None /\ pendingFuncs' = Append(pendingFuncs, "reset")
        /\ \E c \in {"closed", "handed"} : sockets' = [sockets EXCEPT ![channelPtr_] = c]
        /\ callback' \in {"error", "connected"}
        /\ \/ status_' = "Disconnected"
           \/ status_' \in {"Connecting", "Connected"} /\ revents' = {} /\ (status_' = "Connecting" => ~retry_)
    <3>1. sockets[channelPtr_] = "open"
      BY <1>1, <1>2, <1>7, StartsAssumption DEF RunInv, SocketsAccounted, TypeOK
    <3>2. CASE handleError
      BY <1>7, <3>1, <3>2, EndOfSocket DEF handleError, removeAndResetChannel, GiveUp, retryLater
    <3>3. CASE handleWrite /\ revents' = {}
      BY <1>7, <3>1, <3>3, EndOfSocket DEF handleWrite, removeAndResetChannel, GiveUp, retryLater
    <3> QED
      BY <3>2, <3>3 DEF HandleEvent
  <2>2. pendingFuncs \in Seq(Functors) /\ "reset" \in Functors
    BY <1>1 DEF TypeOK, Functors
  <2>3. /\ pendingFuncs' \in Seq(Functors)
        /\ \A g : g \in ToSet(pendingFuncs') <=> g \in ToSet(pendingFuncs) \/ g = "reset"
        /\ \A g : AtMostOnce(g) /\ (g = "reset" => g \notin ToSet(pendingFuncs)) => AtMostOnce(g)'
    BY <2>1, <2>2, Queueing
  <2>4. PICK k \in 0..MaxStarts : /\ \A s \in Sockets : sockets[s] = "none" <=> s > k
                                  /\ k + Cardinality(StartsQueued) = starts
    BY <1>1 DEF RunInv, SocketsLeft
  <2>5. k \in Nat /\ SocketsAccounted /\ watched # None
    BY <1>1, <1>2, <1>7, StartsAssumption DEF RunInv
  <2>6. PICK c \in {"closed", "handed"} : sockets' = [sockets EXCEPT ![channelPtr_] = c]
    BY <2>1
  <2>7. /\ sockets' \in [Sockets -> {"none", "open", "closed", "handed", "misused"}]
        /\ \A s \in Sockets : sockets'[s] = "none" <=> s > k
        /\ SocketsAccounted'
    BY <1>1, <2>1, <2>4, <2>5, <2>6, AttemptEnds
  <2>8. TypeOK'
    BY <1>1, <1>5, <2>1, <2>3, <2>7 DEF TypeOK
  <2>9. SocketsLeft'
    <3>1. StartsQueued' = StartsQueued
      BY <2>1, <2>2, ResetQueued
    <3> QED
      BY <1>1, <2>4, <2>7, <3>1 DEF RunInv, SocketsLeft, Sockets
  <2>10. ResetToCome'
    BY <1>1, <1>2, <2>1, <2>3, <2>5 DEF RunInv, ResetToCome
  <2>11. EventsOfAttempt' /\ StartHasUser'
    BY <1>1, <1>2, <2>1, <2>3 DEF RunInv, EventsOfAttempt, StartHasUser
  <2>12. OneAtATime'
    BY <1>1, <1>2, <2>3 DEF RunInv, OneAtATime
  <2> QED
    BY <1>4, <2>7, <2>8, <2>9, <2>10, <2>11, <2>12 DEF CInv
<1> QED
  BY <1>6, <1>7

(* The inductive invariant holds in every reachable state. *)
THEOREM ConnectorIndInv == Spec => []CInv
<1>1. Init => CInv
  <2> SUFFICES ASSUME Init PROVE CInv
    OBVIOUS
  <2>1. TypeOK
    BY DEF Init, TypeOK, Sockets
  <2>2. pendingFuncs = <<>> /\ StartsQueued = {} /\ ToSet(pendingFuncs) = {}
    BY DEF Init, StartsQueued, ToSet
  <2>3. SocketsLeft
    <3>1. Cardinality(StartsQueued) = 0
      BY <2>2, FS_EmptySet
    <3>2. 0 \in 0..MaxStarts /\ \A s \in Sockets : sockets[s] = "none" <=> s > 0
      BY StartsAssumption DEF Init, Sockets
    <3> QED
      BY <3>1, <3>2, StartsAssumption DEF Init, SocketsLeft
  <2>4. SocketsAccounted /\ EventsOfAttempt
    BY DEF Init, SocketsAccounted, EventsOfAttempt
  <2>5. ResetToCome /\ StartHasUser /\ OneAtATime
    BY <2>2 DEF Init, ResetToCome, StartHasUser, OneAtATime, AtMostOnce
  <2>6. AssertsOnlyWhenEarly
    BY StartsAssumption DEF Init, AssertsOnlyWhenEarly
  <2> QED
    BY <2>1, <2>3, <2>4, <2>5, <2>6 DEF CInv
<1>2. CInv /\ [Next]_vars => CInv'
  <2> SUFFICES ASSUME CInv, [Next]_vars PROVE CInv'
    OBVIOUS
  <2>1. CASE Next
    BY <2>1, StartStep, TurnStep, ResetStep, RetryStep, FunctorStartStep, CallbackStartStep, EventStep
       DEF Next, LoopSteps
  <2>2. CASE UNCHANGED vars
    BY <2>2 DEF vars, attemptVars, loopVars, userVars, history, CInv, TypeOK, AssertsOnlyWhenEarly, Stuck,
       SocketsLeft, StartsQueued, SocketsAccounted, Sockets, ResetToCome, AtMostOnce, EventsOfAttempt,
       StartHasUser, OneAtATime
  <2> QED
    BY <2>1, <2>2
<1> QED
  BY <1>1, <1>2, PTL DEF Spec

(* Type correctness of the connector. *)
THEOREM ConnectorTypeCorrect == Spec => []TypeOK
<1>1. CInv => TypeOK
  BY DEF CInv
<1> QED
  BY <1>1, ConnectorIndInv, PTL

(* No socket is left open but a refused one, the open one is the one that  *)
(* is watched, and none is closed twice, closed after it was handed over or*)
(* handed over when it was closed (Connector.cpp:114-226).                 *)
THEOREM SocketSafety == Spec => []SocketsAccounted
<1>1. CInv => SocketsAccounted
  BY DEF CInv, SocketsAccounted
<1> QED
  BY <1>1, ConnectorIndInv, PTL

(* Whatever functor or event is still to come finds the connector alive,   *)
(* by the user's pointer or by the channel's.                              *)
THEOREM ConnectorOutlivesFunctors == Spec => []FunctorsFindConnector
<1>1. CInv => FunctorsFindConnector
  <2> SUFFICES ASSUME CInv, ended = None, pendingFuncs # <<>> \/ revents # {}
               PROVE  Alive
    BY DEF FunctorsFindConnector
  <2>1. CASE revents # {}
    BY <2>1 DEF CInv, EventsOfAttempt, Alive
  <2>2. CASE pendingFuncs # <<>>
    <3>1. pendingFuncs \in Seq(Functors)
      BY DEF CInv, TypeOK
    <3>2. pendingFuncs[1] \in Functors /\ pendingFuncs[1] \in ToSet(pendingFuncs)
      BY <2>2, <3>1, QueueSet
    <3> QED
      BY <3>2 DEF CInv, Functors, StartHasUser, ResetToCome, Alive
  <2> QED
    BY <2>1, <2>2
<1> QED
  BY <1>1, ConnectorIndInv, PTL

(* One attempt at a time fails no assertion, except after a failure that   *)
(* left the status at Connecting (Connector.cpp:138).                      *)
THEOREM AssertionSafety == Spec => []AssertsOnlyWhenEarly
<1>1. CInv => AssertsOnlyWhenEarly
  BY DEF CInv
<1> QED
  BY <1>1, ConnectorIndInv, PTL
=============================================================================
