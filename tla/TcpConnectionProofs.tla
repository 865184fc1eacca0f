------------------------- MODULE TcpConnectionProofs -------------------------
(***************************************************************************)
(* Proofs about TcpConnection, for any number of connections, users,       *)
(* messages and events: output is always watched and never cut off; a      *)
(* connection is closed only while it is up, and erased once, unless the   *)
(* callback of another one closed it while its event waited; what is down  *)
(* stays down; a connection is not destroyed before it is down as long as  *)
(* the server lives; and the messages stay whole and in their order.       *)
(***************************************************************************)
EXTENDS TcpConnection, SequenceTheorems, TLAPS

(* What waits in outputBuffer_, per connection, is watched and not cut off.*)
Output == OutputWatched /\ FinAfterData /\ DownQuiet

(* The bytes of a message. *)
LEMMA MessageBytes ==
    ASSUME NEW m \in Senders \X (1..MaxSend)
    PROVE  BytesOf(m) \in Seq(Bytes) /\ Len(BytesOf(m)) = 2
<1>1. <<m[1], m[2], 1>> \in Bytes /\ <<m[1], m[2], 2>> \in Bytes
  BY DEF Bytes
<1> QED
  BY <1>1 DEF BytesOf

(* The two parts that ::write leaves of what it was given. *)
LEMMA WriteParts ==
    ASSUME NEW S, NEW s \in Seq(S), NEW k \in 0..Len(s)
    PROVE  SubSeq(s, 1, k) \in Seq(S) /\ SubSeq(s, k + 1, Len(s)) \in Seq(S)
<1>1. \A i \in 1..k : s[i] \in S
  OBVIOUS
<1>2. \A i \in (k + 1)..Len(s) : s[i] \in S
  OBVIOUS
<1> QED
  BY <1>1, <1>2

(* Output that is added to what waits. *)
LEMMA MoreOutput ==
    ASSUME NEW S, NEW s \in Seq(S), NEW t \in Seq(S), Len(t) > 0
    PROVE  s \o t \in Seq(S) /\ s \o t # <<>>
<1>1. s \o t \in Seq(S) /\ Len(s \o t) = Len(s) + Len(t) /\ Len(s) \in Nat
  OBVIOUS
<1>2. Len(s \o t) # 0
  BY <1>1
<1> QED
  BY <1>2

(* ::write and what is left of the bytes. *)
LEMMA WriteSomeEffect ==
    ASSUME TypeOK, NEW c \in Conns, NEW bytes \in Seq(Bytes), NEW k \in 0..Len(bytes), NEW q,
           WriteSome(c, bytes, k, q)
    PROVE  /\ wire' \in [Conns -> Seq(Bytes)]
           /\ outputBuffer_' \in [Conns -> Seq(Bytes)]
           /\ writing' \in [Conns -> BOOLEAN]
           /\ writing'[c] <=> outputBuffer_'[c] # <<>>
           /\ \A d \in Conns \ {c} : /\ wire'[d] = wire[d]
                                     /\ outputBuffer_'[d] = outputBuffer_[d]
                                     /\ writing'[d] = writing[d]
           /\ funcs_' = q \/ funcs_' = Append(q, Func("complete", c))
<1> DEFINE rest == SubSeq(bytes, k + 1, Len(bytes))
           head == SubSeq(bytes, 1, k)
           b == rest # <<>>
<1>1. head \in Seq(Bytes) /\ rest \in Seq(Bytes)
  BY WriteParts
<1>2. /\ wire' = [wire EXCEPT ![c] = @ \o head]
      /\ outputBuffer_' = [outputBuffer_ EXCEPT ![c] = rest]
      /\ writing' = [writing EXCEPT ![c] = b]
      /\ funcs_' = q \/ funcs_' = Append(q, Func("complete", c))
  BY DEF WriteSome
<1>3. b \in BOOLEAN /\ (b <=> rest # <<>>)
  OBVIOUS
<1>4. /\ wire \in [Conns -> Seq(Bytes)] /\ outputBuffer_ \in [Conns -> Seq(Bytes)]
      /\ writing \in [Conns -> BOOLEAN]
  BY DEF TypeOK
<1> HIDE DEF rest, head, b
<1>5. writing' \in [Conns -> BOOLEAN] /\ writing'[c] = b /\ \A d \in Conns \ {c} : writing'[d] = writing[d]
  BY <1>2, <1>3, <1>4, Zenon
<1>6. /\ outputBuffer_' \in [Conns -> Seq(Bytes)] /\ outputBuffer_'[c] = rest
      /\ \A d \in Conns \ {c} : outputBuffer_'[d] = outputBuffer_[d]
  BY <1>1, <1>2, <1>4
<1>7. wire[c] \o head \in Seq(Bytes)
  BY <1>1, <1>4
<1>8. wire' \in [Conns -> Seq(Bytes)] /\ \A d \in Conns \ {c} : wire'[d] = wire[d]
  BY <1>2, <1>4, <1>7
<1> QED
  BY <1>2, <1>3, <1>5, <1>6, <1>8

(* Output keeps what it says of the connections a step does not touch. *)
LEMMA OutputKept ==
    ASSUME TypeOK, Output, NEW c \in Conns,
           \A d \in Conns \ {c} : /\ state_'[d] = state_[d]
                                  /\ outputBuffer_'[d] = outputBuffer_[d]
                                  /\ writing'[d] = writing[d]
                                  /\ writeShut'[d] = writeShut[d],
           state_'[c] # "kDisconnected" => (writing'[c] <=> outputBuffer_'[c] # <<>>),
           writeShut'[c] => outputBuffer_'[c] = <<>>,
           state_'[c] = "kDisconnected" => ~writing'[c]
    PROVE  Output'
<1>1. ASSUME NEW d \in Conns
      PROVE  /\ state_'[d] # "kDisconnected" => (writing'[d] <=> outputBuffer_'[d] # <<>>)
             /\ writeShut'[d] => outputBuffer_'[d] = <<>>
             /\ state_'[d] = "kDisconnected" => ~writing'[d]
  <2>1. CASE d = c
    BY <2>1
  <2>2. CASE d # c
    BY <2>2, Zenon DEF Output, OutputWatched, FinAfterData, DownQuiet
  <2> QED
    BY <2>1, <2>2
<1> QED
  BY <1>1 DEF Output, OutputWatched, FinAfterData, DownQuiet

(* sendInLoop(): the output of a connection that is down is left alone,    *)
(* and nothing is buffered behind closeWrite().                            *)
LEMMA SendEffect ==
    ASSUME TypeOK, Output, NEW c \in Conns, NEW m \in Senders \X (1..MaxSend), NEW q, SendInLoop(c, m, q)
    PROVE  /\ UNCHANGED <<state_, reading, added, writeShut, baseFuncs>>
           /\ wire' \in [Conns -> Seq(Bytes)]
           /\ outputBuffer_' \in [Conns -> Seq(Bytes)]
           /\ writing' \in [Conns -> BOOLEAN]
           /\ funcs_' = q \/ funcs_' = Append(q, Func("complete", c))
           /\ \A d \in Conns : state_[d] = "kDisconnected" => wire'[d] = wire[d]
           /\ Output'
<1>1. UNCHANGED <<state_, reading, added, writeShut, baseFuncs>>
  BY DEF SendInLoop
<1>2. /\ wire \in [Conns -> Seq(Bytes)] /\ outputBuffer_ \in [Conns -> Seq(Bytes)]
      /\ writing \in [Conns -> BOOLEAN]
  BY DEF TypeOK
<1>3. CASE Unwritten(q)
  <2>1. funcs_' = q /\ UNCHANGED <<wire, outputBuffer_, writing>>
    BY <1>3 DEF Unwritten
  <2>2. Output'
    BY <1>1, <2>1 DEF Output, OutputWatched, FinAfterData, DownQuiet
  <2> QED
    BY <1>1, <1>2, <2>1, <2>2
<1>4. CASE /\ state_[c] # "kDisconnected" /\ ~WriteFails(c)
           /\ \E k \in 0..2 : WriteSome(c, BytesOf(m), k, q)
  <2> PICK k \in 0..2 : WriteSome(c, BytesOf(m), k, q)
    BY <1>4
  <2>1. BytesOf(m) \in Seq(Bytes) /\ k \in 0..Len(BytesOf(m))
    BY MessageBytes
  <2>2. /\ wire' \in [Conns -> Seq(Bytes)]
        /\ outputBuffer_' \in [Conns -> Seq(Bytes)]
        /\ writing' \in [Conns -> BOOLEAN]
        /\ writing'[c] <=> outputBuffer_'[c] # <<>>
        /\ \A d \in Conns \ {c} : /\ wire'[d] = wire[d]
                                  /\ outputBuffer_'[d] = outputBuffer_[d]
                                  /\ writing'[d] = writing[d]
        /\ funcs_' = q \/ funcs_' = Append(q, Func("complete", c))
    BY <2>1, WriteSomeEffect
  <2>3. ~writeShut'[c] /\ state_'[c] # "kDisconnected"
    BY <1>1, <1>4 DEF WriteFails
  <2>4. Output'
    BY <1>1, <2>2, <2>3, OutputKept
  <2> QED
    BY <1>1, <1>4, <2>2, <2>4
<1>5. CASE /\ state_[c] # "kDisconnected"
           /\ ~WritesDirectly(c)
           /\ outputBuffer_' = [outputBuffer_ EXCEPT ![c] = @ \o BytesOf(m)]
           /\ writing' = [writing EXCEPT ![c] = TRUE]
           /\ funcs_' = q
           /\ UNCHANGED wire
  <2> DEFINE t == TRUE
             b == BytesOf(m)
  <2>1. b \in Seq(Bytes) /\ Len(b) > 0
    BY MessageBytes
  <2>2. t \in BOOLEAN /\ writing' = [writing EXCEPT ![c] = t]
    BY <1>5
  <2> HIDE DEF t, b
  <2>3. writing' \in [Conns -> BOOLEAN] /\ writing'[c] = t /\ \A d \in Conns \ {c} : writing'[d] = writing[d]
    BY <1>2, <2>2, Zenon
  <2>4. outputBuffer_[c] \o b \in Seq(Bytes) /\ outputBuffer_[c] \o b # <<>>
    <3>1. outputBuffer_[c] \in Seq(Bytes)
      BY <1>2
    <3> QED
      BY <2>1, <3>1, MoreOutput
  <2>5. /\ outputBuffer_' \in [Conns -> Seq(Bytes)] /\ outputBuffer_'[c] # <<>>
        /\ \A d \in Conns \ {c} : outputBuffer_'[d] = outputBuffer_[d]
    BY <1>2, <1>5, <2>4 DEF b
  <2>6. writing'[c]
    BY <2>3 DEF t
  <2>7. ~writeShut'[c]
    <3>1. writing[c] <=> outputBuffer_[c] # <<>>
      BY <1>5 DEF Output, OutputWatched
    <3>2. outputBuffer_[c] # <<>>
      BY <1>5, <3>1 DEF WritesDirectly
    <3>3. writeShut[c] => outputBuffer_[c] = <<>>
      BY DEF Output, FinAfterData
    <3> QED
      BY <1>1, <3>2, <3>3
  <2>8. Output'
    BY <1>1, <1>5, <2>3, <2>5, <2>6, <2>7, OutputKept
  <2> QED
    BY <1>1, <1>2, <1>5, <2>3, <2>5, <2>8
<1> QED
  BY <1>3, <1>4, <1>5 DEF SendInLoop

(* shutdownInLoop(): the write side is shut only behind the output.        *)
LEMMA ShutdownEffect ==
    ASSUME TypeOK, Output, NEW c \in Conns, ShutdownInLoop(c)
    PROVE  /\ UNCHANGED <<channelVars, outputBuffer_, wire, baseFuncs>>
           /\ state_' \in [Conns -> {"none", "kConnecting", "kConnected", "kDisconnecting", "kDisconnected"}]
           /\ writeShut' \in [Conns -> BOOLEAN]
           /\ \A d \in Conns : state_'[d] = state_[d] \/ (state_[d] = "kConnected" /\ state_'[d] = "kDisconnecting")
           /\ Output'
<1>1. UNCHANGED <<channelVars, outputBuffer_, wire, baseFuncs>> /\ UNCHANGED <<reading, writing, added>>
  BY DEF ShutdownInLoop, channelVars
<1>2. CASE state_[c] # "kConnected"
  <2>1. UNCHANGED <<state_, writeShut>>
    BY <1>2 DEF ShutdownInLoop
  <2> QED
    BY <1>1, <2>1 DEF TypeOK, Output, OutputWatched, FinAfterData, DownQuiet
<1>3. CASE state_[c] = "kConnected"
  <2> DEFINE b == writeShut[c] \/ ~writing[c]
  <2>1. state_' = [state_ EXCEPT ![c] = "kDisconnecting"] /\ writeShut' = [writeShut EXCEPT ![c] = b]
    BY <1>3 DEF ShutdownInLoop
  <2>2. b \in BOOLEAN /\ (b <=> writeShut[c] \/ ~writing[c])
    OBVIOUS
  <2> HIDE DEF b
  <2>3. writeShut \in [Conns -> BOOLEAN]
    BY DEF TypeOK
  <2>4. writeShut' \in [Conns -> BOOLEAN] /\ writeShut'[c] = b /\ \A d \in Conns \ {c} : writeShut'[d] = writeShut[d]
    BY <2>1, <2>2, <2>3, Zenon
  <2>5. /\ state_' \in [Conns -> {"none", "kConnecting", "kConnected", "kDisconnecting", "kDisconnected"}]
        /\ state_'[c] = "kDisconnecting" /\ \A d \in Conns \ {c} : state_'[d] = state_[d]
    BY <2>1 DEF TypeOK
  <2>6. (writing[c] <=> outputBuffer_[c] # <<>>) /\ (writeShut[c] => outputBuffer_[c] = <<>>)
    BY <1>3 DEF Output, OutputWatched, FinAfterData
  <2>7. writeShut'[c] => outputBuffer_'[c] = <<>>
    BY <1>1, <2>2, <2>4, <2>6
  <2>8. Output'
    BY <1>1, <2>4, <2>5, <2>6, <2>7, OutputKept
  <2> QED
    BY <1>1, <1>3, <2>4, <2>5, <2>8
<1> QED
  BY <1>2, <1>3

(* handleClose(): the connection is down, for the poller as well, and its  *)
(* erase is queued.                                                        *)
LEMMA CloseEffect ==
    ASSUME TypeOK, Output, NEW c \in Conns, HandleClose(c)
    PROVE  /\ UNCHANGED <<outputBuffer_, writeShut, wire>>
           /\ baseFuncs' = Append(baseFuncs, c)
           /\ state_' \in [Conns -> {"none", "kConnecting", "kConnected", "kDisconnecting", "kDisconnected"}]
           /\ reading' \in [Conns -> BOOLEAN] /\ writing' \in [Conns -> BOOLEAN] /\ added' \in [Conns -> BOOLEAN]
           /\ state_'[c] = "kDisconnected" /\ ~added'[c]
           /\ \A d \in Conns \ {c} : state_'[d] = state_[d] /\ added'[d] = added[d]
           /\ Output'
<1> DEFINE f == FALSE
<1>1. /\ state_' = [state_ EXCEPT ![c] = "kDisconnected"]
      /\ reading' = [reading EXCEPT ![c] = f]
      /\ writing' = [writing EXCEPT ![c] = f]
      /\ added' = [added EXCEPT ![c] = f]
      /\ baseFuncs' = Append(baseFuncs, c)
      /\ UNCHANGED <<outputBuffer_, writeShut, wire>>
  BY DEF HandleClose, connectionClosed, connectDestroyed, removeChannel, outVars
<1>2. f \in BOOLEAN /\ ~f
  OBVIOUS
<1> HIDE DEF f
<1>3. reading \in [Conns -> BOOLEAN] /\ writing \in [Conns -> BOOLEAN] /\ added \in [Conns -> BOOLEAN]
  BY DEF TypeOK
<1>4. /\ reading' \in [Conns -> BOOLEAN] /\ writing' \in [Conns -> BOOLEAN] /\ added' \in [Conns -> BOOLEAN]
      /\ writing'[c] = f /\ added'[c] = f
      /\ \A d \in Conns \ {c} : writing'[d] = writing[d] /\ added'[d] = added[d]
  BY <1>1, <1>2, <1>3, Zenon
<1>5. /\ state_' \in [Conns -> {"none", "kConnecting", "kConnected", "kDisconnecting", "kDisconnected"}]
      /\ state_'[c] = "kDisconnected" /\ \A d \in Conns \ {c} : state_'[d] = state_[d]
  BY <1>1 DEF TypeOK
<1>6. ~writing'[c] /\ ~added'[c]
  BY <1>2, <1>4
<1>7. writeShut'[c] => outputBuffer_'[c] = <<>>
  BY <1>1 DEF Output, FinAfterData
<1>8. Output'
  BY <1>1, <1>4, <1>5, <1>6, <1>7, OutputKept
<1> QED
  BY <1>1, <1>4, <1>5, <1>6, <1>8

-----------------------------------------------------------------------------
(* The queues.                                                             *)

(* The functors are of their type. *)
LEMMA FuncTyped ==
    /\ \A c \in Conns, op \in {"established", "shutdown", "forceClose", "complete"} :
          Func(op, c) \in Funcs /\ Func(op, c).op = op /\ Func(op, c).conn = c
    /\ \A c \in Conns, m \in Senders \X (1..MaxSend) :
          SendFunc(c, m) \in Funcs /\ SendFunc(c, m).op = "send"
    /\ \A f \in Funcs : f.conn \in Conns /\ (f.op = "send" => f.msg \in Senders \X (1..MaxSend))
  BY DEF Func, SendFunc, Funcs

(* What queueing does. *)
LEMMA AppendProps ==
    ASSUME NEW S, NEW q \in Seq(S), NEW e \in S
    PROVE  /\ Append(q, e) \in Seq(S)
           /\ Len(Append(q, e)) = Len(q) + 1
           /\ \A i \in 1..Len(q) : Append(q, e)[i] = q[i]
           /\ Append(q, e)[Len(q) + 1] = e
  OBVIOUS

(* What taking the first leaves. *)
LEMMA TailProps ==
    ASSUME NEW S, NEW q \in Seq(S), q # <<>>
    PROVE  /\ Tail(q) \in Seq(S)
           /\ Len(Tail(q)) = Len(q) - 1
           /\ \A i \in 1..(Len(q) - 1) : Tail(q)[i] = q[i + 1]
           /\ Head(q) = q[1] /\ 1 \in 1..Len(q) /\ Head(q) \in S
  OBVIOUS

(* No step but newConnection() queues a connectEstablished(). *)
LEMMA FuncsKept ==
    ASSUME funcs_ \in Seq(Funcs), EstablishedOnce, NEW d \in {0, 1}, NEW q \in Seq(Funcs),
           q = (IF d = 0 THEN funcs_ ELSE Tail(funcs_)), d = 1 => funcs_ # <<>>,
           funcs_' = q \/ funcs_' = <<>> \/ \E f \in Funcs : f.op # "established" /\ funcs_' = Append(q, f)
    PROVE  /\ funcs_' \in Seq(Funcs)
           /\ EstablishedOnce'
           /\ \A i \in 1..Len(funcs_') : funcs_'[i].op = "established" =>
                 i + d \in 1..Len(funcs_) /\ funcs_'[i] = funcs_[i + d]
<1>1. Len(q) \in Nat /\ \A i \in 1..Len(q) : i + d \in 1..Len(funcs_) /\ q[i] = funcs_[i + d]
  <2>1. CASE d = 0
    BY <2>1
  <2>2. CASE d = 1
    BY <2>2, TailProps
  <2> QED
    BY <2>1, <2>2
<1>2. /\ funcs_' \in Seq(Funcs)
      /\ \A i \in 1..Len(funcs_') : funcs_'[i].op = "established" => i \in 1..Len(q) /\ funcs_'[i] = q[i]
  <2>1. CASE funcs_' = q
    BY <2>1
  <2>2. CASE funcs_' = <<>>
    BY <2>2
  <2>3. CASE \E f \in Funcs : f.op # "established" /\ funcs_' = Append(q, f)
    <3> PICK f \in Funcs : f.op # "established" /\ funcs_' = Append(q, f)
      BY <2>3
    <3>1. /\ funcs_' \in Seq(Funcs) /\ Len(funcs_') = Len(q) + 1
          /\ \A i \in 1..Len(q) : funcs_'[i] = q[i]
          /\ funcs_'[Len(q) + 1] = f
      BY AppendProps
    <3>2. \A i \in 1..Len(funcs_') : i \in 1..Len(q) \/ i = Len(q) + 1
      BY <1>1, <3>1
    <3> QED
      BY <3>1, <3>2
  <2> QED
    BY <2>1, <2>2, <2>3
<1>3. \A i \in 1..Len(funcs_') : funcs_'[i].op = "established" =>
         i + d \in 1..Len(funcs_) /\ funcs_'[i] = funcs_[i + d]
  BY <1>1, <1>2
<1>4. EstablishedOnce'
  <2> SUFFICES ASSUME NEW i \in 1..Len(funcs_'), NEW j \in 1..Len(funcs_'),
                      funcs_'[i].op = "established", funcs_'[j].op = "established",
                      funcs_'[i].conn = funcs_'[j].conn
               PROVE  i = j
    BY DEF EstablishedOnce
  <2>1. i + d = j + d
    BY <1>3 DEF EstablishedOnce
  <2> QED
    BY <2>1
<1> QED
  BY <1>2, <1>3, <1>4

(* The erases queued are of connections that are down. *)
LEMMA ErasesKept ==
    ASSUME TypeOK, ErasesDown,
           \A c \in Conns : state_[c] = "kDisconnected" => state_'[c] = "kDisconnected",
           \/ baseFuncs' = baseFuncs \/ baseFuncs' = <<>>
           \/ \E c \in Conns : state_'[c] = "kDisconnected" /\ baseFuncs' = Append(baseFuncs, c)
           \/ baseFuncs # <<>> /\ baseFuncs' = Tail(baseFuncs)
    PROVE  baseFuncs' \in Seq(Conns) /\ ErasesDown'
<1>1. baseFuncs \in Seq(Conns) /\ \A i \in 1..Len(baseFuncs) : baseFuncs[i] \in Conns
  BY DEF TypeOK
<1>2. CASE baseFuncs' = baseFuncs
  BY <1>1, <1>2 DEF ErasesDown
<1>3. CASE baseFuncs' = <<>>
  BY <1>3 DEF ErasesDown
<1>4. CASE \E c \in Conns : state_'[c] = "kDisconnected" /\ baseFuncs' = Append(baseFuncs, c)
  <2> PICK c \in Conns : state_'[c] = "kDisconnected" /\ baseFuncs' = Append(baseFuncs, c)
    BY <1>4
  <2>1. /\ baseFuncs' \in Seq(Conns) /\ Len(baseFuncs') = Len(baseFuncs) + 1 /\ Len(baseFuncs) \in Nat
        /\ \A i \in 1..Len(baseFuncs) : baseFuncs'[i] = baseFuncs[i]
        /\ baseFuncs'[Len(baseFuncs) + 1] = c
    BY <1>1, AppendProps
  <2>2. \A i \in 1..Len(baseFuncs') : i \in 1..Len(baseFuncs) \/ i = Len(baseFuncs) + 1
    BY <2>1
  <2> QED
    BY <1>1, <2>1, <2>2 DEF ErasesDown
<1>5. CASE baseFuncs # <<>> /\ baseFuncs' = Tail(baseFuncs)
  <2>1. /\ baseFuncs' \in Seq(Conns) /\ Len(baseFuncs') = Len(baseFuncs) - 1 /\ Len(baseFuncs) \in Nat
        /\ \A i \in 1..Len(baseFuncs') : baseFuncs'[i] = baseFuncs[i + 1]
    BY <1>1, <1>5, TailProps
  <2>2. \A i \in 1..Len(baseFuncs') : i + 1 \in 1..Len(baseFuncs)
    BY <2>1
  <2> QED
    BY <1>1, <2>1, <2>2 DEF ErasesDown
<1> QED
  BY <1>2, <1>3, <1>4, <1>5

-----------------------------------------------------------------------------
(* Steps that leave the connections alone: the turns of the loop, the      *)
(* peers, calls of users up to the queue, and the server's way down.       *)
LEMMA LifeUntouched ==
    ASSUME ConnInv,
           UNCHANGED <<state_, writing, added, outputBuffer_, writeShut, baseFuncs, connSet_>>,
           server \in {"down", "used"} => server' \in {"down", "used"},
           funcs_' = funcs_ \/ funcs_' = <<>> \/ \E f \in Funcs : f.op # "established" /\ funcs_' = Append(funcs_, f)
    PROVE  /\ funcs_' \in Seq(Funcs)
           /\ Output' /\ StateMatches' /\ EstablishedOnce'
           /\ ErasesDown' /\ ServerKeeps'
<1>1. Output'
  BY DEF ConnInv, Output, OutputWatched, FinAfterData, DownQuiet
<1>2. /\ funcs_' \in Seq(Funcs) /\ EstablishedOnce'
      /\ \A i \in 1..Len(funcs_') : funcs_'[i].op = "established" =>
            i + 0 \in 1..Len(funcs_) /\ funcs_'[i] = funcs_[i + 0]
  <2>1. funcs_ \in Seq(Funcs) /\ EstablishedOnce
    BY DEF ConnInv, TypeOK
  <2> QED
    BY <2>1, FuncsKept
<1>3. StateMatches'
  <2>1. \A i \in 1..Len(funcs_') : funcs_'[i].op = "established" => state_'[funcs_'[i].conn] = "kConnecting"
    BY <1>2 DEF ConnInv, StateMatches
  <2>2. \A c \in Conns : added'[c] <=> state_'[c] \in {"kConnected", "kDisconnecting"}
    BY Zenon DEF ConnInv, StateMatches
  <2> QED
    BY <2>1, <2>2 DEF StateMatches
<1>4. ErasesDown' /\ ServerKeeps'
  BY DEF ConnInv, ErasesDown, ServerKeeps
<1> QED
  BY <1>1, <1>2, <1>3, <1>4

(* The turns of the I/O loop. *)
LEMMA TurnStep ==
    ASSUME ConnInv,
           \/ IoPoll \/ HandlingDone \/ FunctorsDone \/ IoCheck \/ IoExit
           \/ \E c \in Conns : HandleEvent(c) \/ CallbackReturns(c)
    PROVE  ConnInv'
<1>1. /\ UNCHANGED <<state_, reading, writing, added, outputBuffer_, writeShut, wire, inbox, arrived,
                     connSet_, toClose, held, sent, upc, baseFuncs, stale, server>>
      /\ funcs_' = funcs_ \/ funcs_' = <<>>
      /\ io' \in {"check", "poll", "handling", "functors", "exited"}
  BY DEF ConnInv, TypeOK, IoPoll, HandlingDone, FunctorsDone, IoCheck, IoExit, HandleEvent, CallbackReturns,
         channelVars, outVars, netVars, userVars, pollVars
<1>2. revents' \in [Conns -> SUBSET Events] /\ active' \subseteq Conns /\ todo' \subseteq active'
  BY DEF ConnInv, TypeOK, IoPoll, HandlingDone, FunctorsDone, IoCheck, IoExit, HandleEvent, CallbackReturns,
         pollVars
<1>3. task' \in Tasks /\ peer' \in [Conns -> {"open", "eof", "reset", "dead"}]
  <2>1. task' \in Tasks
    BY DEF ConnInv, TypeOK, IoPoll, HandlingDone, FunctorsDone, IoCheck, IoExit, HandleEvent, CallbackReturns,
           InCallback, At, Tasks
  <2>2. peer \in [Conns -> {"open", "eof", "reset", "dead"}]
    BY DEF ConnInv, TypeOK
  <2>3. CASE \E c \in Conns : HandleEvent(c)
    <3> PICK c \in Conns : HandleEvent(c)
      BY <2>3
    <3>1. peer' = [peer EXCEPT ![c] = "dead"] \/ peer' = [peer EXCEPT ![c] = peer[c]]
      BY DEF HandleEvent
    <3> QED
      BY <2>1, <2>2, <3>1
  <2>4. CASE ~\E c \in Conns : HandleEvent(c)
    <3>1. peer' = peer
      BY <2>4 DEF IoPoll, HandlingDone, FunctorsDone, IoCheck, IoExit, CallbackReturns, netVars
    <3> QED
      BY <2>1, <2>2, <3>1
  <2> QED
    BY <2>3, <2>4
<1>4. /\ funcs_' \in Seq(Funcs)
      /\ Output' /\ StateMatches' /\ EstablishedOnce' /\ ErasesDown' /\ ServerKeeps'
  BY <1>1, LifeUntouched
<1>5. EventsEstablished'
  <2>1. CASE IoPoll
    <3> SUFFICES ASSUME NEW c \in Conns, revents'[c] # {} PROVE added[c]
      BY <1>1 DEF EventsEstablished, ConnInv, StateMatches
    <3> PICK i \in Ready(c), o \in Writable(c) : revents'[c] = i \cup o
      BY <2>1 DEF IoPoll
    <3>1. ~added[c] => Ready(c) = {{}} /\ Writable(c) = {{}}
      BY Zenon DEF Ready, Writable
    <3> QED
      BY <3>1
  <2>2. CASE ~IoPoll
    <3>1. \A c \in Conns : revents'[c] = revents[c] \/ revents'[c] = {}
      BY <2>2 DEF HandlingDone, FunctorsDone, IoCheck, IoExit, HandleEvent, CallbackReturns, pollVars
    <3> QED
      BY <1>1, <3>1 DEF ConnInv, EventsEstablished
  <2> QED
    BY <2>1, <2>2
<1>6. TypeOK'
  <2>1. TypeOK
    BY DEF ConnInv
  <2> QED
    BY <1>1, <1>2, <1>3, <1>4, <2>1 DEF TypeOK
<1>7. ServerStopped' /\ InboxArrived' /\ SendCounted'
  BY <1>1 DEF ConnInv, ServerStopped, InboxArrived, SendCounted
<1> QED
  BY <1>4, <1>5, <1>6, <1>7 DEF ConnInv, Output

(* The peers. *)
LEMMA PeerStep ==
    ASSUME ConnInv, NEW c \in Conns, PeerSends(c) \/ PeerCloses(c)
    PROVE  ConnInv'
<1>1. UNCHANGED <<state_, reading, writing, added, outputBuffer_, writeShut, wire, connSet_, toClose, held, sent,
                  upc, funcs_, baseFuncs, io, revents, active, todo, stale, task, server>>
  BY DEF PeerSends, PeerCloses, channelVars, outVars, userVars, pollVars
<1>2. inbox' \in [Conns -> 0..MaxIn] /\ arrived' \in [Conns -> 0..MaxIn] /\ InboxArrived'
  <2>1. /\ inbox \in [Conns -> 0..MaxIn] /\ arrived \in [Conns -> 0..MaxIn]
        /\ \A d \in Conns : inbox[d] <= arrived[d]
    BY DEF ConnInv, TypeOK, InboxArrived
  <2>2. CASE PeerCloses(c)
    BY <2>1, <2>2 DEF PeerCloses, InboxArrived
  <2>3. CASE PeerSends(c)
    <3>1. /\ arrived[c] + 1 \in 0..MaxIn /\ inbox[c] + 1 \in 0..MaxIn /\ inbox[c] + 1 <= arrived[c] + 1
          /\ arrived' = [arrived EXCEPT ![c] = arrived[c] + 1]
          /\ inbox' = [inbox EXCEPT ![c] = inbox[c] + 1]
      BY <2>1, <2>3, BoundsAssumption DEF PeerSends
    <3> QED
      BY <2>1, <3>1 DEF InboxArrived
  <2> QED
    BY <2>2, <2>3
<1>3. peer' \in [Conns -> {"open", "eof", "reset", "dead"}]
  BY DEF PeerSends, PeerCloses, ConnInv, TypeOK
<1>4. Output' /\ StateMatches' /\ EstablishedOnce' /\ ErasesDown' /\ ServerKeeps'
  BY <1>1, LifeUntouched
<1>5. TypeOK'
  <2>1. TypeOK
    BY DEF ConnInv
  <2> QED
    BY <1>1, <1>2, <1>3, <2>1 DEF TypeOK
<1>6. EventsEstablished' /\ ServerStopped' /\ SendCounted'
  BY <1>1 DEF ConnInv, EventsEstablished, ServerStopped, SendCounted
<1> QED
  BY <1>2, <1>4, <1>5, <1>6 DEF ConnInv, Output

(* The server's steps.                                                     *)
LEMMA ServerStep ==
    ASSUME ConnInv,
           \/ ServerClose \/ ServerQuit \/ ServerDown \/ BaseErase \/ BaseAfterServer
           \/ \E c \in Conns : ServerForceClose(c)
    PROVE  ConnInv'
<1>1. /\ UNCHANGED <<state_, reading, writing, added, outputBuffer_, writeShut, wire, inbox, arrived, peer,
                     held, sent, upc, io, revents, active, todo, stale, task>>
      /\ server' \in {"up", "closing", "quitting", "down", "used"}
      /\ server \in {"down", "used"} => server' \in {"down", "used"}
      /\ connSet_' \subseteq connSet_ /\ toClose' \subseteq Conns
  BY DEF ConnInv, TypeOK, ServerClose, ServerQuit, ServerDown, BaseErase, BaseAfterServer, ServerForceClose,
         channelVars, outVars, netVars, userVars, pollVars
<1>2. funcs_' = funcs_ \/ \E f \in Funcs : f.op # "established" /\ funcs_' = Append(funcs_, f)
  BY FuncTyped DEF ServerClose, ServerQuit, ServerDown, BaseErase, BaseAfterServer, ServerForceClose
<1>3. funcs_' \in Seq(Funcs) /\ EstablishedOnce'
      /\ \A i \in 1..Len(funcs_') : funcs_'[i].op = "established" =>
            i + 0 \in 1..Len(funcs_) /\ funcs_'[i] = funcs_[i + 0]
  <2>1. funcs_ \in Seq(Funcs) /\ EstablishedOnce
    BY DEF ConnInv, TypeOK
  <2> QED
    BY <1>2, <2>1, FuncsKept
<1>4. StateMatches'
  <2>1. \A i \in 1..Len(funcs_') : funcs_'[i].op = "established" => state_'[funcs_'[i].conn] = "kConnecting"
    BY <1>1, <1>3 DEF ConnInv, StateMatches
  <2>2. \A c \in Conns : added'[c] <=> state_'[c] \in {"kConnected", "kDisconnecting"}
    BY <1>1, Zenon DEF ConnInv, StateMatches
  <2> QED
    BY <2>1, <2>2 DEF StateMatches
<1>5. baseFuncs' \in Seq(Conns) /\ ErasesDown'
  <2>1. TypeOK /\ ErasesDown
    BY DEF ConnInv
  <2>2. \/ baseFuncs' = baseFuncs \/ baseFuncs' = <<>>
        \/ baseFuncs # <<>> /\ baseFuncs' = Tail(baseFuncs)
    BY DEF ServerClose, ServerQuit, ServerDown, BaseErase, BaseAfterServer, ServerForceClose
  <2> QED
    BY <1>1, <2>1, <2>2, ErasesKept
<1>6. ServerKeeps'
  <2>1. CASE BaseErase
    <3>1. baseFuncs \in Seq(Conns) /\ baseFuncs # <<>> /\ connSet_' = connSet_ \ {Head(baseFuncs)} /\ server' = server
      BY <2>1 DEF ConnInv, TypeOK, BaseErase
    <3>2. state_[Head(baseFuncs)] = "kDisconnected"
      BY <3>1, TailProps DEF ConnInv, ErasesDown
    <3> QED
      BY <1>1, <3>1, <3>2 DEF ConnInv, ServerKeeps
  <2>2. CASE ServerDown \/ BaseAfterServer
    BY <2>2 DEF ServerDown, BaseAfterServer, ServerKeeps
  <2>3. CASE ~BaseErase /\ ~ServerDown /\ ~BaseAfterServer
    <3>1. connSet_' = connSet_
      BY <2>3 DEF ServerClose, ServerQuit, ServerForceClose
    <3> QED
      BY <1>1, <3>1 DEF ConnInv, ServerKeeps
  <2> QED
    BY <2>1, <2>2, <2>3
<1>7. ServerStopped'
  BY DEF ConnInv, ServerStopped, ServerClose, ServerQuit, ServerDown, BaseErase, BaseAfterServer, ServerForceClose
<1>8. Output'
  BY <1>1 DEF ConnInv, Output, OutputWatched, FinAfterData, DownQuiet
<1>9. TypeOK'
  <2>1. TypeOK
    BY DEF ConnInv
  <2> QED
    BY <1>1, <1>3, <1>5, <2>1 DEF TypeOK
<1>10. EventsEstablished' /\ InboxArrived' /\ SendCounted'
  BY <1>1 DEF ConnInv, EventsEstablished, InboxArrived, SendCounted
<1> QED
  BY <1>3, <1>4, <1>5, <1>6, <1>7, <1>8, <1>9, <1>10 DEF ConnInv, Output

(* newConnection(): the only step that queues a connectEstablished(), of a *)
(* connection that did not exist.                                          *)
LEMMA NewConnectionStep ==
    ASSUME ConnInv, NEW c \in Conns, NewConnection(c)
    PROVE  ConnInv'
<1> DEFINE f == Func("established", c)
<1>1. /\ UNCHANGED <<reading, writing, added, outputBuffer_, writeShut, wire, inbox, arrived, peer, toClose,
                     held, sent, upc, baseFuncs, io, revents, active, todo, stale, task, server>>
      /\ state_[c] = "none"
      /\ state_' = [state_ EXCEPT ![c] = "kConnecting"]
      /\ connSet_' = connSet_ \cup {c}
      /\ funcs_' = Append(funcs_, f)
  BY DEF NewConnection, channelVars, outVars, netVars, userVars, pollVars
<1>2. TypeOK
  BY DEF ConnInv
<1>3. /\ state_' \in [Conns -> {"none", "kConnecting", "kConnected", "kDisconnecting", "kDisconnected"}]
      /\ state_'[c] = "kConnecting" /\ \A d \in Conns \ {c} : state_'[d] = state_[d]
  BY <1>1, <1>2 DEF TypeOK
<1>4. f \in Funcs /\ f.op = "established" /\ f.conn = c
  BY FuncTyped
<1> HIDE DEF f
<1>5. /\ funcs_' \in Seq(Funcs) /\ Len(funcs_') = Len(funcs_) + 1 /\ Len(funcs_) \in Nat
      /\ \A i \in 1..Len(funcs_) : funcs_'[i] = funcs_[i]
      /\ funcs_'[Len(funcs_) + 1] = f
  BY <1>1, <1>2, <1>4, AppendProps DEF TypeOK
<1>6. \A i \in 1..Len(funcs_') : i \in 1..Len(funcs_) \/ i = Len(funcs_) + 1
  BY <1>5
<1>7. \A i \in 1..Len(funcs_) : funcs_[i].op = "established" =>
         state_[funcs_[i].conn] = "kConnecting" /\ funcs_[i].conn # c /\ funcs_[i].conn \in Conns
  <2>1. \A i \in 1..Len(funcs_) : funcs_[i] \in Funcs
    BY <1>2 DEF TypeOK
  <2> QED
    BY <1>1, <2>1, FuncTyped DEF ConnInv, StateMatches
<1>8. EstablishedOnce'
  <2> SUFFICES ASSUME NEW i \in 1..Len(funcs_'), NEW j \in 1..Len(funcs_'),
                      funcs_'[i].op = "established", funcs_'[j].op = "established",
                      funcs_'[i].conn = funcs_'[j].conn
               PROVE  i = j
    BY DEF EstablishedOnce
  <2>1. CASE i \in 1..Len(funcs_) /\ j \in 1..Len(funcs_)
    BY <1>5, <2>1 DEF ConnInv, EstablishedOnce
  <2>2. CASE i = Len(funcs_) + 1 /\ j \in 1..Len(funcs_)
    BY <1>4, <1>5, <1>7, <2>2
  <2>3. CASE i \in 1..Len(funcs_) /\ j = Len(funcs_) + 1
    BY <1>4, <1>5, <1>7, <2>3
  <2> QED
    BY <1>6, <2>1, <2>2, <2>3
<1>9. StateMatches'
  <2>1. \A i \in 1..Len(funcs_') : funcs_'[i].op = "established" => state_'[funcs_'[i].conn] = "kConnecting"
    <3> SUFFICES ASSUME NEW i \in 1..Len(funcs_'), funcs_'[i].op = "established"
                 PROVE  state_'[funcs_'[i].conn] = "kConnecting"
      OBVIOUS
    <3>1. CASE i \in 1..Len(funcs_)
      BY <1>3, <1>5, <1>7, <3>1
    <3>2. CASE i = Len(funcs_) + 1
      BY <1>3, <1>4, <1>5, <3>2
    <3> QED
      BY <1>6, <3>1, <3>2
  <2>2. \A d \in Conns : added'[d] <=> state_'[d] \in {"kConnected", "kDisconnecting"}
    <3>1. ~added[c]
      BY <1>1, Zenon DEF ConnInv, StateMatches
    <3>2. \A d \in Conns \ {c} : added'[d] <=> state_'[d] \in {"kConnected", "kDisconnecting"}
      BY <1>1, <1>3, Zenon DEF ConnInv, StateMatches
    <3> QED
      BY <1>1, <1>3, <3>1, <3>2
  <2> QED
    BY <2>1, <2>2 DEF StateMatches
<1>10. Output'
  <2>1. writing[c] <=> outputBuffer_[c] # <<>>
    BY <1>1 DEF ConnInv, OutputWatched
  <2>2. writeShut[c] => outputBuffer_[c] = <<>>
    BY DEF ConnInv, FinAfterData
  <2>3. Output
    BY DEF ConnInv, Output
  <2> QED
    BY <1>1, <1>2, <1>3, <2>1, <2>2, <2>3, OutputKept
<1>11. baseFuncs' \in Seq(Conns) /\ ErasesDown'
  <2>1. \A d \in Conns : state_[d] = "kDisconnected" => state_'[d] = "kDisconnected"
    BY <1>1, <1>3
  <2>2. ErasesDown
    BY DEF ConnInv
  <2> QED
    BY <1>1, <1>2, <2>1, <2>2, ErasesKept
<1>12. ServerKeeps' /\ EventsEstablished'
  <2>1. \A d \in Conns : revents[d] # {} => d # c
    BY <1>1 DEF ConnInv, EventsEstablished
  <2> QED
    BY <1>1, <1>3, <2>1 DEF ConnInv, ServerKeeps, EventsEstablished
<1>13. ServerStopped' /\ InboxArrived' /\ SendCounted'
  BY <1>1 DEF ConnInv, ServerStopped, InboxArrived, SendCounted
<1>14. TypeOK'
  BY <1>1, <1>2, <1>3, <1>5 DEF TypeOK
<1> QED
  BY <1>8, <1>9, <1>10, <1>11, <1>12, <1>13, <1>14 DEF ConnInv, Output

(* The calls of users.                                                     *)
LEMMA UserStep ==
    ASSUME ConnInv, NEW u \in Users,
           UserSendQueue(u) \/ \E c \in Conns : UserSend(u, c) \/ UserLeaves(u, c)
    PROVE  ConnInv'
<1>1. UNCHANGED <<state_, reading, writing, added, outputBuffer_, writeShut, wire, inbox, arrived, peer,
                  connSet_, toClose, baseFuncs, io, revents, active, todo, stale, task, server>>
  BY DEF UserSendQueue, UserSend, UserLeaves, channelVars, outVars, netVars, pollVars
<1>2. TypeOK
  BY DEF ConnInv
<1>3. u \in Senders /\ u # IoLoop
  BY UsersAssumption DEF Senders
<1>4. /\ funcs_' = funcs_ \/ \E f \in Funcs : f.op # "established" /\ funcs_' = Append(funcs_, f)
      /\ held' \in [Conns -> SUBSET Users]
      /\ sent' \in [Conns -> [Senders -> 0..MaxSend]]
      /\ upc' \in [Users -> Conns \cup {"idle"}]
      /\ SendCounted'
  <2>1. CASE \E c \in Conns : UserSend(u, c)
    <3> PICK c \in Conns : UserSend(u, c)
      BY <2>1
    <3>1. upc' = [upc EXCEPT ![u] = c] /\ UNCHANGED <<held, sent, funcs_>> /\ sent[c][u] < MaxSend
      BY DEF UserSend, MaySend
    <3> QED
      BY <1>2, <3>1 DEF TypeOK, ConnInv, SendCounted
  <2>2. CASE \E c \in Conns : UserLeaves(u, c)
    <3> PICK c \in Conns : UserLeaves(u, c)
      BY <2>2
    <3>1. /\ held' = [held EXCEPT ![c] = @ \ {u}] /\ UNCHANGED <<sent, upc>>
          /\ funcs_' = funcs_ \/ \E op \in {"shutdown", "forceClose"} : funcs_' = Append(funcs_, Func(op, c))
      BY DEF UserLeaves
    <3>2. funcs_' = funcs_ \/ \E f \in Funcs : f.op # "established" /\ funcs_' = Append(funcs_, f)
      BY <3>1, FuncTyped
    <3> QED
      BY <1>2, <3>1, <3>2 DEF TypeOK, ConnInv, SendCounted
  <2>3. CASE UserSendQueue(u)
    <3> DEFINE c == upc[u]
    <3>1. /\ upc[u] # "idle" /\ upc' = [upc EXCEPT ![u] = "idle"] /\ UNCHANGED held
          /\ funcs_' = Append(funcs_, SendFunc(c, NextMsg(c, u)))
          /\ sent' = [sent EXCEPT ![c][u] = @ + 1]
      BY <2>3 DEF UserSendQueue
    <3>2. c \in Conns /\ sent[c] \in [Senders -> 0..MaxSend] /\ sent[c][u] \in Nat /\ sent[c][u] < MaxSend
      BY <1>2, <1>3, <3>1, BoundsAssumption DEF TypeOK, ConnInv, SendCounted
    <3>3. NextMsg(c, u) \in Senders \X (1..MaxSend)
      BY <1>3, <3>2, BoundsAssumption DEF NextMsg
    <3>4. \E f \in Funcs : f.op # "established" /\ funcs_' = Append(funcs_, f)
      <4>1. SendFunc(c, NextMsg(c, u)) \in Funcs /\ SendFunc(c, NextMsg(c, u)).op = "send"
        BY <3>2, <3>3, FuncTyped
      <4> QED
        BY <3>1, <4>1
    <3>5. /\ sent' = [sent EXCEPT ![c] = [sent[c] EXCEPT ![u] = sent[c][u] + 1]]
          /\ sent[c][u] + 1 \in 0..MaxSend
      BY <3>1, <3>2, BoundsAssumption
    <3>6. [sent[c] EXCEPT ![u] = sent[c][u] + 1] \in [Senders -> 0..MaxSend]
      BY <1>3, <3>2, <3>5
    <3>7. sent' \in [Conns -> [Senders -> 0..MaxSend]]
      BY <1>2, <3>2, <3>5, <3>6 DEF TypeOK
    <3>8. upc' \in [Users -> Conns \cup {"idle"}] /\ upc'[u] = "idle" /\ \A v \in Users \ {u} : upc'[v] = upc[v]
      BY <1>2, <3>1 DEF TypeOK
    <3>9. SendCounted'
      <4> SUFFICES ASSUME NEW v \in Users, upc'[v] # "idle" PROVE sent'[upc'[v]][v] < MaxSend
        BY DEF SendCounted
      <4>1. v # u /\ upc'[v] = upc[v] /\ upc[v] \in Conns /\ v \in Senders
        BY <1>2, <3>8 DEF TypeOK, Senders
      <4>2. sent'[upc[v]][v] = sent[upc[v]][v]
        BY <1>2, <3>2, <3>5, <4>1 DEF TypeOK
      <4> QED
        BY <4>1, <4>2 DEF ConnInv, SendCounted
    <3> QED
      BY <1>2, <3>1, <3>4, <3>7, <3>8, <3>9 DEF TypeOK
  <2> QED
    BY <2>1, <2>2, <2>3
<1>5. /\ funcs_' \in Seq(Funcs)
      /\ Output' /\ StateMatches' /\ EstablishedOnce' /\ ErasesDown' /\ ServerKeeps'
  BY <1>1, <1>4, LifeUntouched
<1>6. TypeOK'
  BY <1>1, <1>2, <1>4, <1>5 DEF TypeOK
<1>7. EventsEstablished' /\ ServerStopped' /\ InboxArrived'
  BY <1>1 DEF ConnInv, EventsEstablished, ServerStopped, InboxArrived
<1> QED
  BY <1>4, <1>5, <1>6, <1>7 DEF ConnInv, Output

-----------------------------------------------------------------------------
(* The handlers of the I/O loop and the functors.                          *)

(* Handlers only put established connections down.                         *)
OnlyDown ==
    \A c \in Conns : \/ state_'[c] = state_[c]
                     \/ /\ state_[c] \notin {"none", "kConnecting"}
                        /\ state_'[c] \in {"kDisconnecting", "kDisconnected"}
                        /\ state_[c] = "kDisconnected" => state_'[c] = "kDisconnected"

(* What is down stays down, and is not written any more. *)
DownStays == \A c \in Conns : state_[c] = "kDisconnected" => state_'[c] = "kDisconnected" /\ wire'[c] = wire[c]

(* The poller has the established connections. *)
AddedOnes == \A c \in Conns : added[c] <=> state_[c] \in {"kConnected", "kDisconnecting"}

(* A handler or a functor (d = 1) that only puts connections down.         *)
LEMMA HandlerKeeps ==
    ASSUME ConnInv, NEW d \in {0, 1}, NEW q \in Seq(Funcs),
           q = (IF d = 0 THEN funcs_ ELSE Tail(funcs_)), d = 1 => funcs_ # <<>>,
           funcs_' = q \/ \E f \in Funcs : f.op # "established" /\ funcs_' = Append(q, f),
           UNCHANGED <<connSet_, revents, server>>,
           OnlyDown, AddedOnes',
           \/ baseFuncs' = baseFuncs
           \/ \E c \in Conns : state_'[c] = "kDisconnected" /\ baseFuncs' = Append(baseFuncs, c)
    PROVE  /\ funcs_' \in Seq(Funcs) /\ baseFuncs' \in Seq(Conns)
           /\ StateMatches' /\ EstablishedOnce' /\ EventsEstablished'
           /\ ErasesDown' /\ ServerKeeps' /\ ServerStopped'
<1>1. TypeOK /\ funcs_ \in Seq(Funcs) /\ EstablishedOnce /\ ErasesDown
  BY DEF ConnInv, TypeOK
<1>2. /\ funcs_' \in Seq(Funcs) /\ EstablishedOnce'
      /\ \A i \in 1..Len(funcs_') : funcs_'[i].op = "established" =>
            i + d \in 1..Len(funcs_) /\ funcs_'[i] = funcs_[i + d]
  BY <1>1, FuncsKept
<1>3. baseFuncs' \in Seq(Conns) /\ ErasesDown'
  <2>1. \A c \in Conns : state_[c] = "kDisconnected" => state_'[c] = "kDisconnected"
    BY DEF OnlyDown
  <2> QED
    BY <1>1, <2>1, ErasesKept
<1>4. StateMatches'
  <2>1. \A i \in 1..Len(funcs_') : funcs_'[i].op = "established" => state_'[funcs_'[i].conn] = "kConnecting"
    <3> SUFFICES ASSUME NEW i \in 1..Len(funcs_'), funcs_'[i].op = "established"
                 PROVE  state_'[funcs_'[i].conn] = "kConnecting"
      OBVIOUS
    <3>1. i + d \in 1..Len(funcs_) /\ funcs_'[i] = funcs_[i + d]
      BY <1>2
    <3>2. state_[funcs_'[i].conn] = "kConnecting"
      BY <3>1 DEF ConnInv, StateMatches
    <3>3. funcs_'[i].conn \in Conns
      <4>1. funcs_[i + d] \in Funcs
        BY <1>1, <3>1
      <4> QED
        BY <3>1, <4>1, FuncTyped
    <3> QED
      BY <3>2, <3>3 DEF OnlyDown
  <2> QED
    BY <2>1, Zenon DEF StateMatches, AddedOnes
<1>5. EventsEstablished'
  <2> SUFFICES ASSUME NEW c \in Conns, revents[c] # {} PROVE state_'[c] \notin {"none", "kConnecting"}
    BY DEF EventsEstablished
  <2>1. state_[c] \notin {"none", "kConnecting"}
    BY DEF ConnInv, EventsEstablished
  <2> QED
    BY <2>1 DEF OnlyDown
<1>6. ServerKeeps'
  <2> SUFFICES ASSUME server \notin {"down", "used"}, NEW c \in Conns, state_'[c] \notin {"none", "kDisconnected"}
               PROVE  c \in connSet_
    BY DEF ServerKeeps
  <2>1. state_[c] \notin {"none", "kDisconnected"}
    BY DEF OnlyDown
  <2> QED
    BY <2>1 DEF ConnInv, ServerKeeps
<1>7. ServerStopped'
  BY DEF ConnInv, ServerStopped
<1> QED
  BY <1>2, <1>3, <1>4, <1>5, <1>6, <1>7

(* handleClose() of an established connection. *)
LEMMA CloseKeeps ==
    ASSUME ConnInv, NEW c \in Conns, state_[c] \notin {"none", "kConnecting"}, HandleClose(c)
    PROVE  /\ UNCHANGED <<outputBuffer_, writeShut, wire>>
           /\ state_' \in [Conns -> {"none", "kConnecting", "kConnected", "kDisconnecting", "kDisconnected"}]
           /\ reading' \in [Conns -> BOOLEAN] /\ writing' \in [Conns -> BOOLEAN] /\ added' \in [Conns -> BOOLEAN]
           /\ state_'[c] = "kDisconnected" /\ baseFuncs' = Append(baseFuncs, c)
           /\ Output' /\ OnlyDown /\ AddedOnes'
<1>1. TypeOK /\ Output
  BY DEF ConnInv, Output
<1>2. /\ UNCHANGED <<outputBuffer_, writeShut, wire>>
      /\ baseFuncs' = Append(baseFuncs, c)
      /\ state_' \in [Conns -> {"none", "kConnecting", "kConnected", "kDisconnecting", "kDisconnected"}]
      /\ reading' \in [Conns -> BOOLEAN] /\ writing' \in [Conns -> BOOLEAN] /\ added' \in [Conns -> BOOLEAN]
      /\ state_'[c] = "kDisconnected" /\ ~added'[c]
      /\ \A d \in Conns \ {c} : state_'[d] = state_[d] /\ added'[d] = added[d]
      /\ Output'
  BY <1>1, CloseEffect
<1>3. OnlyDown
  BY <1>2 DEF OnlyDown
<1>4. AddedOnes'
  <2>1. \A d \in Conns \ {c} : added'[d] <=> state_'[d] \in {"kConnected", "kDisconnecting"}
    BY <1>2, Zenon DEF ConnInv, StateMatches
  <2>2. added'[c] <=> state_'[c] \in {"kConnected", "kDisconnecting"}
    BY <1>2
  <2>3. ASSUME NEW d \in Conns PROVE added'[d] <=> state_'[d] \in {"kConnected", "kDisconnecting"}
    <3>1. CASE d = c
      BY <2>2, <3>1
    <3>2. CASE d # c
      BY <2>1, <3>2
    <3> QED
      BY <3>1, <3>2
  <2> QED
    BY <2>3 DEF AddedOnes
<1> QED
  BY <1>2, <1>3, <1>4

(* Steps that leave state_ and the poller alone. *)
LEMMA StateKept ==
    ASSUME ConnInv, UNCHANGED <<state_, added>>
    PROVE  OnlyDown /\ AddedOnes'
<1>1. OnlyDown
  BY DEF OnlyDown
<1>2. AddedOnes'
  BY Zenon DEF ConnInv, StateMatches, AddedOnes
<1> QED
  BY <1>1, <1>2

(* handleRead(). *)
LEMMA ReadStep ==
    ASSUME ConnInv, NEW c \in Conns, HandleRead(c)
    PROVE  ConnInv' /\ DownStays
<1>1. /\ UNCHANGED <<connSet_, toClose, held, sent, upc, funcs_, io, revents, active, todo, stale, server>>
      /\ task' \in Tasks
  BY DEF HandleRead, ReadData, ReadError, ReadEof, Goto, Tasks, userVars, pollVars
<1>2. TypeOK /\ Output /\ funcs_ \in Seq(Funcs)
  BY DEF ConnInv, Output, TypeOK
<1>3. /\ inbox' \in [Conns -> 0..MaxIn] /\ arrived' \in [Conns -> 0..MaxIn]
      /\ peer' \in [Conns -> {"open", "eof", "reset", "dead"}]
      /\ InboxArrived'
  <2>1. CASE ReadData(c)
    <3>1. UNCHANGED <<arrived, peer>> /\ inbox[c] > 0 /\ inbox' = [inbox EXCEPT ![c] = inbox[c] - 1]
      BY <2>1 DEF ReadData
    <3>2. inbox \in [Conns -> 0..MaxIn] /\ arrived \in [Conns -> 0..MaxIn] /\ \A d \in Conns : inbox[d] <= arrived[d]
      BY <1>2 DEF TypeOK, ConnInv, InboxArrived
    <3>3. inbox[c] - 1 \in 0..MaxIn /\ inbox[c] - 1 <= arrived[c]
      BY <3>1, <3>2, BoundsAssumption
    <3> QED
      BY <1>2, <3>1, <3>2, <3>3 DEF TypeOK, InboxArrived
  <2>2. CASE ~ReadData(c)
    <3>1. /\ UNCHANGED arrived /\ (peer' = peer \/ peer' = [peer EXCEPT ![c] = "dead"])
          /\ inbox' = inbox \/ inbox' = [inbox EXCEPT ![c] = 0]
      BY <2>2 DEF HandleRead, ReadError, ReadEof, netVars
    <3>2. inbox \in [Conns -> 0..MaxIn] /\ arrived \in [Conns -> 0..MaxIn] /\ \A d \in Conns : inbox[d] <= arrived[d]
      BY <1>2 DEF TypeOK, ConnInv, InboxArrived
    <3>3. 0 \in 0..MaxIn /\ 0 <= arrived[c]
      BY <3>2, BoundsAssumption
    <3>4. peer' \in [Conns -> {"open", "eof", "reset", "dead"}]
      BY <1>2, <3>1 DEF TypeOK
    <3> QED
      BY <3>1, <3>2, <3>3, <3>4 DEF InboxArrived
  <2> QED
    BY <2>1, <2>2
<1>4. /\ UNCHANGED <<outputBuffer_, writeShut, wire>>
      /\ state_' \in [Conns -> {"none", "kConnecting", "kConnected", "kDisconnecting", "kDisconnected"}]
      /\ reading' \in [Conns -> BOOLEAN] /\ writing' \in [Conns -> BOOLEAN] /\ added' \in [Conns -> BOOLEAN]
      /\ Output' /\ OnlyDown /\ AddedOnes'
      /\ \/ baseFuncs' = baseFuncs
         \/ \E d \in Conns : state_'[d] = "kDisconnected" /\ baseFuncs' = Append(baseFuncs, d)
  <2>1. CASE "in" \in revents[c] /\ ReadEof(c)
    <3>1. HandleClose(c)
      BY <2>1 DEF ReadEof
    <3>2. state_[c] \notin {"none", "kConnecting"}
      BY <2>1 DEF ConnInv, EventsEstablished
    <3> QED
      BY <3>1, <3>2, CloseKeeps
  <2>2. CASE ~("in" \in revents[c] /\ ReadEof(c))
    <3>1. UNCHANGED <<state_, reading, writing, added, outputBuffer_, writeShut, wire, baseFuncs>>
      BY <2>2 DEF HandleRead, ReadData, ReadError, channelVars, outVars
    <3>2. Output'
      BY <1>2, <3>1 DEF Output, OutputWatched, FinAfterData, DownQuiet
    <3>3. OnlyDown /\ AddedOnes'
      BY <3>1, StateKept
    <3> QED
      BY <1>2, <3>1, <3>2, <3>3 DEF TypeOK
  <2> QED
    BY <2>1, <2>2
<1>5. /\ funcs_' \in Seq(Funcs) /\ baseFuncs' \in Seq(Conns)
      /\ StateMatches' /\ EstablishedOnce' /\ EventsEstablished'
      /\ ErasesDown' /\ ServerKeeps' /\ ServerStopped'
  <2>1. funcs_ = (IF 0 = 0 THEN funcs_ ELSE Tail(funcs_)) /\ 0 \in {0, 1} /\ funcs_' = funcs_
    BY <1>1
  <2> QED
    BY <1>1, <1>2, <1>4, <2>1, HandlerKeeps
<1>6. TypeOK'
  BY <1>1, <1>2, <1>3, <1>4, <1>5 DEF TypeOK
<1>7. SendCounted'
  BY <1>1 DEF ConnInv, SendCounted
<1>8. DownStays
  BY <1>4 DEF DownStays, OnlyDown
<1> QED
  BY <1>3, <1>4, <1>5, <1>6, <1>7, <1>8 DEF ConnInv, Output

(* A handler's changes, once its queues, its output and its types are      *)
(* right, keep the invariant.                                              *)
LEMMA HandlerStep ==
    ASSUME ConnInv,
           UNCHANGED <<connSet_, revents, server, inbox, arrived, peer, toClose, upc, io, active, todo>>,
           task' \in Tasks, held' \in [Conns -> SUBSET Users], stale' \subseteq Conns,
           sent' \in [Conns -> [Senders -> 0..MaxSend]], SendCounted',
           state_' \in [Conns -> {"none", "kConnecting", "kConnected", "kDisconnecting", "kDisconnected"}],
           reading' \in [Conns -> BOOLEAN], writing' \in [Conns -> BOOLEAN], added' \in [Conns -> BOOLEAN],
           outputBuffer_' \in [Conns -> Seq(Bytes)], wire' \in [Conns -> Seq(Bytes)],
           writeShut' \in [Conns -> BOOLEAN],
           funcs_' \in Seq(Funcs), baseFuncs' \in Seq(Conns),
           Output', StateMatches', EstablishedOnce', EventsEstablished', ErasesDown', ServerKeeps'
    PROVE  ConnInv'
<1>1. TypeOK'
  BY DEF ConnInv, TypeOK
<1>2. InboxArrived' /\ ServerStopped'
  BY DEF ConnInv, InboxArrived, ServerStopped
<1> QED
  BY <1>1, <1>2 DEF ConnInv, Output

(* handleWrite(). *)
LEMMA WriteStep ==
    ASSUME ConnInv, NEW c \in Conns, HandleWrite(c)
    PROVE  ConnInv' /\ DownStays
<1>1. /\ UNCHANGED <<state_, reading, added, inbox, arrived, peer, connSet_, toClose, held, sent, upc, baseFuncs,
                     io, revents, active, todo, stale, server>>
      /\ task' \in Tasks
  BY DEF HandleWrite, netVars, userVars, pollVars, Tasks
<1>2. TypeOK /\ Output /\ funcs_ \in Seq(Funcs) /\ SendCounted
  BY DEF ConnInv, Output, TypeOK
<1>3. OnlyDown /\ AddedOnes'
  BY <1>1, StateKept
<1>4. /\ wire' \in [Conns -> Seq(Bytes)]
      /\ outputBuffer_' \in [Conns -> Seq(Bytes)]
      /\ writing' \in [Conns -> BOOLEAN]
      /\ writeShut' \in [Conns -> BOOLEAN]
      /\ funcs_' = funcs_ \/ funcs_' = Append(funcs_, Func("complete", c))
      /\ Output' /\ DownStays
  <2>1. CASE Unwritten(funcs_) /\ UNCHANGED writeShut
    <3>1. funcs_' = funcs_ /\ UNCHANGED <<wire, outputBuffer_, writing, writeShut>>
      BY <2>1 DEF Unwritten
    <3>2. Output'
      BY <1>1, <1>2, <3>1 DEF Output, OutputWatched, FinAfterData, DownQuiet
    <3> QED
      BY <1>1, <1>2, <3>1, <3>2 DEF TypeOK, DownStays
  <2>2. CASE ~(Unwritten(funcs_) /\ UNCHANGED writeShut)
    <3>1. /\ writing[c] /\ ~WriteFails(c)
          /\ \E k \in 1..Len(outputBuffer_[c]) : WriteSome(c, outputBuffer_[c], k, funcs_)
          /\ writeShut' = [writeShut EXCEPT ![c] = @ \/ (state_[c] = "kDisconnecting" /\ ~writing'[c])]
      BY <2>2 DEF HandleWrite, WriteOut
    <3> DEFINE bytes == outputBuffer_[c]
               b == writeShut[c] \/ (state_[c] = "kDisconnecting" /\ ~writing'[c])
    <3>2. bytes \in Seq(Bytes)
      BY <1>2 DEF TypeOK
    <3>3. PICK k \in 1..Len(bytes) : WriteSome(c, bytes, k, funcs_)
      BY <3>1
    <3>4. k \in 0..Len(bytes)
      BY <3>2, <3>3
    <3>5. writeShut' = [writeShut EXCEPT ![c] = b]
      BY <3>1
    <3>6. b \in BOOLEAN /\ (b => writeShut[c] \/ ~writing'[c])
      OBVIOUS
    <3> HIDE DEF bytes, b
    <3>7. /\ wire' \in [Conns -> Seq(Bytes)]
          /\ outputBuffer_' \in [Conns -> Seq(Bytes)]
          /\ writing' \in [Conns -> BOOLEAN]
          /\ writing'[c] <=> outputBuffer_'[c] # <<>>
          /\ \A d \in Conns \ {c} : /\ wire'[d] = wire[d]
                                    /\ outputBuffer_'[d] = outputBuffer_[d]
                                    /\ writing'[d] = writing[d]
          /\ funcs_' = funcs_ \/ funcs_' = Append(funcs_, Func("complete", c))
      BY <1>2, <3>2, <3>3, <3>4, WriteSomeEffect
    <3>8. writeShut \in [Conns -> BOOLEAN]
      BY <1>2 DEF TypeOK
    <3>9. writeShut' \in [Conns -> BOOLEAN] /\ writeShut'[c] = b /\ \A d \in Conns \ {c} : writeShut'[d] = writeShut[d]
      BY <3>5, <3>6, <3>8, Zenon
    <3>10. ~writeShut[c]
      BY <3>1 DEF WriteFails
    <3>11. writeShut'[c] => outputBuffer_'[c] = <<>>
      BY <3>6, <3>7, <3>9, <3>10
    <3>12. state_[c] # "kDisconnected"
      BY <3>1 DEF ConnInv, DownQuiet
    <3>13. Output'
      BY <1>1, <1>2, <3>7, <3>9, <3>11, <3>12, OutputKept
    <3>14. DownStays
      BY <1>1, <3>7, <3>12 DEF DownStays
    <3> QED
      BY <3>7, <3>9, <3>13, <3>14
  <2> QED
    BY <2>1, <2>2
<1>5. /\ funcs_' \in Seq(Funcs) /\ baseFuncs' \in Seq(Conns)
      /\ StateMatches' /\ EstablishedOnce' /\ EventsEstablished'
      /\ ErasesDown' /\ ServerKeeps' /\ ServerStopped'
  <2>1. funcs_ = (IF 0 = 0 THEN funcs_ ELSE Tail(funcs_)) /\ 0 \in {0, 1}
    OBVIOUS
  <2>2. funcs_' = funcs_ \/ \E f \in Funcs : f.op # "established" /\ funcs_' = Append(funcs_, f)
    BY <1>4, FuncTyped
  <2> QED
    BY <1>1, <1>2, <1>3, <2>1, <2>2, HandlerKeeps
<1>6. /\ state_' \in [Conns -> {"none", "kConnecting", "kConnected", "kDisconnecting", "kDisconnected"}]
      /\ reading' \in [Conns -> BOOLEAN] /\ added' \in [Conns -> BOOLEAN]
      /\ held' \in [Conns -> SUBSET Users] /\ sent' \in [Conns -> [Senders -> 0..MaxSend]]
      /\ SendCounted' /\ stale' \subseteq Conns
  BY <1>1, <1>2 DEF TypeOK, SendCounted
<1>7. ConnInv'
  BY <1>1, <1>4, <1>5, <1>6, HandlerStep
<1> QED
  BY <1>4, <1>7

(* What shutdown and forceClose do to a connection, called in its loop.    *)
LEMMA DownEffect ==
    ASSUME ConnInv, NEW c \in Conns, ShutdownInLoop(c) \/ ForceCloseInLoop(c)
    PROVE  /\ UNCHANGED <<outputBuffer_, wire>>
           /\ state_' \in [Conns -> {"none", "kConnecting", "kConnected", "kDisconnecting", "kDisconnected"}]
           /\ reading' \in [Conns -> BOOLEAN] /\ writing' \in [Conns -> BOOLEAN] /\ added' \in [Conns -> BOOLEAN]
           /\ writeShut' \in [Conns -> BOOLEAN]
           /\ Output' /\ OnlyDown /\ AddedOnes'
           /\ \/ baseFuncs' = baseFuncs
              \/ \E d \in Conns : state_'[d] = "kDisconnected" /\ baseFuncs' = Append(baseFuncs, d)
<1>1. TypeOK /\ Output
  BY DEF ConnInv, Output
<1>2. CASE ShutdownInLoop(c)
  <2>1. /\ UNCHANGED <<reading, writing, added, outputBuffer_, wire, baseFuncs>>
        /\ state_' \in [Conns -> {"none", "kConnecting", "kConnected", "kDisconnecting", "kDisconnected"}]
        /\ writeShut' \in [Conns -> BOOLEAN]
        /\ \A d \in Conns : state_'[d] = state_[d] \/ (state_[d] = "kConnected" /\ state_'[d] = "kDisconnecting")
        /\ Output'
    BY <1>1, <1>2, ShutdownEffect DEF channelVars
  <2>2. OnlyDown
    BY <2>1 DEF OnlyDown
  <2>3. AddedOnes'
    <3> SUFFICES ASSUME NEW d \in Conns PROVE added'[d] <=> state_'[d] \in {"kConnected", "kDisconnecting"}
      BY DEF AddedOnes
    <3>1. added[d] <=> state_[d] \in {"kConnected", "kDisconnecting"}
      BY Zenon DEF ConnInv, StateMatches
    <3> QED
      BY <2>1, <3>1
  <2> QED
    BY <1>1, <2>1, <2>2, <2>3 DEF TypeOK
<1>3. CASE ForceCloseInLoop(c) /\ state_[c] \in {"kConnected", "kDisconnecting"}
  <2>1. HandleClose(c) /\ state_[c] \notin {"none", "kConnecting"}
    BY <1>3 DEF ForceCloseInLoop
  <2> QED
    BY <1>1, <2>1, CloseKeeps DEF TypeOK
<1>4. CASE ForceCloseInLoop(c) /\ state_[c] \notin {"kConnected", "kDisconnecting"}
  <2>1. UNCHANGED <<state_, reading, writing, added, outputBuffer_, writeShut, wire, baseFuncs>>
    BY <1>4 DEF ForceCloseInLoop, channelVars, outVars
  <2>2. OnlyDown /\ AddedOnes'
    BY <2>1, StateKept
  <2>3. Output'
    BY <1>1, <2>1 DEF Output, OutputWatched, FinAfterData, DownQuiet
  <2> QED
    BY <1>1, <2>1, <2>2, <2>3 DEF TypeOK
<1> QED
  BY <1>2, <1>3, <1>4

(* The calls of the user's code in a callback. *)
LEMMA CallbackStep ==
    ASSUME ConnInv, NEW d \in Conns, NEW c \in Conns,
           CallbackSend(d, c) \/ CallbackShutdown(d, c) \/ CallbackForceClose(d, c)
    PROVE  ConnInv' /\ DownStays
<1>1. UNCHANGED <<connSet_, revents, server, inbox, arrived, peer, toClose, held, upc, io, active, todo, task>>
  BY DEF CallbackSend, CallbackShutdown, CallbackForceClose, netVars, userVars, pollVars
<1>2. TypeOK /\ Output /\ funcs_ \in Seq(Funcs) /\ SendCounted
  BY DEF ConnInv, Output, TypeOK
<1>3. task' \in Tasks /\ held' \in [Conns -> SUBSET Users] /\ stale' \subseteq Conns
  BY <1>1, <1>2 DEF TypeOK, CallbackSend, CallbackShutdown, CallbackForceClose, pollVars
<1>4. funcs_ = (IF 0 = 0 THEN funcs_ ELSE Tail(funcs_)) /\ 0 \in {0, 1}
  OBVIOUS
<1>5. CASE CallbackSend(d, c)
  <2> DEFINE m == NextMsg(c, IoLoop)
  <2>1. /\ SendInLoop(c, m, funcs_)
        /\ sent' = [sent EXCEPT ![c] = [sent[c] EXCEPT ![IoLoop] = sent[c][IoLoop] + 1]]
        /\ sent[c][IoLoop] < MaxSend
    BY <1>5 DEF CallbackSend, MaySend
  <2>2. IoLoop \in Senders /\ sent[c] \in [Senders -> 0..MaxSend] /\ sent[c][IoLoop] \in 0..MaxSend
    BY <1>2 DEF TypeOK, Senders
  <2>3. sent[c][IoLoop] + 1 \in 1..MaxSend
    BY <2>1, <2>2, BoundsAssumption
  <2>4. m \in Senders \X (1..MaxSend)
    BY <2>2, <2>3 DEF NextMsg
  <2>5. [sent[c] EXCEPT ![IoLoop] = sent[c][IoLoop] + 1] \in [Senders -> 0..MaxSend]
    BY <2>2, <2>3, BoundsAssumption
  <2>6. sent' \in [Conns -> [Senders -> 0..MaxSend]]
    BY <1>2, <2>1, <2>5 DEF TypeOK
  <2>7. SendCounted'
    <3> SUFFICES ASSUME NEW u \in Users, upc[u] # "idle" PROVE sent'[upc[u]][u] < MaxSend
      BY <1>1 DEF SendCounted
    <3>1. u # IoLoop /\ u \in Senders /\ upc[u] \in Conns
      BY <1>2, UsersAssumption DEF TypeOK, Senders
    <3>2. sent'[upc[u]][u] = sent[upc[u]][u]
      BY <1>2, <2>1, <2>2, <3>1 DEF TypeOK
    <3> QED
      BY <1>2, <3>2 DEF SendCounted
  <2> HIDE DEF m
  <2>8. /\ UNCHANGED <<state_, reading, added, writeShut, baseFuncs>>
        /\ wire' \in [Conns -> Seq(Bytes)]
        /\ outputBuffer_' \in [Conns -> Seq(Bytes)]
        /\ writing' \in [Conns -> BOOLEAN]
        /\ funcs_' = funcs_ \/ funcs_' = Append(funcs_, Func("complete", c))
        /\ \A e \in Conns : state_[e] = "kDisconnected" => wire'[e] = wire[e]
        /\ Output'
    BY <1>2, <2>1, <2>4, SendEffect
  <2>9. OnlyDown /\ AddedOnes'
    BY <2>8, StateKept
  <2>10. funcs_' = funcs_ \/ \E f \in Funcs : f.op # "established" /\ funcs_' = Append(funcs_, f)
    BY <2>8, FuncTyped
  <2>11. /\ funcs_' \in Seq(Funcs) /\ baseFuncs' \in Seq(Conns)
         /\ StateMatches' /\ EstablishedOnce' /\ EventsEstablished'
         /\ ErasesDown' /\ ServerKeeps' /\ ServerStopped'
    BY <1>1, <1>2, <1>4, <2>8, <2>9, <2>10, HandlerKeeps
  <2>12. /\ state_' \in [Conns -> {"none", "kConnecting", "kConnected", "kDisconnecting", "kDisconnected"}]
         /\ reading' \in [Conns -> BOOLEAN] /\ added' \in [Conns -> BOOLEAN] /\ writeShut' \in [Conns -> BOOLEAN]
    BY <1>2, <2>8 DEF TypeOK
  <2>13. ConnInv'
    BY <1>1, <1>3, <2>6, <2>7, <2>8, <2>11, <2>12, HandlerStep
  <2> QED
    BY <2>8, <2>13 DEF DownStays
<1>6. CASE CallbackShutdown(d, c) \/ CallbackForceClose(d, c)
  <2>1. (ShutdownInLoop(c) \/ ForceCloseInLoop(c)) /\ UNCHANGED <<funcs_, sent>>
    BY <1>6 DEF CallbackShutdown, CallbackForceClose, userVars
  <2>2. /\ UNCHANGED <<outputBuffer_, wire>>
        /\ state_' \in [Conns -> {"none", "kConnecting", "kConnected", "kDisconnecting", "kDisconnected"}]
        /\ reading' \in [Conns -> BOOLEAN] /\ writing' \in [Conns -> BOOLEAN] /\ added' \in [Conns -> BOOLEAN]
        /\ writeShut' \in [Conns -> BOOLEAN]
        /\ Output' /\ OnlyDown /\ AddedOnes'
        /\ \/ baseFuncs' = baseFuncs
           \/ \E e \in Conns : state_'[e] = "kDisconnected" /\ baseFuncs' = Append(baseFuncs, e)
    BY <2>1, DownEffect
  <2>3. /\ funcs_' \in Seq(Funcs) /\ baseFuncs' \in Seq(Conns)
        /\ StateMatches' /\ EstablishedOnce' /\ EventsEstablished'
        /\ ErasesDown' /\ ServerKeeps' /\ ServerStopped'
    BY <1>1, <1>2, <1>4, <2>1, <2>2, HandlerKeeps
  <2>4. /\ outputBuffer_' \in [Conns -> Seq(Bytes)] /\ wire' \in [Conns -> Seq(Bytes)]
        /\ sent' \in [Conns -> [Senders -> 0..MaxSend]] /\ SendCounted'
    BY <1>1, <1>2, <2>1, <2>2 DEF TypeOK, SendCounted
  <2>5. ConnInv'
    BY <1>1, <1>3, <2>2, <2>3, <2>4, HandlerStep
  <2> QED
    BY <2>2, <2>5 DEF DownStays, OnlyDown
<1> QED
  BY <1>5, <1>6

(* doPendingFuncs runs the next functor. *)
LEMMA FunctorStep ==
    ASSUME ConnInv, RunFunctor
    PROVE  ConnInv' /\ DownStays
<1> DEFINE f == Head(funcs_)
           q == Tail(funcs_)
           c == f.conn
<1>1. /\ UNCHANGED <<connSet_, revents, server, inbox, arrived, peer, toClose, upc, io, active, todo, stale, sent>>
      /\ funcs_ # <<>>
  BY DEF RunFunctor, netVars, pollVars
<1>2. TypeOK /\ Output /\ funcs_ \in Seq(Funcs) /\ SendCounted /\ EstablishedOnce /\ StateMatches
  BY DEF ConnInv, Output, TypeOK
<1>3. /\ q \in Seq(Funcs) /\ Len(q) = Len(funcs_) - 1 /\ Len(funcs_) \in Nat
      /\ \A i \in 1..Len(q) : q[i] = funcs_[i + 1] /\ i + 1 \in 1..Len(funcs_)
      /\ f = funcs_[1] /\ 1 \in 1..Len(funcs_) /\ f \in Funcs
  BY <1>1, <1>2, TailProps
<1>4. c \in Conns /\ (f.op = "send" => f.msg \in Senders \X (1..MaxSend))
  BY <1>3, FuncTyped
<1>5. q = (IF 1 = 0 THEN funcs_ ELSE Tail(funcs_)) /\ 1 \in {0, 1}
  OBVIOUS
<1>6. sent' \in [Conns -> [Senders -> 0..MaxSend]] /\ SendCounted' /\ stale' \subseteq Conns
  BY <1>1, <1>2 DEF TypeOK, SendCounted
<1>7. CASE f.op = "established" /\ RunEstablished(c)
  <2> DEFINE t == TRUE
  <2>1. /\ state_' = [state_ EXCEPT ![c] = "kConnected"]
        /\ reading' = [reading EXCEPT ![c] = t]
        /\ added' = [added EXCEPT ![c] = t]
        /\ held' = [held EXCEPT ![c] = Users]
        /\ task' = [conn |-> c, at |-> "funcCallback"]
        /\ funcs_' = q
        /\ UNCHANGED <<writing, outputBuffer_, writeShut, wire, baseFuncs>>
    BY <1>7 DEF RunEstablished, updateChannel, Goto, outVars
  <2>2. t \in BOOLEAN /\ t
    OBVIOUS
  <2> HIDE DEF t
  <2>3. state_[c] = "kConnecting"
    BY <1>2, <1>3, <1>7 DEF StateMatches
  <2>4. reading \in [Conns -> BOOLEAN] /\ added \in [Conns -> BOOLEAN]
    BY <1>2 DEF TypeOK
  <2>5. /\ reading' \in [Conns -> BOOLEAN] /\ added' \in [Conns -> BOOLEAN]
        /\ added'[c] = t /\ \A d \in Conns \ {c} : added'[d] = added[d]
    BY <1>4, <2>1, <2>2, <2>4, Zenon
  <2>6. /\ state_' \in [Conns -> {"none", "kConnecting", "kConnected", "kDisconnecting", "kDisconnected"}]
        /\ state_'[c] = "kConnected" /\ \A d \in Conns \ {c} : state_'[d] = state_[d]
    BY <1>2, <1>4, <2>1 DEF TypeOK
  <2>7. held' \in [Conns -> SUBSET Users] /\ task' \in Tasks
    BY <1>2, <1>4, <2>1 DEF TypeOK, Tasks
  <2>8. Output'
    <3>1. (writing[c] <=> outputBuffer_[c] # <<>>) /\ (writeShut[c] => outputBuffer_[c] = <<>>)
      BY <1>2, <1>4, <2>3 DEF Output, OutputWatched, FinAfterData
    <3> QED
      BY <1>2, <1>4, <2>1, <2>6, <3>1, OutputKept
  <2>9. EstablishedOnce'
    <3>1. funcs_' = q \/ funcs_' = <<>> \/ \E g \in Funcs : g.op # "established" /\ funcs_' = Append(q, g)
      BY <2>1
    <3> HIDE DEF q
    <3> QED
      BY <1>1, <1>2, <1>3, <1>5, <3>1, FuncsKept
  <2> HIDE DEF f, q, c
  <2>10. StateMatches'
    <3>1. ASSUME NEW i \in 1..Len(q), q[i].op = "established" PROVE state_'[q[i].conn] = "kConnecting"
      <4>1. q[i] = funcs_[i + 1] /\ i + 1 \in 1..Len(funcs_) /\ i + 1 # 1
        BY <1>3, <3>1
      <4>2. q[i].conn # c
        BY <1>2, <1>3, <1>7, <3>1, <4>1 DEF EstablishedOnce, f, c
      <4>3. q[i].conn \in Conns
        BY <1>2, <4>1, FuncTyped
      <4>4. state_[q[i].conn] = "kConnecting"
        BY <1>2, <3>1, <4>1 DEF StateMatches
      <4> QED
        BY <2>6, <4>2, <4>3, <4>4
    <3>2. ASSUME NEW d \in Conns PROVE added'[d] <=> state_'[d] \in {"kConnected", "kDisconnecting"}
      <4>1. CASE d = c
        BY <2>2, <2>5, <2>6, <4>1
      <4>2. CASE d # c
        BY <1>2, <2>5, <2>6, <4>2, Zenon DEF StateMatches
      <4> QED
        BY <4>1, <4>2
    <3> QED
      BY <2>1, <3>1, <3>2 DEF StateMatches
  <2>11. baseFuncs' \in Seq(Conns) /\ ErasesDown'
    <3>1. \A d \in Conns : state_[d] = "kDisconnected" => state_'[d] = "kDisconnected"
      BY <2>3, <2>6
    <3>2. ErasesDown
      BY DEF ConnInv
    <3> QED
      BY <1>2, <2>1, <3>1, <3>2, ErasesKept
  <2>12. EventsEstablished' /\ ServerKeeps'
    BY <1>1, <1>4, <2>3, <2>6 DEF ConnInv, EventsEstablished, ServerKeeps
  <2>13. /\ writing' \in [Conns -> BOOLEAN] /\ outputBuffer_' \in [Conns -> Seq(Bytes)]
         /\ wire' \in [Conns -> Seq(Bytes)] /\ writeShut' \in [Conns -> BOOLEAN] /\ funcs_' \in Seq(Funcs)
    BY <1>2, <1>3, <2>1 DEF TypeOK
  <2>14. ConnInv'
    BY <1>1, <1>6, <2>5, <2>6, <2>7, <2>8, <2>9, <2>10, <2>11, <2>12, <2>13, HandlerStep
  <2> QED
    BY <2>1, <2>3, <2>6, <2>14 DEF DownStays
<1>8. CASE f.op = "send" /\ SendInLoop(c, f.msg, q) /\ UNCHANGED <<held, task>>
  <2>1. /\ UNCHANGED <<state_, reading, added, writeShut, baseFuncs>>
        /\ wire' \in [Conns -> Seq(Bytes)]
        /\ outputBuffer_' \in [Conns -> Seq(Bytes)]
        /\ writing' \in [Conns -> BOOLEAN]
        /\ funcs_' = q \/ funcs_' = Append(q, Func("complete", c))
        /\ \A d \in Conns : state_[d] = "kDisconnected" => wire'[d] = wire[d]
        /\ Output'
    BY <1>2, <1>4, <1>8, SendEffect
  <2>2. OnlyDown /\ AddedOnes'
    BY <2>1, StateKept
  <2>3. funcs_' = q \/ \E g \in Funcs : g.op # "established" /\ funcs_' = Append(q, g)
    BY <1>4, <2>1, FuncTyped
  <2> HIDE DEF q
  <2>4. /\ funcs_' \in Seq(Funcs) /\ baseFuncs' \in Seq(Conns)
        /\ StateMatches' /\ EstablishedOnce' /\ EventsEstablished'
        /\ ErasesDown' /\ ServerKeeps' /\ ServerStopped'
    BY <1>1, <1>3, <1>5, <2>1, <2>2, <2>3, HandlerKeeps
  <2>5. /\ state_' \in [Conns -> {"none", "kConnecting", "kConnected", "kDisconnecting", "kDisconnected"}]
        /\ reading' \in [Conns -> BOOLEAN] /\ added' \in [Conns -> BOOLEAN] /\ writeShut' \in [Conns -> BOOLEAN]
        /\ held' \in [Conns -> SUBSET Users] /\ task' \in Tasks
    BY <1>2, <1>8, <2>1 DEF TypeOK
  <2>6. ConnInv'
    BY <1>1, <1>6, <2>1, <2>4, <2>5, HandlerStep
  <2> QED
    BY <2>1, <2>6 DEF DownStays
<1>9. CASE (ShutdownInLoop(c) \/ ForceCloseInLoop(c)) /\ funcs_' = q /\ UNCHANGED <<held, task>>
  <2>1. /\ UNCHANGED <<outputBuffer_, wire>>
        /\ state_' \in [Conns -> {"none", "kConnecting", "kConnected", "kDisconnecting", "kDisconnected"}]
        /\ reading' \in [Conns -> BOOLEAN] /\ writing' \in [Conns -> BOOLEAN] /\ added' \in [Conns -> BOOLEAN]
        /\ writeShut' \in [Conns -> BOOLEAN]
        /\ Output' /\ OnlyDown /\ AddedOnes'
        /\ \/ baseFuncs' = baseFuncs
           \/ \E d \in Conns : state_'[d] = "kDisconnected" /\ baseFuncs' = Append(baseFuncs, d)
    BY <1>4, <1>9, DownEffect
  <2> HIDE DEF q
  <2>2. /\ funcs_' \in Seq(Funcs) /\ baseFuncs' \in Seq(Conns)
        /\ StateMatches' /\ EstablishedOnce' /\ EventsEstablished'
        /\ ErasesDown' /\ ServerKeeps' /\ ServerStopped'
    BY <1>1, <1>3, <1>5, <1>9, <2>1, HandlerKeeps
  <2>3. /\ outputBuffer_' \in [Conns -> Seq(Bytes)] /\ wire' \in [Conns -> Seq(Bytes)]
        /\ held' \in [Conns -> SUBSET Users] /\ task' \in Tasks
    BY <1>2, <1>9, <2>1 DEF TypeOK
  <2>4. ConnInv'
    BY <1>1, <1>6, <2>1, <2>2, <2>3, HandlerStep
  <2> QED
    BY <2>1, <2>4 DEF DownStays, OnlyDown
<1>10. CASE /\ Goto(c, "funcCallback") /\ funcs_' = q
            /\ UNCHANGED <<state_, channelVars, outVars, held, baseFuncs>>
  <2>1. /\ UNCHANGED <<state_, reading, writing, added, outputBuffer_, writeShut, wire, held, baseFuncs>>
        /\ task' = [conn |-> c, at |-> "funcCallback"]
    BY <1>10 DEF Goto, channelVars, outVars
  <2>2. OnlyDown /\ AddedOnes'
    BY <2>1, StateKept
  <2>3. Output'
    BY <1>2, <2>1 DEF Output, OutputWatched, FinAfterData, DownQuiet
  <2> HIDE DEF q
  <2>4. /\ funcs_' \in Seq(Funcs) /\ baseFuncs' \in Seq(Conns)
        /\ StateMatches' /\ EstablishedOnce' /\ EventsEstablished'
        /\ ErasesDown' /\ ServerKeeps' /\ ServerStopped'
    BY <1>1, <1>3, <1>5, <1>10, <2>1, <2>2, HandlerKeeps
  <2>5. /\ state_' \in [Conns -> {"none", "kConnecting", "kConnected", "kDisconnecting", "kDisconnected"}]
        /\ reading' \in [Conns -> BOOLEAN] /\ writing' \in [Conns -> BOOLEAN] /\ added' \in [Conns -> BOOLEAN]
        /\ writeShut' \in [Conns -> BOOLEAN]
        /\ outputBuffer_' \in [Conns -> Seq(Bytes)] /\ wire' \in [Conns -> Seq(Bytes)]
        /\ held' \in [Conns -> SUBSET Users] /\ task' \in Tasks
    BY <1>2, <1>4, <2>1 DEF TypeOK, Tasks
  <2>6. ConnInv'
    BY <1>1, <1>6, <2>3, <2>4, <2>5, HandlerStep
  <2> QED
    BY <2>1, <2>6 DEF DownStays
<1> QED
  BY <1>7, <1>8, <1>9, <1>10 DEF RunFunctor

-----------------------------------------------------------------------------
(* The invariant holds at the start. *)
LEMMA InitHolds == ASSUME Init PROVE ConnInv
<1>1. \A c \in Conns : ~writing[c] /\ ~added[c] /\ ~writeShut[c]
  BY Zenon DEF Init
<1>2. TypeOK
  <2>1. /\ 0 \in 0..MaxIn /\ 0 \in 0..MaxSend
    BY BoundsAssumption
  <2>2. /\ reading \in [Conns -> BOOLEAN] /\ writing \in [Conns -> BOOLEAN] /\ added \in [Conns -> BOOLEAN]
        /\ writeShut \in [Conns -> BOOLEAN]
    <3> DEFINE f == FALSE
    <3>1. /\ reading = [c \in Conns |-> f] /\ writing = [c \in Conns |-> f] /\ added = [c \in Conns |-> f]
          /\ writeShut = [c \in Conns |-> f] /\ f \in BOOLEAN
      BY DEF Init
    <3> HIDE DEF f
    <3> QED
      BY <3>1, Zenon
  <2> QED
    BY <2>1, <2>2 DEF Init, TypeOK, Tasks
<1>3. Output
  BY <1>1 DEF Init, Output, OutputWatched, FinAfterData, DownQuiet
<1>4. StateMatches /\ EstablishedOnce /\ ErasesDown
  BY <1>1 DEF Init, StateMatches, EstablishedOnce, ErasesDown
<1>5. EventsEstablished /\ ServerKeeps /\ ServerStopped /\ InboxArrived /\ SendCounted
  BY DEF Init, EventsEstablished, ServerKeeps, ServerStopped, InboxArrived, SendCounted
<1> QED
  BY <1>2, <1>3, <1>4, <1>5 DEF ConnInv, Output

(* Every step keeps it, and what is down stays down. *)
LEMMA NextHolds == ASSUME ConnInv, [Next]_vars PROVE ConnInv' /\ DownStays
<1>1. CASE UNCHANGED vars
  <2>1. UNCHANGED <<state_, reading, writing, added, outputBuffer_, writeShut, wire, inbox, arrived, peer,
                    connSet_, toClose, held, sent, upc, funcs_, baseFuncs, io, revents, active, todo, stale, task, server>>
    BY <1>1 DEF vars, channelVars, outVars, netVars, userVars, pollVars
  <2>2. TypeOK'
    BY <2>1 DEF ConnInv, TypeOK
  <2>3. Output' /\ StateMatches' /\ EstablishedOnce' /\ EventsEstablished'
    BY <2>1 DEF ConnInv, Output, OutputWatched, FinAfterData, DownQuiet, StateMatches, EstablishedOnce,
                EventsEstablished
  <2>4. ErasesDown' /\ ServerKeeps' /\ ServerStopped' /\ InboxArrived' /\ SendCounted'
    BY <2>1 DEF ConnInv, ErasesDown, ServerKeeps, ServerStopped, InboxArrived, SendCounted
  <2> QED
    BY <2>1, <2>2, <2>3, <2>4 DEF ConnInv, Output, DownStays
<1>2. ASSUME NEW c \in Conns, NewConnection(c) PROVE ConnInv' /\ DownStays
  <2>1. DownStays
    BY <1>2 DEF NewConnection, outVars, DownStays
  <2> QED
    BY <1>2, <2>1, NewConnectionStep
<1>3. ASSUME NEW c \in Conns, PeerSends(c) \/ PeerCloses(c) PROVE ConnInv' /\ DownStays
  <2>1. DownStays
    BY <1>3 DEF PeerSends, PeerCloses, outVars, DownStays
  <2> QED
    BY <1>3, <2>1, PeerStep
<1>4. CASE ServerClose \/ ServerSteps
  <2>1. \/ ServerClose \/ ServerQuit \/ ServerDown \/ BaseErase \/ BaseAfterServer
        \/ \E c \in Conns : ServerForceClose(c)
    BY <1>4 DEF ServerSteps
  <2>2. DownStays
    BY <2>1 DEF ServerClose, ServerQuit, ServerDown, BaseErase, BaseAfterServer, ServerForceClose, outVars, DownStays
  <2> QED
    BY <2>1, <2>2, ServerStep
<1>5. ASSUME NEW u \in Users, UserSendQueue(u) \/ \E c \in Conns : UserSend(u, c) \/ UserLeaves(u, c)
      PROVE  ConnInv' /\ DownStays
  <2>1. DownStays
    BY <1>5 DEF UserSendQueue, UserSend, UserLeaves, outVars, DownStays
  <2> QED
    BY <1>5, <2>1, UserStep
<1>6. CASE IoSteps
  <2>1. CASE \/ IoPoll \/ HandlingDone \/ FunctorsDone \/ IoCheck \/ IoExit
             \/ \E c \in Conns : HandleEvent(c) \/ CallbackReturns(c)
    <3>1. DownStays
      BY <2>1 DEF IoPoll, HandlingDone, FunctorsDone, IoCheck, IoExit, HandleEvent, CallbackReturns, outVars,
                  DownStays
    <3> QED
      BY <2>1, <3>1, TurnStep
  <2>2. CASE \E c \in Conns : HandleRead(c)
    BY <2>2, ReadStep
  <2>3. CASE \E c \in Conns : HandleWrite(c)
    BY <2>3, WriteStep
  <2>4. CASE RunFunctor
    BY <2>4, FunctorStep
  <2> QED
    BY <1>6, <2>1, <2>2, <2>3, <2>4 DEF IoSteps
<1>7. CASE Callbacks
  BY <1>7, CallbackStep DEF Callbacks
<1> QED
  BY <1>1, <1>2, <1>3, <1>4, <1>5, <1>6, <1>7 DEF Next

(* The invariant of the connections, whatever the server, the users and    *)
(* the peers do (TcpConnection.cpp, TcpServer.cpp).                        *)
THEOREM ConnIndInv == Spec => []ConnInv
<1>1. Init => ConnInv
  BY InitHolds
<1>2. ConnInv /\ [Next]_vars => ConnInv'
  BY NextHolds
<1> QED
  BY <1>1, <1>2, PTL DEF Spec

(* Every variable keeps its type: the functors, bytes and erases queued    *)
(* are of connections and senders that exist.                              *)
THEOREM ConnTypeCorrect == Spec => []TypeOK
<1>1. ConnInv => TypeOK
  BY DEF ConnInv
<1> QED
  BY <1>1, ConnIndInv, PTL

(* The output of a connection that is not down is watched exactly while    *)
(* some waits (enableWriting and disableWriting, TcpConnection.cpp:150,    *)
(* 255), so that no byte waits for an event nobody asked for.              *)
THEOREM OutputSafety == Spec => []OutputWatched
<1>1. ConnInv => OutputWatched
  BY DEF ConnInv
<1> QED
  BY <1>1, ConnIndInv, PTL

(* closeWrite() waits for the output, whether shutdown() found it empty    *)
(* (TcpConnection.cpp:172) or handleWrite() emptied it (261).              *)
THEOREM FinSafety == Spec => []FinAfterData
<1>1. ConnInv => FinAfterData
  BY DEF ConnInv
<1> QED
  BY <1>1, ConnIndInv, PTL

(* What removing the first of the queued erases and adding one do to the   *)
(* test for the assertion: only handleClose() makes the queue longer.      *)
LEMMA ClosesOnly ==
    ASSUME TypeOK, NEW c \in Conns, Closes(c)
    PROVE  /\ baseFuncs' # baseFuncs
           /\ baseFuncs' # <<>>
           /\ baseFuncs # <<>> => baseFuncs' # Tail(baseFuncs)
<1>1. baseFuncs \in Seq(Conns) /\ baseFuncs' = Append(baseFuncs, c)
  BY DEF TypeOK, Closes
<1>2. Len(baseFuncs') = Len(baseFuncs) + 1 /\ Len(baseFuncs) \in Nat
  BY <1>1, AppendProps
<1>3. baseFuncs # <<>> => Len(Tail(baseFuncs)) = Len(baseFuncs) - 1
  BY <1>1, TailProps
<1> QED
  BY <1>2, <1>3

(* The events that wait stay those of connections that are up, or stale.   *)
LEMMA PendingStep ==
    ASSUME ConnInv, EventsPending, [Next]_vars
    PROVE  EventsPending'
<1>1. TypeOK /\ StateMatches
  BY DEF ConnInv
<1>2. CASE \/ UNCHANGED vars
           \/ \E c \in Conns : NewConnection(c) \/ PeerSends(c) \/ PeerCloses(c)
           \/ ServerClose \/ ServerSteps
           \/ \E u \in Users : UserSendQueue(u) \/ \E c \in Conns : UserSend(u, c) \/ UserLeaves(u, c)
           \/ \E d, c \in Conns : CallbackSend(d, c) \/ CallbackShutdown(d, c)
  <2>1. UNCHANGED <<io, todo, stale, task, added>>
    BY <1>2 DEF vars, pollVars, channelVars, NewConnection, PeerSends, PeerCloses, ServerClose, ServerSteps, BaseErase,
                ServerQuit, ServerDown, BaseAfterServer, ServerForceClose, UserSendQueue, UserSend, UserLeaves,
                CallbackSend, CallbackShutdown, SendInLoop, ShutdownInLoop
  <2> QED
    BY <2>1 DEF EventsPending, At
<1>3. CASE IoPoll
  <2>1. task = NoTask /\ task' = NoTask /\ io' = "handling" /\ UNCHANGED <<added, stale>>
    BY <1>3 DEF IoPoll, EventsPending, channelVars
  <2>2. ASSUME NEW c \in Conns, c \in todo' PROVE added[c]
    <3>1. revents'[c] # {}
      BY <1>3, <2>2 DEF IoPoll
    <3> PICK i \in Ready(c), o \in Writable(c) : revents'[c] = i \cup o
      BY <1>3 DEF IoPoll
    <3>2. ~added[c] => Ready(c) = {{}} /\ Writable(c) = {{}}
      BY Zenon DEF Ready, Writable
    <3> QED
      BY <3>1, <3>2
  <2>3. \A c \in Conns : ~At(c, "read")'
    BY <2>1 DEF At, NoTask
  <2> QED
    BY <2>1, <2>2, <2>3 DEF EventsPending
<1>4. ASSUME NEW c \in Conns, HandleEvent(c) PROVE EventsPending'
  <2>1. /\ c \in todo /\ todo' = todo \ {c} /\ task' = [conn |-> c, at |-> "read"]
        /\ io = "handling" /\ UNCHANGED <<io, stale, added>>
    BY <1>4 DEF HandleEvent, channelVars
  <2>2. \A e \in Conns : At(e, "read")' => e = c
    BY <2>1 DEF At
  <2> QED
    BY <2>1, <2>2 DEF EventsPending
<1>5. ASSUME NEW c \in Conns, HandleRead(c) PROVE EventsPending'
  <2>1. /\ task = [conn |-> c, at |-> "read"] /\ UNCHANGED <<io, todo, stale>>
        /\ task' = [conn |-> c, at |-> "callback"] \/ task' = [conn |-> c, at |-> "write"]
        /\ UNCHANGED added \/ added' = [added EXCEPT ![c] = FALSE]
    BY <1>5 DEF HandleRead, ReadData, ReadError, ReadEof, HandleClose, connectionClosed, connectDestroyed,
                removeChannel, At, Goto, pollVars, channelVars
  <2>2. task # NoTask
    BY <2>1 DEF NoTask
  <2>3. c \notin todo /\ io \in {"handling", "functors"}
    BY <2>1, <2>2 DEF EventsPending
  <2>4. \A e \in Conns \ {c} : added'[e] = added[e]
    <3>1. CASE UNCHANGED added
      BY <3>1
    <3>2. CASE added' = [added EXCEPT ![c] = FALSE]
      BY <1>1, <3>2, Zenon DEF TypeOK
    <3> QED
      BY <2>1, <3>1, <3>2
  <2>5. \A e \in Conns : ~At(e, "read")' /\ task'.conn = c
    BY <2>1 DEF At
  <2>6. ASSUME NEW e \in Conns, e \notin stale, e \in todo PROVE added'[e]
    BY <2>3, <2>4, <2>6 DEF EventsPending
  <2> QED
    BY <2>1, <2>3, <2>5, <2>6 DEF EventsPending
<1>6. ASSUME NEW c \in Conns, HandleWrite(c) \/ CallbackReturns(c) PROVE EventsPending'
  <2>1. /\ task # NoTask /\ task.conn = c /\ UNCHANGED <<io, todo, stale, added>>
        /\ task' = [conn |-> c, at |-> "write"] \/ task' = NoTask
    BY <1>6 DEF HandleWrite, CallbackReturns, InCallback, At, NoTask, channelVars, pollVars
  <2>2. \A e \in Conns : ~At(e, "read")'
    BY <2>1 DEF At, NoTask
  <2>3. task' # NoTask => task'.conn = c
    BY <2>1
  <2> QED
    BY <2>1, <2>2, <2>3 DEF EventsPending
<1>7. CASE HandlingDone \/ FunctorsDone \/ IoCheck \/ IoExit
  <2>1. task = NoTask /\ task' = task /\ todo = {} /\ todo' = todo /\ UNCHANGED <<stale, added>>
    BY <1>7 DEF HandlingDone, FunctorsDone, IoCheck, IoExit, EventsPending, channelVars, pollVars
  <2>2. \A e \in Conns : ~At(e, "read")'
    BY <2>1 DEF At, NoTask
  <2> QED
    BY <2>1, <2>2 DEF EventsPending
<1>8. CASE RunFunctor
  <2>1. io = "functors" /\ task = NoTask /\ UNCHANGED <<io, todo, stale>>
    BY <1>8 DEF RunFunctor, pollVars
  <2>2. todo = {}
    BY <2>1 DEF EventsPending
  <2>3. task' = NoTask \/ \E c \in Conns : task' = [conn |-> c, at |-> "funcCallback"]
    <3>1. \A i \in 1..Len(funcs_) : funcs_[i] \in Funcs
      BY <1>1 DEF TypeOK
    <3>2. Head(funcs_) \in Funcs
      BY <1>1, <1>8, TailProps DEF TypeOK, RunFunctor
    <3>3. Head(funcs_).conn \in Conns
      BY <3>2, FuncTyped
    <3> QED
      BY <1>8, <2>1, <3>3 DEF RunFunctor, RunEstablished, Goto
  <2>4. \A e \in Conns : ~At(e, "read")'
    BY <2>3 DEF At, NoTask
  <2> QED
    BY <2>1, <2>2, <2>4 DEF EventsPending
<1>9. ASSUME NEW d \in Conns, NEW c \in Conns, CallbackForceClose(d, c) PROVE EventsPending'
  <2>1. /\ task # NoTask /\ task.conn = d /\ task.at # "read"
        /\ UNCHANGED <<io, todo, task>> /\ stale' = stale \cup ({c} \cap todo)
        /\ added' = [added EXCEPT ![c] = FALSE]
    BY <1>9 DEF CallbackForceClose, MayUse, InCallback, At, NoTask, ForceCloseInLoop, HandleClose, connectionClosed,
                connectDestroyed, removeChannel
  <2>2. \A e \in Conns \ {c} : added'[e] = added[e]
    BY <1>1, <2>1, Zenon DEF TypeOK
  <2>3. \A e \in Conns : ~At(e, "read")'
    BY <2>1 DEF At
  <2>4. ASSUME NEW e \in Conns, e \notin stale', e \in todo' PROVE added'[e]
    BY <2>1, <2>2, <2>4 DEF EventsPending
  <2> QED
    BY <2>1, <2>3, <2>4 DEF EventsPending
<1> QED
  BY <1>2, <1>3, <1>4, <1>5, <1>6, <1>7, <1>8, <1>9 DEF Next, IoSteps, Callbacks

(* A step that enters handleClose() finds the connection up, or stale.     *)
LEMMA ClosesUp ==
    ASSUME ConnInv, EventsPending, [Next]_vars, NEW c \in Conns, c \notin stale, Closes(c)
    PROVE  state_[c] \in {"kConnected", "kDisconnecting"}
<1>1. TypeOK /\ StateMatches
  BY DEF ConnInv
<1>2. baseFuncs' # baseFuncs /\ baseFuncs' # <<>> /\ (baseFuncs # <<>> => baseFuncs' # Tail(baseFuncs))
  BY <1>1, ClosesOnly
<1>3. baseFuncs \in Seq(Conns) /\ baseFuncs' = Append(baseFuncs, c)
  BY <1>1 DEF TypeOK, Closes
<1>4. ASSUME NEW d \in Conns, HandleClose(d) PROVE d = c
  <2>1. baseFuncs' = Append(baseFuncs, d)
    BY <1>4 DEF HandleClose, connectionClosed
  <2>2. baseFuncs'[Len(baseFuncs) + 1] = d
    BY <1>3, <2>1, AppendProps
  <2>3. baseFuncs'[Len(baseFuncs) + 1] = c
    BY <1>3, AppendProps
  <2> QED
    BY <2>2, <2>3
<1>5. ASSUME NEW d \in Conns, ForceCloseInLoop(d) PROVE state_[c] \in {"kConnected", "kDisconnecting"}
  BY <1>2, <1>4, <1>5 DEF ForceCloseInLoop
<1>6. ASSUME NEW d \in Conns, HandleRead(d) PROVE state_[c] \in {"kConnected", "kDisconnecting"}
  <2>1. At(d, "read") /\ HandleClose(d)
    BY <1>2, <1>6 DEF HandleRead, ReadData, ReadError, ReadEof
  <2>2. added[c]
    BY <1>4, <2>1 DEF EventsPending
  <2> QED
    BY <1>1, <2>2, Zenon DEF StateMatches
<1>7. CASE RunFunctor
  <2>1. Head(funcs_).conn \in Conns
    <3>1. Head(funcs_) \in Funcs
      BY <1>1, <1>7, TailProps DEF TypeOK, RunFunctor
    <3> QED
      BY <3>1, FuncTyped
  <2>2. ForceCloseInLoop(Head(funcs_).conn)
    BY <1>2, <1>7 DEF RunFunctor, RunEstablished, SendInLoop, ShutdownInLoop
  <2> QED
    BY <1>5, <2>1, <2>2
<1>8. ASSUME NEW d \in Conns, NEW e \in Conns, CallbackSend(d, e) \/ CallbackShutdown(d, e) \/ CallbackForceClose(d, e)
      PROVE  state_[c] \in {"kConnected", "kDisconnecting"}
  <2>1. ForceCloseInLoop(e)
    BY <1>2, <1>8 DEF CallbackSend, CallbackShutdown, CallbackForceClose, SendInLoop, ShutdownInLoop
  <2> QED
    BY <1>5, <2>1
<1>9. CASE \/ UNCHANGED vars
           \/ \E d \in Conns : NewConnection(d) \/ PeerSends(d) \/ PeerCloses(d)
           \/ ServerClose \/ ServerSteps
           \/ \E u \in Users : UserSendQueue(u) \/ \E d \in Conns : UserSend(u, d) \/ UserLeaves(u, d)
           \/ IoPoll \/ HandlingDone \/ FunctorsDone \/ IoCheck \/ IoExit
           \/ \E d \in Conns : HandleEvent(d) \/ HandleWrite(d) \/ CallbackReturns(d)
  <2>1. \/ baseFuncs' = baseFuncs \/ baseFuncs' = <<>>
        \/ baseFuncs # <<>> /\ baseFuncs' = Tail(baseFuncs)
    BY <1>9 DEF vars, NewConnection, PeerSends, PeerCloses, ServerClose, ServerSteps, BaseErase, ServerQuit, ServerDown,
                BaseAfterServer, ServerForceClose, UserSendQueue, UserSend, UserLeaves, IoPoll, HandlingDone,
                FunctorsDone, IoCheck, IoExit, HandleEvent, HandleWrite, CallbackReturns
  <2> QED
    BY <1>2, <2>1
<1> QED
  BY <1>6, <1>7, <1>8, <1>9 DEF Next, IoSteps, Callbacks

(* The events that wait for their handler, at every moment. *)
LEMMA PendingInv == Spec => []EventsPending
<1>1. Init => EventsPending
  BY DEF Init, EventsPending, At, NoTask
<1>2. ConnInv /\ EventsPending /\ [Next]_vars => EventsPending'
  BY PendingStep
<1> QED
  BY <1>1, <1>2, ConnIndInv, PTL DEF Spec

(* connectEstablished() finds kConnecting (TcpConnection.cpp:201), and     *)
(* handleClose() is entered in kConnected or kDisconnecting (287), by a    *)
(* functor, a callback or an event, for every connection that no other's   *)
(* callback closed while its event waited.                                 *)
THEOREM StateSafety == Spec => StateAsserted
<1>1. ConnInv /\ EventsPending /\ [Next]_vars =>
        [/\ \A i \in 1..Len(funcs_) : funcs_[i].op = "established" => state_[funcs_[i].conn] = "kConnecting"
         /\ \A c \in Conns \ stale : Closes(c) => state_[c] \in {"kConnected", "kDisconnecting"}]_vars
  BY ClosesUp DEF ConnInv, StateMatches
<1> QED
  BY <1>1, ConnIndInv, PendingInv, PTL DEF Spec, StateAsserted

(* The erase of a connection finds it in connSet_ (TcpServer.cpp:97), once *)
(* for every connection that no other's callback closed while its event    *)
(* waited, as long as the server lives.                                    *)
LEMMA EraseStep ==
    ASSUME ConnInv, EventsPending, ErasedOnce, [Next]_vars
    PROVE  ErasedOnce'
<1>1. /\ baseFuncs \in Seq(Conns) /\ ErasesDown /\ ServerKeeps
      /\ \A i \in 1..Len(baseFuncs) : baseFuncs[i] \in Conns
  BY DEF ConnInv, TypeOK
<1>2. SUFFICES ASSUME server' \notin {"down", "used"}, NEW i \in 1..Len(baseFuncs'), baseFuncs'[i] \notin stale'
               PROVE  /\ baseFuncs'[i] \in connSet_'
                      /\ \A j \in 1..Len(baseFuncs') : baseFuncs'[i] = baseFuncs'[j] => i = j
  BY Zenon DEF ErasedOnce
<1>3. stale \subseteq stale' /\ server \notin {"down", "used"}
  <2>1. stale \subseteq stale'
    BY DEF Next, IoSteps, Callbacks, vars, pollVars, NewConnection, PeerSends, PeerCloses, ServerClose, ServerSteps,
           BaseErase, ServerQuit, ServerDown, BaseAfterServer, ServerForceClose, UserSendQueue, UserSend, UserLeaves,
           IoPoll, HandlingDone, FunctorsDone, IoCheck, IoExit, HandleEvent, HandleRead, HandleWrite, CallbackReturns,
           RunFunctor, CallbackSend, CallbackShutdown, CallbackForceClose
  <2>2. server \notin {"down", "used"}
    BY <1>2 DEF Next, IoSteps, Callbacks, vars, NewConnection, PeerSends, PeerCloses, ServerClose, ServerSteps,
           BaseErase, ServerQuit, ServerDown, BaseAfterServer, ServerForceClose, UserSendQueue, UserSend, UserLeaves,
           IoPoll, HandlingDone, FunctorsDone, IoCheck, IoExit, HandleEvent, HandleRead, HandleWrite, CallbackReturns,
           RunFunctor, CallbackSend, CallbackShutdown, CallbackForceClose
  <2> QED
    BY <2>1, <2>2
<1>4. CASE BaseErase
  <2>1. /\ baseFuncs # <<>> /\ connSet_' = connSet_ \ {Head(baseFuncs)} /\ baseFuncs' = Tail(baseFuncs)
    BY <1>4 DEF BaseErase
  <2>2. /\ Len(baseFuncs') = Len(baseFuncs) - 1 /\ Len(baseFuncs) \in Nat
        /\ \A j \in 1..(Len(baseFuncs) - 1) : baseFuncs'[j] = baseFuncs[j + 1]
        /\ Head(baseFuncs) = baseFuncs[1] /\ 1 \in 1..Len(baseFuncs)
    BY <1>1, <2>1, TailProps
  <2>3. i + 1 \in 1..Len(baseFuncs) /\ baseFuncs'[i] = baseFuncs[i + 1] /\ baseFuncs[i + 1] \notin stale
    BY <1>2, <1>3, <2>2
  <2>4. /\ baseFuncs[i + 1] \in connSet_
        /\ \A j \in 1..Len(baseFuncs) : baseFuncs[i + 1] = baseFuncs[j] => i + 1 = j
    BY <1>3, <2>3 DEF ErasedOnce
  <2>5. baseFuncs[i + 1] # baseFuncs[1]
    BY <2>2, <2>4
  <2>6. ASSUME NEW j \in 1..Len(baseFuncs'), baseFuncs'[i] = baseFuncs'[j] PROVE i = j
    <3>1. j + 1 \in 1..Len(baseFuncs) /\ baseFuncs'[j] = baseFuncs[j + 1]
      BY <2>2
    <3>2. i + 1 = j + 1
      BY <2>3, <2>4, <2>6, <3>1
    <3> QED
      BY <3>2
  <2> QED
    BY <2>1, <2>2, <2>3, <2>4, <2>5, <2>6
<1>5. CASE ~BaseErase
  <2>1. connSet_ \subseteq connSet_'
    BY <1>2, <1>5 DEF Next, IoSteps, Callbacks, vars, NewConnection, PeerSends, PeerCloses, ServerClose, ServerSteps,
           ServerQuit, ServerDown, BaseAfterServer, ServerForceClose, UserSendQueue, UserSend, UserLeaves,
           IoPoll, HandlingDone, FunctorsDone, IoCheck, IoExit, HandleEvent, HandleRead, HandleWrite, CallbackReturns,
           RunFunctor, CallbackSend, CallbackShutdown, CallbackForceClose
  <2>2. CASE baseFuncs' = baseFuncs
    BY <1>2, <1>3, <2>1, <2>2 DEF ErasedOnce
  <2>3. ASSUME NEW c \in Conns, Closes(c)
        PROVE  /\ baseFuncs'[i] \in connSet_'
               /\ \A j \in 1..Len(baseFuncs') : baseFuncs'[i] = baseFuncs'[j] => i = j
    <3>1. /\ Len(baseFuncs') = Len(baseFuncs) + 1 /\ Len(baseFuncs) \in Nat
          /\ \A j \in 1..Len(baseFuncs) : baseFuncs'[j] = baseFuncs[j]
          /\ baseFuncs'[Len(baseFuncs) + 1] = c
      BY <1>1, <2>3, AppendProps DEF Closes
    <3>2. \A j \in 1..Len(baseFuncs') : j \in 1..Len(baseFuncs) \/ j = Len(baseFuncs) + 1
      BY <3>1
    <3>3. c \notin stale => c \in connSet_ /\ \A j \in 1..Len(baseFuncs) : baseFuncs[j] # c
      <4> SUFFICES ASSUME c \notin stale PROVE c \in connSet_ /\ \A j \in 1..Len(baseFuncs) : baseFuncs[j] # c
        OBVIOUS
      <4>1. state_[c] \in {"kConnected", "kDisconnecting"}
        BY <2>3, ClosesUp
      <4>2. \A j \in 1..Len(baseFuncs) : state_[baseFuncs[j]] = "kDisconnected"
        BY <1>1 DEF ErasesDown
      <4>3. c \in connSet_
        BY <1>1, <1>3, <4>1 DEF ServerKeeps
      <4> QED
        BY <4>1, <4>2, <4>3
    <3>4. CASE i = Len(baseFuncs) + 1
      <4>1. baseFuncs'[i] = c /\ c \notin stale
        BY <1>2, <1>3, <3>1, <3>4
      <4> QED
        BY <2>1, <3>1, <3>2, <3>3, <3>4, <4>1
    <3>5. CASE i \in 1..Len(baseFuncs)
      <4>1. baseFuncs'[i] = baseFuncs[i] /\ baseFuncs[i] \notin stale
        BY <1>2, <1>3, <3>1, <3>5
      <4>2. baseFuncs[i] \in connSet_ /\ \A j \in 1..Len(baseFuncs) : baseFuncs[i] = baseFuncs[j] => i = j
        BY <1>3, <3>5, <4>1 DEF ErasedOnce
      <4>3. baseFuncs[i] # c
        BY <3>3, <3>5, <4>1
      <4> QED
        BY <2>1, <3>1, <3>2, <4>1, <4>2, <4>3
    <3> QED
      BY <3>2, <3>4, <3>5
  <2>4. baseFuncs' = baseFuncs \/ \E c \in Conns : Closes(c)
    <3>1. \A c \in Conns : HandleClose(c) => Closes(c)
      BY DEF HandleClose, connectionClosed, Closes
    <3>2. \A c \in Conns : ForceCloseInLoop(c) => baseFuncs' = baseFuncs \/ Closes(c)
      BY <3>1 DEF ForceCloseInLoop
    <3>3. ASSUME NEW c \in Conns, HandleRead(c) PROVE baseFuncs' = baseFuncs \/ Closes(c)
      BY <3>1, <3>3 DEF HandleRead, ReadData, ReadError, ReadEof
    <3>4. CASE RunFunctor
      <4>1. Head(funcs_) \in Funcs
        BY <3>4, TailProps DEF ConnInv, TypeOK, RunFunctor
      <4>2. Head(funcs_).conn \in Conns
        BY <4>1, FuncTyped
      <4>3. ForceCloseInLoop(Head(funcs_).conn) \/ baseFuncs' = baseFuncs
        BY <3>4 DEF RunFunctor, RunEstablished, SendInLoop, ShutdownInLoop
      <4> QED
        BY <3>2, <4>2, <4>3
    <3>5. ASSUME NEW d \in Conns, NEW c \in Conns, CallbackSend(d, c) \/ CallbackShutdown(d, c) \/ CallbackForceClose(d, c)
          PROVE  baseFuncs' = baseFuncs \/ Closes(c)
      BY <3>2, <3>5 DEF CallbackSend, CallbackShutdown, CallbackForceClose, SendInLoop, ShutdownInLoop
    <3>6. CASE \/ UNCHANGED vars
               \/ \E d \in Conns : NewConnection(d) \/ PeerSends(d) \/ PeerCloses(d)
               \/ ServerClose \/ ServerSteps
               \/ \E u \in Users : UserSendQueue(u) \/ \E d \in Conns : UserSend(u, d) \/ UserLeaves(u, d)
               \/ IoPoll \/ HandlingDone \/ FunctorsDone \/ IoCheck \/ IoExit
               \/ \E d \in Conns : HandleEvent(d) \/ HandleWrite(d) \/ CallbackReturns(d)
      BY <1>3, <1>5, <3>6 DEF vars, NewConnection, PeerSends, PeerCloses, ServerClose, ServerSteps, ServerQuit,
                  ServerDown, BaseAfterServer, ServerForceClose, UserSendQueue, UserSend, UserLeaves, IoPoll,
                  HandlingDone, FunctorsDone, IoCheck, IoExit, HandleEvent, HandleWrite, CallbackReturns
    <3> QED
      BY <3>3, <3>4, <3>5, <3>6 DEF Next, IoSteps, Callbacks
  <2> QED
    BY <2>2, <2>3, <2>4
<1> QED
  BY <1>4, <1>5

(* assert(n == 1) in the functor of connectionClosed() (TcpServer.cpp:97): *)
(* as long as the server lives, the connection is in connSet_ and is       *)
(* erased by no other functor, but for those that another's callback       *)
(* closed while their event waited.                                        *)
THEOREM EraseSafety == Spec => []ErasedOnce
<1>1. Init => ErasedOnce
  BY DEF Init, ErasedOnce
<1>2. ConnInv /\ EventsPending /\ ErasedOnce /\ [Next]_vars => ErasedOnce'
  BY EraseStep
<1> QED
  BY <1>1, <1>2, ConnIndInv, PendingInv, PTL DEF Spec

(* A connection that is down stays down and is not written any more.       *)
THEOREM DownSafety == Spec => DownStaysDown
<1>1. ConnInv /\ [Next]_vars => [\A c \in Conns : state_[c] = "kDisconnected" =>
                                     state_[c]' = "kDisconnected" /\ wire[c]' = wire[c]]_vars
  BY NextHolds DEF DownStays
<1> QED
  BY <1>1, ConnIndInv, PTL DEF Spec, DownStaysDown

(* The assertion of ~TcpConnection (TcpConnection.cpp:46), for a server    *)
(* that is never destroyed: connSet_ keeps what is not down.               *)
THEOREM DestroySafety == Spec => [](~ServerStops => DestroyedDisconnected)
<1>1. ConnInv => (~ServerStops => DestroyedDisconnected)
  <2> SUFFICES ASSUME ConnInv, ~ServerStops, NEW c \in Conns, Destroyed(c)
               PROVE  state_[c] = "kDisconnected"
    BY DEF DestroyedDisconnected
  <2>1. server \notin {"down", "used"}
    BY DEF ConnInv, ServerStopped
  <2>2. state_[c] # "none" /\ c \notin connSet_
    BY DEF Destroyed, Referenced
  <2> QED
    BY <2>1, <2>2 DEF ConnInv, ServerKeeps
<1> QED
  BY <1>1, ConnIndInv, PTL

-----------------------------------------------------------------------------
(* The messages.  What is queued of a sender comes after all that is in    *)
(* the stream of the connection, and nothing is queued of the loop's own   *)
(* callbacks, which write at once.                                         *)

(* The body of MessagesWhole, for one stream. *)
Ordered(s) == \A i \in 1..Len(s) :
    /\ s[i][3] = 1 => i < Len(s) /\ s[i + 1] = <<s[i][1], s[i][2], 2>>
    /\ \A j \in 1..Len(s) : i < j /\ s[i][1] = s[j][1] => s[i][2] <= s[j][2]

(* Nothing is in a stream that has not been sent. *)
StreamSent == \A c \in Conns : \A i \in 1..Len(Stream(c)) : Stream(c)[i][2] <= sent[c][Stream(c)[i][1]]
(* Users queue what they send; the loop's callbacks write it at once. *)
QueueSent == \A i \in 1..Len(funcs_) : funcs_[i].op = "send" =>
    funcs_[i].msg[1] # IoLoop /\ funcs_[i].msg[2] <= sent[funcs_[i].conn][funcs_[i].msg[1]]

(* The bytes of a connection are older than m. *)
Older(c, m) == \A i \in 1..Len(Stream(c)) : Stream(c)[i][1] = m[1] => Stream(c)[i][2] < m[2]
(* What waits in the queue is newer than what is in the stream, and in the *)
(* order in which its sender sent it.                                      *)
QueueLater == \A i \in 1..Len(funcs_), c \in Conns, m \in Senders \X (1..MaxSend) :
    funcs_[i] = SendFunc(c, m) => Older(c, m)
QueueOrdered == \A i, j \in 1..Len(funcs_) :
    /\ i < j /\ funcs_[i].op = "send" /\ funcs_[j].op = "send"
    /\ funcs_[i].conn = funcs_[j].conn /\ funcs_[i].msg[1] = funcs_[j].msg[1]
    => funcs_[i].msg[2] < funcs_[j].msg[2]

Messages ==
    /\ \A c \in Conns : Ordered(Stream(c))
    /\ StreamSent /\ QueueSent /\ QueueLater /\ QueueOrdered

(* The two parts of what was cut, put together behind w. *)
LEMMA CutTogether ==
    ASSUME NEW S, NEW w \in Seq(S), NEW s \in Seq(S), NEW k \in 0..Len(s)
    PROVE  (w \o SubSeq(s, 1, k)) \o SubSeq(s, k + 1, Len(s)) = (w \o <<>>) \o s
<1> DEFINE x == SubSeq(s, 1, k)
           y == SubSeq(s, k + 1, Len(s))
<1>1. x \in Seq(S) /\ y \in Seq(S)
  BY WriteParts
<1>2. x \o y = s
  <2>1. Len(s) \in Nat /\ 1 \in 1..(Len(s) + 1) /\ k \in (1 - 1)..Len(s) /\ Len(s) \in k..Len(s)
    BY LenProperties
  <2>2. x \o y = SubSeq(s, 1, Len(s))
    BY <2>1, ConcatAdjacentSubSeq
  <2> QED
    BY <2>2, SubSeqFull
<1> HIDE DEF x, y
<1>3. (w \o x) \o y = w \o (x \o y) /\ w \o <<>> = w
  BY <1>1, ConcatAssociative, ConcatEmptySeq
<1> QED
  BY <1>2, <1>3 DEF x, y

(* A message at the end of a stream whose bytes are not newer. *)
LEMMA MessageAtEnd ==
    ASSUME NEW s \in Seq(Bytes), NEW m \in Senders \X (1..MaxSend), Ordered(s),
           \A i \in 1..Len(s) : s[i][1] = m[1] => s[i][2] <= m[2]
    PROVE  LET r == s \o BytesOf(m) IN
           /\ Ordered(r)
           /\ \A i \in 1..Len(r) : \/ i \in 1..Len(s) /\ r[i] = s[i]
                                   \/ r[i][1] = m[1] /\ r[i][2] = m[2]
<1> DEFINE b == BytesOf(m)
           r == s \o b
           n == Len(s)
           one == <<m[1], m[2], 1>>
           two == <<m[1], m[2], 2>>
<1>1. b \in Seq(Bytes) /\ Len(b) = 2 /\ b[1] = one /\ b[2] = two
  BY MessageBytes DEF BytesOf
<1>2. /\ n \in Nat /\ Len(r) = n + 2
      /\ \A i \in 1..n : r[i] = s[i]
      /\ r[n + 1] = one /\ r[n + 2] = two
  <2> HIDE DEF b, one, two
  <2>1. n \in Nat
    BY LenProperties
  <2>2. /\ Len(r) = n + Len(b)
        /\ \A i \in 1..(n + Len(b)) : r[i] = IF i <= n THEN s[i] ELSE b[i - n]
    BY <1>1, ConcatProperties
  <2> HIDE DEF r, n
  <2>3. ASSUME NEW i \in 1..n PROVE r[i] = s[i]
    <3>1. i \in 1..(n + Len(b)) /\ i <= n
      BY <1>1, <2>1
    <3> QED
      BY <2>2, <3>1
  <2>4. n + 1 \in 1..(n + Len(b)) /\ ~(n + 1 <= n) /\ (n + 1) - n = 1
    BY <1>1, <2>1
  <2>5. n + 2 \in 1..(n + Len(b)) /\ ~(n + 2 <= n) /\ (n + 2) - n = 2
    BY <1>1, <2>1
  <2>6. r[n + 1] = one /\ r[n + 2] = two
    BY <1>1, <2>2, <2>4, <2>5
  <2> QED
    BY <1>1, <2>1, <2>2, <2>3, <2>6
<1>3. /\ one[1] = m[1] /\ one[2] = m[2] /\ one[3] = 1
      /\ two[1] = m[1] /\ two[2] = m[2] /\ two[3] = 2
      /\ two = <<one[1], one[2], 2>>
  OBVIOUS
<1>4. \A i \in 1..n : s[i] \in Bytes /\ s[i][2] \in Nat
  BY DEF Bytes
<1>5. m[2] \in Nat
  OBVIOUS
<1> HIDE DEF one, two, r, n, b
<1>6. \A i \in 1..Len(r) : i \in 1..n \/ i = n + 1 \/ i = n + 2
  BY <1>2
<1>7. \A i \in 1..n : s[i][3] = 1 => i + 1 \in 1..n /\ s[i + 1] = <<s[i][1], s[i][2], 2>>
  BY <1>2 DEF Ordered, n
<1>8. ASSUME NEW i \in 1..Len(r) PROVE r[i][3] = 1 => i < Len(r) /\ r[i + 1] = <<r[i][1], r[i][2], 2>>
  <2>1. CASE i \in 1..n
    <3>1. r[i] = s[i]
      BY <1>2, <2>1
    <3>2. CASE s[i][3] = 1
      <4>1. i + 1 \in 1..n /\ s[i + 1] = <<s[i][1], s[i][2], 2>>
        BY <1>7, <2>1, <3>2
      <4>2. r[i + 1] = s[i + 1] /\ i < Len(r)
        BY <1>2, <2>1, <4>1
      <4> QED
        BY <3>1, <4>1, <4>2
    <3> QED
      BY <3>1, <3>2
  <2>2. CASE i = n + 1
    <3>1. i + 1 = n + 2 /\ i < Len(r)
      BY <1>2, <2>2
    <3> QED
      BY <1>2, <1>3, <2>2, <3>1
  <2>3. CASE i = n + 2
    BY <1>2, <1>3, <2>3
  <2> QED
    BY <1>6, <2>1, <2>2, <2>3
<1>9. ASSUME NEW i \in 1..Len(r), NEW j \in 1..Len(r), i < j, r[i][1] = r[j][1] PROVE r[i][2] <= r[j][2]
  <2>1. CASE j \in 1..n
    <3>1. i \in 1..n
      BY <1>2, <1>9, <2>1
    <3> QED
      BY <1>2, <1>9, <2>1, <3>1 DEF Ordered, n
  <2>2. CASE j \notin 1..n
    <3>1. r[j][1] = m[1] /\ r[j][2] = m[2]
      BY <1>2, <1>3, <1>6, <2>2
    <3>2. CASE i \in 1..n
      BY <1>2, <1>9, <3>1, <3>2 DEF n
    <3>3. CASE i \notin 1..n
      <4>1. r[i][2] = m[2]
        BY <1>2, <1>3, <1>6, <3>3
      <4> QED
        BY <1>5, <3>1, <4>1
    <3> QED
      BY <3>2, <3>3
  <2> QED
    BY <2>1, <2>2
<1>10. Ordered(r)
  BY <1>8, <1>9 DEF Ordered
<1>11. \A i \in 1..Len(r) : (i \in 1..n /\ r[i] = s[i]) \/ (r[i][1] = m[1] /\ r[i][2] = m[2])
  BY <1>2, <1>3, <1>6
<1> QED
  BY <1>10, <1>11 DEF r, n, b

(* Streams are made of bytes. *)
LEMMA StreamTyped == ASSUME TypeOK, NEW c \in Conns PROVE Stream(c) \in Seq(Bytes)
BY DEF TypeOK, Stream

(* sendInLoop() adds the message whole to the stream of its connection, or *)
(* drops it.                                                               *)
LEMMA SendStream ==
    ASSUME TypeOK, NEW c \in Conns, NEW m \in Senders \X (1..MaxSend), NEW q, SendInLoop(c, m, q)
    PROVE  /\ Stream(c)' = Stream(c) \/ Stream(c)' = Stream(c) \o BytesOf(m)
           /\ \A d \in Conns \ {c} : Stream(d)' = Stream(d)
<1>1. wire \in [Conns -> Seq(Bytes)] /\ outputBuffer_ \in [Conns -> Seq(Bytes)]
  BY DEF TypeOK
<1>2. CASE Unwritten(q)
  BY <1>2 DEF Unwritten, Stream
<1>3. CASE WritesDirectly(c) /\ \E k \in 0..2 : WriteSome(c, BytesOf(m), k, q)
  <2> DEFINE b == BytesOf(m)
  <2>1. PICK k \in 0..2 : WriteSome(c, b, k, q)
    BY <1>3
  <2>2. b \in Seq(Bytes) /\ Len(b) = 2
    BY MessageBytes
  <2> HIDE DEF b
  <2>3. /\ wire' = [wire EXCEPT ![c] = @ \o SubSeq(b, 1, k)]
        /\ outputBuffer_' = [outputBuffer_ EXCEPT ![c] = SubSeq(b, k + 1, Len(b))]
    BY <2>1 DEF WriteSome
  <2>4. outputBuffer_[c] = <<>>
    BY <1>3 DEF WritesDirectly
  <2>5. Stream(c)' = Stream(c) \o b
    <3>1. (wire[c] \o SubSeq(b, 1, k)) \o SubSeq(b, k + 1, Len(b)) = (wire[c] \o <<>>) \o b
      <4>1. wire[c] \in Seq(Bytes)
        BY <1>1
      <4> QED
        BY <2>2, <4>1, CutTogether
    <3> QED
      BY <1>1, <2>3, <2>4, <3>1 DEF Stream
  <2>6. \A d \in Conns \ {c} : Stream(d)' = Stream(d)
    BY <1>1, <2>3 DEF Stream
  <2> QED
    BY <2>5, <2>6 DEF b
<1>4. CASE outputBuffer_' = [outputBuffer_ EXCEPT ![c] = @ \o BytesOf(m)] /\ UNCHANGED wire
  <2> DEFINE b == BytesOf(m)
  <2>1. b \in Seq(Bytes)
    BY MessageBytes
  <2> HIDE DEF b
  <2>2. wire[c] \o (outputBuffer_[c] \o b) = (wire[c] \o outputBuffer_[c]) \o b
    <3> DEFINE w == wire[c]
               o == outputBuffer_[c]
    <3>1. w \in Seq(Bytes) /\ o \in Seq(Bytes)
      BY <1>1
    <3> HIDE DEF w, o
    <3>2. (w \o o) \o b = w \o (o \o b)
      BY <2>1, <3>1, ConcatAssociative
    <3> QED
      BY <3>2 DEF w, o
  <2>3. outputBuffer_' = [outputBuffer_ EXCEPT ![c] = @ \o b]
    BY <1>4 DEF b
  <2>4. Stream(c)' = Stream(c) \o b /\ \A d \in Conns \ {c} : Stream(d)' = Stream(d)
    BY <1>1, <1>4, <2>2, <2>3 DEF Stream
  <2> QED
    BY <2>4 DEF b
<1> QED
  BY <1>2, <1>3, <1>4 DEF SendInLoop

(* handleWrite() moves bytes from the buffer to the socket. *)
LEMMA WriteStream ==
    ASSUME TypeOK, NEW c \in Conns, HandleWrite(c)
    PROVE  /\ \A d \in Conns : Stream(d)' = Stream(d)
           /\ funcs_' = funcs_ \/ funcs_' = Append(funcs_, Func("complete", c))
<1>1. wire \in [Conns -> Seq(Bytes)] /\ outputBuffer_ \in [Conns -> Seq(Bytes)]
  BY DEF TypeOK
<1>2. CASE Unwritten(funcs_)
  BY <1>2 DEF Unwritten, Stream
<1>3. CASE \E k \in 1..Len(outputBuffer_[c]) : WriteSome(c, outputBuffer_[c], k, funcs_)
  <2> DEFINE b == outputBuffer_[c]
  <2>1. PICK k \in 1..Len(b) : WriteSome(c, b, k, funcs_)
    BY <1>3
  <2>2. /\ wire' = [wire EXCEPT ![c] = @ \o SubSeq(b, 1, k)]
        /\ outputBuffer_' = [outputBuffer_ EXCEPT ![c] = SubSeq(b, k + 1, Len(b))]
        /\ funcs_' = funcs_ \/ funcs_' = Append(funcs_, Func("complete", c))
    BY <2>1 DEF WriteSome
  <2>3. (wire[c] \o SubSeq(b, 1, k)) \o SubSeq(b, k + 1, Len(b)) = (wire[c] \o <<>>) \o b
    <3>1. wire[c] \in Seq(Bytes) /\ b \in Seq(Bytes) /\ k \in 0..Len(b)
      BY <1>1
    <3> HIDE DEF b
    <3> QED
      BY <3>1, CutTogether
  <2>4. wire[c] \o <<>> = wire[c]
    <3>1. wire[c] \in Seq(Bytes)
      BY <1>1
    <3> QED
      BY <3>1, ConcatEmptySeq
  <2>5. Stream(c)' = Stream(c) /\ \A d \in Conns \ {c} : Stream(d)' = Stream(d)
    BY <1>1, <2>2, <2>3, <2>4 DEF Stream
  <2> QED
    BY <2>2, <2>5
<1> QED
  BY <1>2, <1>3 DEF HandleWrite, WriteOut

(* The functors that stay in the queue keep their order, and no send() is  *)
(* queued but by a user thread.                                            *)
SendsShift(d) ==
    \A i \in 1..Len(funcs_') : funcs_'[i].op = "send" => i + d \in 1..Len(funcs_) /\ funcs_'[i] = funcs_[i + d]

LEMMA SendsKept ==
    ASSUME funcs_ \in Seq(Funcs), NEW d \in {0, 1}, NEW q \in Seq(Funcs),
           q = (IF d = 0 THEN funcs_ ELSE Tail(funcs_)), d = 1 => funcs_ # <<>>,
           funcs_' = q \/ funcs_' = <<>> \/ \E f \in Funcs : f.op # "send" /\ funcs_' = Append(q, f)
    PROVE  SendsShift(d)
<1>1. Len(q) \in Nat /\ \A i \in 1..Len(q) : i + d \in 1..Len(funcs_) /\ q[i] = funcs_[i + d]
  <2>1. CASE d = 0
    BY <2>1
  <2>2. CASE d = 1
    BY <2>2, TailProps
  <2> QED
    BY <2>1, <2>2
<1>2. \A i \in 1..Len(funcs_') : funcs_'[i].op = "send" => i \in 1..Len(q) /\ funcs_'[i] = q[i]
  <2>1. CASE funcs_' = q
    BY <2>1
  <2>2. CASE funcs_' = <<>>
    BY <2>2
  <2>3. CASE \E f \in Funcs : f.op # "send" /\ funcs_' = Append(q, f)
    <3> PICK f \in Funcs : f.op # "send" /\ funcs_' = Append(q, f)
      BY <2>3
    <3>1. /\ Len(funcs_') = Len(q) + 1
          /\ \A i \in 1..Len(q) : funcs_'[i] = q[i]
          /\ funcs_'[Len(q) + 1] = f
      BY AppendProps
    <3>2. \A i \in 1..Len(funcs_') : i \in 1..Len(q) \/ i = Len(q) + 1
      BY <1>1, <3>1
    <3> QED
      BY <3>1, <3>2
  <2> QED
    BY <2>1, <2>2, <2>3
<1> QED
  BY <1>1, <1>2 DEF SendsShift

(* The elements of the queue. *)
LEMMA QueueTyped ==
    ASSUME TypeOK, NEW i \in 1..Len(funcs_), funcs_[i].op = "send"
    PROVE  /\ funcs_[i].conn \in Conns
           /\ funcs_[i].msg \in Senders \X (1..MaxSend)
           /\ funcs_[i].msg[1] \in Senders /\ funcs_[i].msg[2] \in 1..MaxSend
<1>1. funcs_[i] \in Funcs
  BY DEF TypeOK
<1>2. funcs_[i].conn \in Conns /\ funcs_[i].msg \in Senders \X (1..MaxSend)
  BY <1>1, FuncTyped
<1> QED
  BY <1>2

(* What is left to show of a step that queues no send(). *)
LEMMA MessagesShift ==
    ASSUME TypeOK, sent' \in [Conns -> [Senders -> 0..MaxSend]], Messages,
           NEW d \in {0, 1}, SendsShift(d),
           \A c \in Conns, s \in Senders : sent[c][s] <= sent'[c][s],
           \A c \in Conns : Ordered(Stream(c))',
           StreamSent',
           \A i \in 1..Len(funcs_), c \in Conns, m \in Senders \X (1..MaxSend) :
               i > d /\ funcs_[i] = SendFunc(c, m) => Older(c, m)'
    PROVE  Messages'
<1>1. ASSUME NEW i \in 1..Len(funcs_'), funcs_'[i].op = "send"
      PROVE  i + d \in 1..Len(funcs_) /\ i + d > d /\ funcs_'[i] = funcs_[i + d] /\ funcs_[i + d].op = "send"
  BY <1>1 DEF SendsShift
<1>2. QueueSent'
  <2> SUFFICES ASSUME NEW i \in 1..Len(funcs_'), funcs_'[i].op = "send"
               PROVE  /\ funcs_'[i].msg[1] # IoLoop
                      /\ funcs_'[i].msg[2] <= sent'[funcs_'[i].conn][funcs_'[i].msg[1]]
    BY DEF QueueSent
  <2> DEFINE f == funcs_[i + d]
  <2>1. i + d \in 1..Len(funcs_) /\ funcs_'[i] = f /\ f.op = "send"
    BY <1>1
  <2>2. f.msg[1] # IoLoop /\ f.msg[2] <= sent[f.conn][f.msg[1]]
    BY <2>1 DEF Messages, QueueSent
  <2>3. f.conn \in Conns /\ f.msg[1] \in Senders /\ f.msg[2] \in Nat
    BY <2>1, QueueTyped
  <2> HIDE DEF f
  <2> DEFINE a == sent[f.conn][f.msg[1]]
             b == sent'[f.conn][f.msg[1]]
  <2>4. a <= b
    BY <2>3
  <2>5. a \in Nat /\ b \in Nat
    <3>1. sent \in [Conns -> [Senders -> 0..MaxSend]]
      BY DEF TypeOK
    <3>2. sent[f.conn] \in [Senders -> 0..MaxSend] /\ sent'[f.conn] \in [Senders -> 0..MaxSend]
      BY <2>3, <3>1
    <3>3. a \in 0..MaxSend /\ b \in 0..MaxSend
      BY <2>3, <3>2
    <3> QED
      BY <3>3, BoundsAssumption
  <2>6. f.msg[2] <= a
    BY <2>2
  <2> HIDE DEF a, b
  <2>7. f.msg[2] <= b
    BY <2>3, <2>4, <2>5, <2>6
  <2> QED
    BY <2>1, <2>2, <2>7 DEF b
<1>3. QueueLater'
  <2> SUFFICES ASSUME NEW i \in 1..Len(funcs_'), NEW c \in Conns, NEW m \in Senders \X (1..MaxSend),
                      funcs_'[i] = SendFunc(c, m)
               PROVE  Older(c, m)'
    BY DEF QueueLater
  <2>1. funcs_'[i].op = "send"
    BY FuncTyped
  <2> QED
    BY <1>1, <2>1
<1>4. QueueOrdered'
  <2> SUFFICES ASSUME NEW i \in 1..Len(funcs_'), NEW j \in 1..Len(funcs_'), i < j,
                      funcs_'[i].op = "send", funcs_'[j].op = "send",
                      funcs_'[i].conn = funcs_'[j].conn, funcs_'[i].msg[1] = funcs_'[j].msg[1]
               PROVE  funcs_'[i].msg[2] < funcs_'[j].msg[2]
    BY DEF QueueOrdered
  <2>1. /\ i + d \in 1..Len(funcs_) /\ funcs_'[i] = funcs_[i + d]
        /\ j + d \in 1..Len(funcs_) /\ funcs_'[j] = funcs_[j + d]
    BY <1>1
  <2>2. i + d < j + d
    OBVIOUS
  <2> QED
    BY <2>1, <2>2 DEF Messages, QueueOrdered
<1> QED
  BY <1>2, <1>3, <1>4 DEF Messages

(* A step that leaves the streams alone and sends nothing.                 *)
LEMMA MessagesKept ==
    ASSUME TypeOK, Messages, NEW d \in {0, 1}, SendsShift(d),
           sent' = sent, \A c \in Conns : Stream(c)' = Stream(c)
    PROVE  Messages'
<1>1. sent' \in [Conns -> [Senders -> 0..MaxSend]] /\ \A c \in Conns, s \in Senders : sent[c][s] <= sent'[c][s]
  <2>1. sent \in [Conns -> [Senders -> 0..MaxSend]]
    BY DEF TypeOK
  <2>2. ASSUME NEW c \in Conns, NEW s \in Senders PROVE sent[c][s] \in Int
    <3>1. sent[c] \in [Senders -> 0..MaxSend]
      BY <2>1
    <3> QED
      BY <3>1
  <2> QED
    BY <2>1, <2>2
<1>2. \A c \in Conns : Ordered(Stream(c))'
  BY DEF Messages, Ordered
<1>3. StreamSent'
  BY DEF Messages, StreamSent
<1>4. \A c \in Conns, m \in Senders \X (1..MaxSend) : Older(c, m) => Older(c, m)'
  BY DEF Older
<1>5. \A i \in 1..Len(funcs_), c \in Conns, m \in Senders \X (1..MaxSend) :
          i > d /\ funcs_[i] = SendFunc(c, m) => Older(c, m)'
  BY <1>4 DEF Messages, QueueLater
<1> QED
  BY <1>1, <1>2, <1>3, <1>5, MessagesShift

(* sendInLoop(): the message comes after all of its sender that is in the  *)
(* stream, and before all of its sender that is queued.                    *)
LEMMA MessageSent ==
    ASSUME TypeOK, Messages, NEW d \in {0, 1}, SendsShift(d),
           sent' \in [Conns -> [Senders -> 0..MaxSend]],
           \A e \in Conns, s \in Senders : sent[e][s] <= sent'[e][s],
           NEW c \in Conns, NEW m \in Senders \X (1..MaxSend), NEW q, SendInLoop(c, m, q),
           Older(c, m), m[2] <= sent'[c][m[1]],
           \A i \in 1..Len(funcs_) : i > d /\ funcs_[i].op = "send" /\ funcs_[i].conn = c /\ funcs_[i].msg[1] = m[1]
               => m[2] < funcs_[i].msg[2]
    PROVE  Messages'
<1> DEFINE s == Stream(c)
           r == s \o BytesOf(m)
<1>1. s \in Seq(Bytes)
  BY StreamTyped
<1>2. \A i \in 1..Len(s) : s[i] \in Bytes /\ s[i][1] \in Senders /\ s[i][2] \in Nat
  BY <1>1 DEF Bytes
<1>3. m[1] \in Senders /\ m[2] \in 1..MaxSend /\ m[2] \in Nat
  OBVIOUS
<1>4. \A i \in 1..Len(s) : s[i][1] = m[1] => s[i][2] < m[2]
  BY DEF Older
<1>5. /\ Ordered(r)
      /\ \A i \in 1..Len(r) : \/ i \in 1..Len(s) /\ r[i] = s[i]
                              \/ r[i][1] = m[1] /\ r[i][2] = m[2]
  <2>1. Ordered(s)
    BY DEF Messages
  <2>2. \A i \in 1..Len(s) : s[i][1] = m[1] => s[i][2] <= m[2]
    BY <1>2, <1>3, <1>4
  <2> HIDE DEF s
  <2> QED
    BY <1>1, <2>1, <2>2, MessageAtEnd
<1>6. /\ Stream(c)' = s \/ Stream(c)' = r
      /\ \A e \in Conns \ {c} : Stream(e)' = Stream(e)
  BY SendStream
<1>7. ASSUME NEW e \in Conns PROVE Ordered(Stream(e))'
  <2>1. Ordered(Stream(e)) /\ Ordered(s)
    BY DEF Messages
  <2>2. ASSUME NEW t, Stream(e)' = t, Ordered(t) PROVE Ordered(Stream(e))'
    BY <2>2 DEF Ordered
  <2> HIDE DEF s, r
  <2>3. Stream(e)' = Stream(e) \/ Stream(e)' = s \/ Stream(e)' = r
    BY <1>6
  <2> QED
    BY <1>5, <2>1, <2>2, <2>3
<1>8. ASSUME NEW e \in Conns, NEW i \in 1..Len(Stream(e)')
      PROVE  \/ i \in 1..Len(Stream(e)) /\ Stream(e)'[i] = Stream(e)[i]
             \/ e = c /\ Stream(e)'[i][1] = m[1] /\ Stream(e)'[i][2] = m[2]
  <2>1. CASE e # c
    BY <1>6, <2>1
  <2>2. CASE e = c
    <3> HIDE DEF r
    <3> QED
      BY <1>5, <1>6, <2>2
  <2> QED
    BY <2>1, <2>2
<1>9. ASSUME NEW e \in Conns, NEW i \in 1..Len(Stream(e))
      PROVE  /\ Stream(e)[i][1] \in Senders /\ Stream(e)[i][2] \in Nat
             /\ Stream(e)[i][2] <= sent'[e][Stream(e)[i][1]]
  <2> DEFINE b == Stream(e)[i]
  <2>1. b \in Bytes
    BY StreamTyped
  <2>2. b[1] \in Senders /\ b[2] \in Nat
    BY <2>1 DEF Bytes
  <2>3. b[2] <= sent[e][b[1]]
    BY DEF Messages, StreamSent
  <2> HIDE DEF b
  <2>4. sent[e][b[1]] \in Nat /\ sent'[e][b[1]] \in Nat
    <3>1. sent[e] \in [Senders -> 0..MaxSend] /\ sent'[e] \in [Senders -> 0..MaxSend]
      BY DEF TypeOK
    <3> QED
      BY <2>2, <3>1, BoundsAssumption
  <2>5. sent[e][b[1]] <= sent'[e][b[1]]
    BY <2>2
  <2>6. b[2] <= sent'[e][b[1]]
    BY <2>2, <2>3, <2>4, <2>5
  <2> QED
    BY <2>2, <2>6 DEF b
<1>10. StreamSent'
  <2> SUFFICES ASSUME NEW e \in Conns, NEW i \in 1..Len(Stream(e)')
               PROVE  Stream(e)'[i][2] <= sent'[e][Stream(e)'[i][1]]
    BY DEF StreamSent
  <2> QED
    BY <1>8, <1>9
<1>11. ASSUME NEW i \in 1..Len(funcs_), NEW e \in Conns, NEW o \in Senders \X (1..MaxSend),
              i > d, funcs_[i] = SendFunc(e, o)
       PROVE  Older(e, o)'
  <2> SUFFICES ASSUME NEW j \in 1..Len(Stream(e)'), Stream(e)'[j][1] = o[1]
               PROVE  Stream(e)'[j][2] < o[2]
    BY DEF Older
  <2>1. CASE j \in 1..Len(Stream(e)) /\ Stream(e)'[j] = Stream(e)[j]
    BY <1>11, <2>1 DEF Messages, QueueLater, Older
  <2>2. CASE e = c /\ Stream(e)'[j][1] = m[1] /\ Stream(e)'[j][2] = m[2]
    <3>1. funcs_[i].op = "send" /\ funcs_[i].conn = c /\ funcs_[i].msg = o
      BY <1>11, <2>2 DEF SendFunc
    <3>2. m[2] < funcs_[i].msg[2]
      BY <1>11, <2>2, <3>1
    <3> QED
      BY <2>2, <3>1, <3>2
  <2> QED
    BY <1>8, <2>1, <2>2
<1> QED
  BY <1>7, <1>10, <1>11, MessagesShift

(* A step that writes and sends nothing, whatever else it queues.          *)
LEMMA Quiet ==
    ASSUME TypeOK, Messages, UNCHANGED <<wire, outputBuffer_, sent>>,
           funcs_' = funcs_ \/ funcs_' = <<>> \/ \E f \in Funcs : f.op # "send" /\ funcs_' = Append(funcs_, f)
    PROVE  Messages'
<1>1. \A c \in Conns : Stream(c)' = Stream(c)
  BY DEF Stream
<1>2. funcs_ \in Seq(Funcs) /\ 0 \in {0, 1}
  BY DEF TypeOK
<1>3. SendsShift(0)
  BY <1>2, SendsKept
<1> QED
  BY <1>1, <1>2, <1>3, MessagesKept

(* All that is done in between.                                            *)
LEMMA QuietStep ==
    ASSUME TypeOK, Messages,
           \/ \E c \in Conns : NewConnection(c) \/ PeerSends(c) \/ PeerCloses(c)
           \/ ServerClose \/ ServerSteps
           \/ \E u \in Users, c \in Conns : UserSend(u, c) \/ UserLeaves(u, c)
           \/ IoPoll \/ HandlingDone \/ FunctorsDone \/ IoCheck \/ IoExit
           \/ \E c \in Conns : HandleEvent(c) \/ HandleRead(c) \/ CallbackReturns(c)
           \/ \E d, c \in Conns : CallbackShutdown(d, c) \/ CallbackForceClose(d, c)
    PROVE  Messages'
<1>1. UNCHANGED <<wire, outputBuffer_, sent>>
  <2>1. CASE \E c \in Conns : NewConnection(c) \/ PeerSends(c) \/ PeerCloses(c)
    BY <2>1 DEF NewConnection, PeerSends, PeerCloses, outVars, userVars
  <2>2. CASE ServerClose \/ ServerSteps
    BY <2>2 DEF ServerClose, ServerSteps, BaseErase, BaseAfterServer, ServerForceClose, ServerQuit, ServerDown, outVars, userVars
  <2>3. CASE \E u \in Users, c \in Conns : UserSend(u, c) \/ UserLeaves(u, c)
    BY <2>3 DEF UserSend, UserLeaves, outVars
  <2>4. CASE IoPoll \/ HandlingDone \/ FunctorsDone \/ IoCheck \/ IoExit
    BY <2>4 DEF IoPoll, HandlingDone, FunctorsDone, IoCheck, IoExit, outVars, userVars
  <2>5. CASE \E c \in Conns : HandleEvent(c) \/ CallbackReturns(c)
    BY <2>5 DEF HandleEvent, CallbackReturns, outVars, userVars
  <2>6. CASE \E c \in Conns : HandleRead(c)
    BY <2>6 DEF HandleRead, ReadData, ReadError, ReadEof, HandleClose, outVars, userVars
  <2>7. CASE \E d, c \in Conns : CallbackShutdown(d, c) \/ CallbackForceClose(d, c)
    BY <2>7 DEF CallbackShutdown, CallbackForceClose, ShutdownInLoop, ForceCloseInLoop, HandleClose, outVars, userVars
  <2> QED
    BY <2>1, <2>2, <2>3, <2>4, <2>5, <2>6, <2>7
<1>2. funcs_' = funcs_ \/ funcs_' = <<>> \/ \E f \in Funcs : f.op # "send" /\ funcs_' = Append(funcs_, f)
  <2>1. \A c \in Conns, op \in {"established", "shutdown", "forceClose"} : Func(op, c) \in Funcs /\ Func(op, c).op # "send"
    BY FuncTyped
  <2>2. CASE \E c \in Conns : NewConnection(c) \/ PeerSends(c) \/ PeerCloses(c)
    BY <2>1, <2>2 DEF NewConnection, PeerSends, PeerCloses
  <2>3. CASE ServerClose \/ ServerSteps
    BY <2>1, <2>3 DEF ServerClose, ServerSteps, BaseErase, BaseAfterServer, ServerForceClose, ServerQuit, ServerDown
  <2>4. CASE \E u \in Users, c \in Conns : UserSend(u, c) \/ UserLeaves(u, c)
    BY <2>1, <2>4 DEF UserSend, UserLeaves
  <2>5. CASE IoPoll \/ HandlingDone \/ FunctorsDone \/ IoCheck \/ IoExit
    BY <2>5 DEF IoPoll, HandlingDone, FunctorsDone, IoCheck, IoExit
  <2>6. CASE \E c \in Conns : HandleEvent(c) \/ HandleRead(c) \/ CallbackReturns(c)
    BY <2>6 DEF HandleEvent, HandleRead, CallbackReturns
  <2>7. CASE \E d, c \in Conns : CallbackShutdown(d, c) \/ CallbackForceClose(d, c)
    BY <2>7 DEF CallbackShutdown, CallbackForceClose
  <2> QED
    BY <2>2, <2>3, <2>4, <2>5, <2>6, <2>7
<1> QED
  BY <1>1, <1>2, Quiet

(* handleWrite() moves bytes along the stream.                             *)
LEMMA WriteMessages == ASSUME TypeOK, Messages, NEW c \in Conns, HandleWrite(c) PROVE Messages'
<1>1. /\ \A d \in Conns : Stream(d)' = Stream(d)
      /\ funcs_' = funcs_ \/ funcs_' = Append(funcs_, Func("complete", c))
  BY WriteStream
<1>2. sent' = sent
  BY DEF HandleWrite, userVars
<1>3. Func("complete", c) \in Funcs /\ Func("complete", c).op # "send"
  BY FuncTyped
<1>4. funcs_ \in Seq(Funcs) /\ 0 \in {0, 1}
  BY DEF TypeOK
<1>5. SendsShift(0)
  BY <1>1, <1>3, <1>4, SendsKept
<1> QED
  BY <1>1, <1>2, <1>4, <1>5, MessagesKept

(* What a sender's next message is, and what counting it changes.          *)
LEMMA Counted ==
    ASSUME TypeOK, NEW c \in Conns, NEW s \in Senders, sent[c][s] < MaxSend,
           sent' = [sent EXCEPT ![c][s] = @ + 1]
    PROVE  /\ NextMsg(c, s) \in Senders \X (1..MaxSend)
           /\ NextMsg(c, s)[1] = s /\ NextMsg(c, s)[2] = sent[c][s] + 1 /\ sent[c][s] \in Nat
           /\ sent' \in [Conns -> [Senders -> 0..MaxSend]]
           /\ sent'[c][s] = sent[c][s] + 1
           /\ \A e \in Conns, t \in Senders : sent[e][t] <= sent'[e][t] /\ sent[e][t] \in Nat /\ sent'[e][t] \in Nat
<1>1. sent \in [Conns -> [Senders -> 0..MaxSend]]
  BY DEF TypeOK
<1>2. \A e \in Conns : sent[e] \in [Senders -> 0..MaxSend]
  BY <1>1
<1>3. \A e \in Conns, t \in Senders : sent[e][t] \in 0..MaxSend /\ sent[e][t] \in Nat
  BY <1>2
<1>4. sent[c][s] + 1 \in 1..MaxSend /\ sent[c][s] + 1 \in 0..MaxSend
  BY <1>3, BoundsAssumption
<1> DEFINE n == sent[c][s] + 1
           g == [sent[c] EXCEPT ![s] = n]
<1>5. g \in [Senders -> 0..MaxSend] /\ g[s] = n /\ \A t \in Senders \ {s} : g[t] = sent[c][t]
  BY <1>2, <1>4
<1>6. sent' = [sent EXCEPT ![c] = g]
  OBVIOUS
<1> HIDE DEF g
<1>7. sent' \in [Conns -> [Senders -> 0..MaxSend]] /\ sent'[c] = g /\ \A e \in Conns \ {c} : sent'[e] = sent[e]
  BY <1>1, <1>5, <1>6
<1>8. ASSUME NEW e \in Conns, NEW t \in Senders
      PROVE  sent[e][t] <= sent'[e][t] /\ sent[e][t] \in Nat /\ sent'[e][t] \in Nat
  <2>1. CASE e = c /\ t = s
    BY <1>3, <1>5, <1>7, <2>1
  <2>2. CASE ~(e = c /\ t = s)
    <3>1. sent'[e][t] = sent[e][t]
      BY <1>5, <1>7, <2>2
    <3> QED
      BY <1>3, <3>1
  <2> QED
    BY <2>1, <2>2
<1> QED
  BY <1>3, <1>4, <1>5, <1>7, <1>8 DEF NextMsg

(* What is queued or in a stream is at most what has been sent.            *)
LEMMA NextIsLater ==
    ASSUME TypeOK, Messages, NEW c \in Conns, NEW m \in Senders \X (1..MaxSend), m[2] = sent[c][m[1]] + 1
    PROVE  /\ Older(c, m)
           /\ \A i \in 1..Len(funcs_) : funcs_[i].op = "send" /\ funcs_[i].conn = c /\ funcs_[i].msg[1] = m[1]
                  => funcs_[i].msg[2] < m[2]
<1>1. m[1] \in Senders /\ sent[c][m[1]] \in Nat
  <2>1. sent[c] \in [Senders -> 0..MaxSend]
    BY DEF TypeOK
  <2> QED
    BY <2>1
<1>2. ASSUME NEW i \in 1..Len(Stream(c)), Stream(c)[i][1] = m[1] PROVE Stream(c)[i][2] < m[2]
  <2>1. Stream(c)[i] \in Bytes
    BY StreamTyped
  <2>2. Stream(c)[i][2] \in Nat
    BY <2>1 DEF Bytes
  <2>3. Stream(c)[i][2] <= sent[c][m[1]]
    BY <1>2 DEF Messages, StreamSent
  <2> QED
    BY <1>1, <2>2, <2>3
<1>3. ASSUME NEW i \in 1..Len(funcs_), funcs_[i].op = "send", funcs_[i].conn = c, funcs_[i].msg[1] = m[1]
      PROVE  funcs_[i].msg[2] < m[2]
  <2>1. funcs_[i].msg[2] <= sent[c][m[1]]
    BY <1>3 DEF Messages, QueueSent
  <2>2. funcs_[i].msg[2] \in Nat
    BY <1>3, QueueTyped
  <2> QED
    BY <1>1, <2>1, <2>2
<1> QED
  BY <1>2, <1>3 DEF Older

(* A callback's message is written at once: none of the loop is queued.    *)
LEMMA CallbackMessages ==
    ASSUME TypeOK, Messages, NEW d \in Conns, NEW c \in Conns, CallbackSend(d, c)
    PROVE  Messages'
<1> DEFINE m == NextMsg(c, IoLoop)
<1>1. /\ SendInLoop(c, m, funcs_) /\ sent[c][IoLoop] < MaxSend
      /\ sent' = [sent EXCEPT ![c][IoLoop] = @ + 1] /\ IoLoop \in Senders
  BY DEF CallbackSend, MaySend, Senders
<1>2. /\ m \in Senders \X (1..MaxSend) /\ m[1] = IoLoop /\ m[2] = sent[c][IoLoop] + 1
      /\ sent' \in [Conns -> [Senders -> 0..MaxSend]] /\ m[2] = sent'[c][IoLoop] /\ m[2] \in Nat
      /\ \A e \in Conns, t \in Senders : sent[e][t] <= sent'[e][t]
  <2>1. /\ NextMsg(c, IoLoop) \in Senders \X (1..MaxSend)
        /\ NextMsg(c, IoLoop)[1] = IoLoop /\ NextMsg(c, IoLoop)[2] = sent[c][IoLoop] + 1 /\ sent[c][IoLoop] \in Nat
        /\ sent' \in [Conns -> [Senders -> 0..MaxSend]]
        /\ sent'[c][IoLoop] = sent[c][IoLoop] + 1
        /\ \A e \in Conns, t \in Senders : sent[e][t] <= sent'[e][t]
    BY <1>1, Counted
  <2> QED
    BY <2>1
<1> HIDE DEF m
<1>3. Older(c, m)
  BY <1>2, NextIsLater
<1>4. m[2] <= sent'[c][m[1]]
  BY <1>2
<1>5. \A i \in 1..Len(funcs_) : funcs_[i].op = "send" => funcs_[i].msg[1] # IoLoop
  BY DEF Messages, QueueSent
<1>6. funcs_' = funcs_ \/ funcs_' = Append(funcs_, Func("complete", c))
  BY <1>1 DEF SendInLoop, Unwritten, WriteSome
<1>7. Func("complete", c) \in Funcs /\ Func("complete", c).op # "send"
  BY FuncTyped
<1>8. funcs_ \in Seq(Funcs) /\ 0 \in {0, 1}
  BY DEF TypeOK
<1>9. SendsShift(0)
  BY <1>6, <1>7, <1>8, SendsKept
<1> QED
  BY <1>1, <1>2, <1>3, <1>4, <1>5, <1>8, <1>9, MessageSent

(* The functor of a send(): it is the oldest of its sender in the queue.   *)
LEMMA FunctorMessages == ASSUME TypeOK, Messages, RunFunctor PROVE Messages'
<1> DEFINE f == Head(funcs_)
           q == Tail(funcs_)
           c == f.conn
           m == f.msg
<1>1. funcs_ \in Seq(Funcs) /\ funcs_ # <<>> /\ sent' = sent /\ 1 \in {0, 1}
  BY DEF RunFunctor, TypeOK
<1>2. q \in Seq(Funcs) /\ f = funcs_[1] /\ 1 \in 1..Len(funcs_) /\ f \in Funcs
  BY <1>1, TailProps
<1>3. c \in Conns
  BY <1>2, FuncTyped
<1>4. Func("complete", c) \in Funcs /\ Func("complete", c).op # "send"
  BY <1>3, FuncTyped
<1>5. CASE f.op = "send"
  <2>1. SendInLoop(c, m, q)
    BY <1>5 DEF RunFunctor
  <2>2. m \in Senders \X (1..MaxSend) /\ f = SendFunc(c, m)
    BY <1>2, <1>5, FuncTyped DEF SendFunc, Funcs
  <2> HIDE DEF c, m, q, f
  <2>3. funcs_' = q \/ funcs_' = Append(q, Func("complete", c))
    BY <2>1 DEF SendInLoop, Unwritten, WriteSome
  <2>4. SendsShift(1)
    <3>1. q = IF 1 = 0 THEN funcs_ ELSE Tail(funcs_)
      BY DEF q
    <3>2. funcs_' = q \/ \E g \in Funcs : g.op # "send" /\ funcs_' = Append(q, g)
      BY <1>4, <2>3
    <3>3. q \in Seq(Funcs)
      BY <1>2 DEF q
    <3> QED
      BY <1>1, <3>1, <3>2, <3>3, SendsKept
  <2>5. Older(c, m)
    BY <1>2, <1>3, <2>2 DEF Messages, QueueLater
  <2>6. sent' \in [Conns -> [Senders -> 0..MaxSend]] /\ \A e \in Conns, t \in Senders : sent[e][t] <= sent'[e][t]
    <3>1. sent \in [Conns -> [Senders -> 0..MaxSend]]
      BY DEF TypeOK
    <3>2. ASSUME NEW e \in Conns, NEW t \in Senders PROVE sent[e][t] <= sent[e][t]
      <4>1. sent[e] \in [Senders -> 0..MaxSend]
        BY <3>1
      <4> QED
        BY <4>1
    <3> QED
      BY <1>1, <3>1, <3>2
  <2>7. f.op = "send" /\ f.conn = c /\ f.msg = m
    BY <1>5 DEF c, m
  <2>8. m[2] <= sent'[c][m[1]]
    BY <1>1, <1>2, <2>7 DEF Messages, QueueSent
  <2>9. \A i \in 1..Len(funcs_) : i > 1 /\ funcs_[i].op = "send" /\ funcs_[i].conn = c /\ funcs_[i].msg[1] = m[1]
            => m[2] < funcs_[i].msg[2]
    BY <1>2, <2>7 DEF Messages, QueueOrdered
  <2> QED
    BY <1>1, <1>3, <2>1, <2>2, <2>4, <2>5, <2>6, <2>8, <2>9, MessageSent
<1>6. CASE f.op # "send"
  <2>1. funcs_' = q
    BY <1>6 DEF RunFunctor, RunEstablished
  <2>2. UNCHANGED <<wire, outputBuffer_>>
    BY <1>6 DEF RunFunctor, RunEstablished, ShutdownInLoop, ForceCloseInLoop, HandleClose, outVars
  <2>3. SendsShift(1)
    BY <1>1, <1>2, <2>1, SendsKept
  <2>4. \A d \in Conns : Stream(d)' = Stream(d)
    BY <2>2 DEF Stream
  <2> QED
    BY <1>1, <2>3, <2>4, MessagesKept
<1> QED
  BY <1>5, <1>6

(* send() queues a message that is newer than all its sender has sent.     *)
LEMMA SendMessages == ASSUME TypeOK, Messages, SendCounted, NEW u \in Users, UserSendQueue(u) PROVE Messages'
<1> DEFINE c == upc[u]
           m == NextMsg(c, u)
           f == SendFunc(c, m)
           n == Len(funcs_)
<1>1. /\ c \in Conns /\ u \in Senders /\ u # IoLoop
      /\ funcs_' = Append(funcs_, f)
      /\ sent' = [sent EXCEPT ![c][u] = @ + 1] /\ sent[c][u] < MaxSend
      /\ UNCHANGED <<wire, outputBuffer_>>
  BY UsersAssumption DEF UserSendQueue, SendCounted, TypeOK, Senders, outVars
<1> HIDE DEF c
<1>2. /\ NextMsg(c, u) \in Senders \X (1..MaxSend)
      /\ NextMsg(c, u)[1] = u /\ NextMsg(c, u)[2] = sent[c][u] + 1 /\ sent[c][u] \in Nat
      /\ sent' \in [Conns -> [Senders -> 0..MaxSend]]
      /\ sent'[c][u] = sent[c][u] + 1
      /\ \A e \in Conns, t \in Senders : sent[e][t] <= sent'[e][t] /\ sent[e][t] \in Nat /\ sent'[e][t] \in Nat
  BY <1>1, Counted
<1>3. /\ m \in Senders \X (1..MaxSend) /\ m[1] = u /\ m[2] = sent[c][u] + 1 /\ m[2] = sent'[c][u] /\ m[2] \in Nat
  BY <1>2
<1> HIDE DEF m
<1>4. f \in Funcs /\ f.op = "send" /\ f.conn = c /\ f.msg = m
  BY <1>1, <1>3 DEF SendFunc, Funcs
<1> HIDE DEF f
<1>5. funcs_ \in Seq(Funcs) /\ n \in Nat
  BY DEF TypeOK
<1>6. /\ Len(funcs_') = n + 1
      /\ \A i \in 1..n : funcs_'[i] = funcs_[i]
      /\ funcs_'[n + 1] = f
  BY <1>1, <1>4, <1>5, AppendProps
<1>7. \A i \in 1..Len(funcs_') : i \in 1..n \/ i = n + 1
  BY <1>5, <1>6
<1>8. /\ Older(c, m)
      /\ \A i \in 1..n : funcs_[i].op = "send" /\ funcs_[i].conn = c /\ funcs_[i].msg[1] = u
             => funcs_[i].msg[2] < m[2]
  BY <1>1, <1>3, NextIsLater
<1> HIDE DEF n
<1>9. \A e \in Conns : Stream(e)' = Stream(e)
  BY <1>1 DEF Stream
<1>10. \A e \in Conns : Ordered(Stream(e))'
  BY <1>9 DEF Messages, Ordered
<1>11. \A e \in Conns, o \in Senders \X (1..MaxSend) : Older(e, o) => Older(e, o)'
  BY <1>9 DEF Older
<1>12. StreamSent'
  <2> SUFFICES ASSUME NEW e \in Conns, NEW i \in 1..Len(Stream(e))
               PROVE  Stream(e)[i][2] <= sent'[e][Stream(e)[i][1]]
    BY <1>9 DEF StreamSent
  <2> DEFINE b == Stream(e)[i]
  <2>1. b \in Bytes
    BY StreamTyped
  <2>2. b[1] \in Senders /\ b[2] \in Nat
    BY <2>1 DEF Bytes
  <2>3. b[2] <= sent[e][b[1]]
    BY DEF Messages, StreamSent
  <2> HIDE DEF b
  <2>4. b[2] <= sent'[e][b[1]]
    BY <1>2, <2>2, <2>3
  <2> QED
    BY <2>4 DEF b
<1>13. QueueSent'
  <2> SUFFICES ASSUME NEW i \in 1..Len(funcs_'), funcs_'[i].op = "send"
               PROVE  /\ funcs_'[i].msg[1] # IoLoop
                      /\ funcs_'[i].msg[2] <= sent'[funcs_'[i].conn][funcs_'[i].msg[1]]
    BY DEF QueueSent
  <2>1. CASE i = n + 1
    BY <1>1, <1>3, <1>4, <1>6, <2>1
  <2>2. CASE i \in 1..n
    <3> DEFINE g == funcs_[i]
    <3>1. funcs_'[i] = g /\ g.op = "send"
      BY <1>6, <2>2
    <3>2. g.conn \in Conns /\ g.msg[1] \in Senders /\ g.msg[2] \in Nat
      BY <2>2, <3>1, QueueTyped DEF n
    <3>3. g.msg[1] # IoLoop /\ g.msg[2] <= sent[g.conn][g.msg[1]]
      BY <2>2, <3>1 DEF Messages, QueueSent, n
    <3> HIDE DEF g
    <3>4. g.msg[2] <= sent'[g.conn][g.msg[1]]
      BY <1>2, <3>2, <3>3
    <3> QED
      BY <3>1, <3>3, <3>4
  <2> QED
    BY <1>7, <2>1, <2>2
<1>14. QueueLater'
  <2> SUFFICES ASSUME NEW i \in 1..Len(funcs_'), NEW e \in Conns, NEW o \in Senders \X (1..MaxSend),
                      funcs_'[i] = SendFunc(e, o)
               PROVE  Older(e, o)
    BY <1>11 DEF QueueLater
  <2>1. CASE i = n + 1
    <3>1. e = c /\ o = m
      BY <1>4, <1>6, <2>1 DEF SendFunc
    <3> QED
      BY <1>8, <3>1
  <2>2. CASE i \in 1..n
    BY <1>6, <2>2 DEF Messages, QueueLater, n
  <2> QED
    BY <1>7, <2>1, <2>2
<1>15. QueueOrdered'
  <2> SUFFICES ASSUME NEW i \in 1..Len(funcs_'), NEW j \in 1..Len(funcs_'), i < j,
                      funcs_'[i].op = "send", funcs_'[j].op = "send",
                      funcs_'[i].conn = funcs_'[j].conn, funcs_'[i].msg[1] = funcs_'[j].msg[1]
               PROVE  funcs_'[i].msg[2] < funcs_'[j].msg[2]
    BY DEF QueueOrdered
  <2>1. i \in 1..n
    BY <1>5, <1>6
  <2>2. funcs_'[i] = funcs_[i]
    BY <1>6, <2>1
  <2>3. CASE j = n + 1
    <3>1. funcs_'[j] = f
      BY <1>6, <2>3
    <3>2. funcs_[i].op = "send" /\ funcs_[i].conn = c /\ funcs_[i].msg[1] = u
      BY <1>3, <1>4, <2>2, <3>1
    <3> QED
      BY <1>4, <1>8, <2>1, <2>2, <3>1, <3>2
  <2>4. CASE j \in 1..n
    BY <1>6, <2>1, <2>2, <2>4 DEF Messages, QueueOrdered, n
  <2> QED
    BY <1>7, <2>3, <2>4
<1> QED
  BY <1>10, <1>12, <1>13, <1>14, <1>15 DEF Messages

(* Every step. *)
LEMMA MessagesNext == ASSUME ConnInv, Messages, [Next]_vars PROVE Messages'
<1>1. TypeOK /\ SendCounted
  BY DEF ConnInv
<1>2. CASE UNCHANGED vars
  <2>1. UNCHANGED <<wire, outputBuffer_, sent, funcs_>>
    BY <1>2 DEF vars, outVars, userVars
  <2> QED
    BY <1>1, <2>1, Quiet
<1>3. ASSUME NEW u \in Users, UserSendQueue(u) PROVE Messages'
  BY <1>1, <1>3, SendMessages
<1>4. ASSUME NEW c \in Conns, HandleWrite(c) PROVE Messages'
  BY <1>1, <1>4, WriteMessages
<1>5. CASE RunFunctor
  BY <1>1, <1>5, FunctorMessages
<1>6. ASSUME NEW d \in Conns, NEW c \in Conns, CallbackSend(d, c) PROVE Messages'
  BY <1>1, <1>6, CallbackMessages
<1>7. ASSUME \/ \E c \in Conns : NewConnection(c) \/ PeerSends(c) \/ PeerCloses(c)
             \/ ServerClose \/ ServerSteps
             \/ \E u \in Users, c \in Conns : UserSend(u, c) \/ UserLeaves(u, c)
             \/ IoPoll \/ HandlingDone \/ FunctorsDone \/ IoCheck \/ IoExit
             \/ \E c \in Conns : HandleEvent(c) \/ HandleRead(c) \/ CallbackReturns(c)
             \/ \E d, c \in Conns : CallbackShutdown(d, c) \/ CallbackForceClose(d, c)
      PROVE  Messages'
  BY <1>1, <1>7, QuietStep
<1> QED
  BY <1>2, <1>3, <1>4, <1>5, <1>6, <1>7 DEF Next, IoSteps, Callbacks

(* The bytes of a message are adjacent, and the messages of a sender in    *)
(* the order of its calls of send(), in what is written and what waits     *)
(* (sendInLoop(), TcpConnection.cpp:112-152; handleWrite(), 243).          *)
THEOREM MessageSafety == Spec => []MessagesWhole
<1>1. Init => Messages
  <2> SUFFICES ASSUME Init PROVE Messages
    OBVIOUS
  <2>1. \A c \in Conns : Stream(c) = <<>>
    <3>1. <<>> \o <<>> = <<>>
      BY <<>> \in Seq({}), ConcatEmptySeq
    <3> QED
      BY <3>1 DEF Init, Stream
  <2>2. Len(<<>>) = 0 /\ 1..0 = {} /\ funcs_ = <<>>
    BY DEF Init
  <2> QED
    BY <2>1, <2>2 DEF Messages, Ordered, StreamSent, QueueSent, QueueLater, QueueOrdered
<1>2. ConnInv /\ Messages /\ [Next]_vars => Messages'
  BY MessagesNext
<1>3. Messages => MessagesWhole
  BY DEF Messages, Ordered, MessagesWhole
<1> QED
  BY <1>1, <1>2, <1>3, ConnIndInv, PTL DEF Spec
=============================================================================
