---------------------------- MODULE TcpConnection ----------------------------
(***************************************************************************)
(* The connections of a TcpServer (src/TcpConnection.cpp, TcpServer.cpp,   *)
(* Channel.cpp): their life from newConnection to the destructor, and the  *)
(* bytes they send.  All connections live on one I/O loop of the server's  *)
(* pool; the server lives on the base loop; user threads hold connections  *)
(* by the TcpConnectionPtr the connection callback gave them.              *)
(*                                                                         *)
(* A loop is its queue of functors, run in order, and the channels epoll   *)
(* reported (EventLoop); a handler is one step up to the user's callback,  *)
(* because nothing but state_ is shared with the other threads.            *)
(***************************************************************************)
EXTENDS Naturals, Sequences

CONSTANTS Conns,         \* the connections
          Users,         \* user threads
          IoLoop,        \* the user code that runs in callbacks, as a sender
          MaxSend,       \* bound: messages per sender and connection
          MaxIn,         \* bound: readable events per connection
          ServerStops    \* whether the server is ever destroyed

ASSUME UsersAssumption == IoLoop \notin Users
ASSUME BoundsAssumption == MaxSend \in Nat /\ MaxIn \in Nat
ASSUME ServerStopsAssumption == ServerStops \in BOOLEAN

Senders == Users \cup {IoLoop}

(* A message is two bytes, so that a write can tear it. *)
Bytes == Senders \X (1..MaxSend) \X (1..2)
BytesOf(m) == <<<<m[1], m[2], 1>>, <<m[1], m[2], 2>>>>

VARIABLES
    state_,        \* per connection; "none" before newConnection
    reading,       \* per connection: kReadEvent is in events_
    writing,       \* per connection: kWriteEvent is in events_
    added,         \* per connection: the channel is in the poller
    outputBuffer_, \* per connection: the bytes to write
    writeShut,     \* per connection: closeWrite() was called
    wire,          \* per connection: the bytes the kernel took
    inbox,         \* per connection: readable events not yet read
    arrived,       \* per connection: readable events so far
    peer,          \* per connection: open, eof, reset, or dead (reset and reported)
    connSet_,      \* the server's connections
    toClose,       \* those ~TcpServer has still to close
    held,          \* per connection: the user threads that hold it
    sent,          \* per connection and sender: messages begun
    upc,           \* per user: the connection whose send() found kConnected, or "idle"
    funcs_,        \* the I/O loop's functors
    baseFuncs,     \* the base loop's functors: connections to erase
    io,            \* where the I/O loop is
    revents,       \* per connection: the events of this turn
    active,        \* the connections in activeChannels_
    todo,          \* those not handled yet
    stale,         \* history: those another's callback closed while they were in todo
    task,          \* what the I/O loop executes
    server         \* where the server is; "used" when it was used after its destructor

channelVars == <<reading, writing, added>>
outVars == <<outputBuffer_, writeShut, wire>>
netVars == <<inbox, arrived, peer>>
userVars == <<held, sent, upc>>
pollVars == <<revents, active, todo, stale>>
vars == <<state_, channelVars, outVars, netVars, connSet_, toClose, userVars, funcs_, baseFuncs,
          io, pollVars, task, server>>

NoTask == [conn |-> "none", at |-> "none"]
Tasks == [conn : Conns, at : {"read", "callback", "write", "funcCallback"}] \cup {NoTask}

(* A functor; send() binds the raw this, the others a TcpConnectionPtr. *)
Func(op, c) == [op |-> op, conn |-> c, msg |-> <<>>]
SendFunc(c, m) == [op |-> "send", conn |-> c, msg |-> m]
Funcs == [op : {"established", "shutdown", "forceClose", "complete"}, conn : Conns, msg : {<<>>}]
         \cup [op : {"send"}, conn : Conns, msg : Senders \X (1..MaxSend)]

(* What epoll reports: readable, writable, or an error. *)
Events == {"in", "out", "err"}

TypeOK ==
    /\ state_ \in [Conns -> {"none", "kConnecting", "kConnected", "kDisconnecting", "kDisconnected"}]
    /\ reading \in [Conns -> BOOLEAN] /\ writing \in [Conns -> BOOLEAN] /\ added \in [Conns -> BOOLEAN]
    /\ outputBuffer_ \in [Conns -> Seq(Bytes)]
    /\ writeShut \in [Conns -> BOOLEAN]
    /\ wire \in [Conns -> Seq(Bytes)]
    /\ inbox \in [Conns -> 0..MaxIn] /\ arrived \in [Conns -> 0..MaxIn]
    /\ peer \in [Conns -> {"open", "eof", "reset", "dead"}]
    /\ connSet_ \subseteq Conns /\ toClose \subseteq Conns
    /\ held \in [Conns -> SUBSET Users]
    /\ sent \in [Conns -> [Senders -> 0..MaxSend]]
    /\ upc \in [Users -> Conns \cup {"idle"}]
    /\ funcs_ \in Seq(Funcs)
    /\ baseFuncs \in Seq(Conns)
    /\ io \in {"check", "poll", "handling", "functors", "exited"}
    /\ revents \in [Conns -> SUBSET Events]
    /\ active \subseteq Conns /\ todo \subseteq active /\ stale \subseteq Conns
    /\ task \in Tasks
    /\ server \in {"up", "closing", "quitting", "down", "used"}

Init ==
    /\ state_ = [c \in Conns |-> "none"]
    /\ reading = [c \in Conns |-> FALSE] /\ writing = reading /\ added = reading
    /\ outputBuffer_ = [c \in Conns |-> <<>>]
    /\ writeShut = [c \in Conns |-> FALSE]
    /\ wire = [c \in Conns |-> <<>>]
    /\ inbox = [c \in Conns |-> 0] /\ arrived = inbox
    /\ peer = [c \in Conns |-> "open"]
    /\ connSet_ = {} /\ toClose = {}
    /\ held = [c \in Conns |-> {}]
    /\ sent = [c \in Conns |-> [s \in Senders |-> 0]]
    /\ upc = [u \in Users |-> "idle"]
    /\ funcs_ = <<>>
    /\ baseFuncs = <<>>
    /\ io = "poll"
    /\ revents = [c \in Conns |-> {}]
    /\ active = {} /\ todo = {} /\ stale = {}
    /\ task = NoTask
    /\ server = "up"

(* Some TcpConnectionPtr refers to c. *)
Referenced(c) ==
    \/ c \in connSet_
    \/ held[c] # {}
    \/ \E i \in 1..Len(funcs_) : funcs_[i].conn = c /\ funcs_[i].op # "send"
    \/ \E i \in 1..Len(baseFuncs) : baseFuncs[i] = c
    \/ task.conn = c

(* ~TcpConnection has run. *)
Destroyed(c) == state_[c] # "none" /\ ~Referenced(c)

-----------------------------------------------------------------------------
(* What the handlers are made of.  q is the functor queue they append to.  *)

(* ::write on a socket that can no longer send gives EPIPE or ECONNRESET. *)
WriteFails(c) == writeShut[c] \/ peer[c] \in {"reset", "dead"}

(* Mutant of WritesDirectly: every send() writes at once. *)
WritesAlways(c) == c \in Conns

(* The output is written directly only when none is waiting. *)
WritesDirectly(c) == ~writing[c] /\ outputBuffer_[c] = <<>>

(* Mutant of WriteSome: enableWriting() is forgotten. *)
WriteSomeUnwatched(c, bytes, k, q) ==
    LET rest == SubSeq(bytes, k + 1, Len(bytes))
    IN  /\ wire' = [wire EXCEPT ![c] = @ \o SubSeq(bytes, 1, k)]
        /\ outputBuffer_' = [outputBuffer_ EXCEPT ![c] = rest]
        /\ funcs_' = q
        /\ UNCHANGED writing

(* ::write takes the first k bytes; the rest goes to outputBuffer_. *)
WriteSome(c, bytes, k, q) ==
    LET rest == SubSeq(bytes, k + 1, Len(bytes))
    IN  /\ wire' = [wire EXCEPT ![c] = @ \o SubSeq(bytes, 1, k)]
        /\ outputBuffer_' = [outputBuffer_ EXCEPT ![c] = rest]
        /\ writing' = [writing EXCEPT ![c] = rest # <<>>]
        /\ funcs_' = IF rest = <<>> THEN Append(q, Func("complete", c)) ELSE q

Unwritten(q) == funcs_' = q /\ UNCHANGED <<wire, outputBuffer_, writing>>

(* sendInLoop(message). *)
SendInLoop(c, m, q) ==
    /\ \/ state_[c] = "kDisconnected" /\ Unwritten(q)
       \/ /\ state_[c] # "kDisconnected"
          /\ WritesDirectly(c)
          /\ IF WriteFails(c)
               THEN Unwritten(q)
               ELSE \E k \in 0..2 : WriteSome(c, BytesOf(m), k, q)
       \/ /\ state_[c] # "kDisconnected"
          /\ ~WritesDirectly(c)
          /\ outputBuffer_' = [outputBuffer_ EXCEPT ![c] = @ \o BytesOf(m)]
          /\ writing' = [writing EXCEPT ![c] = TRUE]
          /\ funcs_' = q
          /\ UNCHANGED wire
    /\ UNCHANGED <<state_, reading, added, writeShut, baseFuncs>>

(* Mutants of ShutdownInLoop: closeWrite() does not wait for the output; *)
(* the test of state_ is dropped.                                        *)
ShutdownAtOnce(c) ==
    /\ state_' = [state_ EXCEPT ![c] = IF @ = "kConnected" THEN "kDisconnecting" ELSE @]
    /\ writeShut' = [writeShut EXCEPT ![c] = TRUE]
    /\ UNCHANGED <<channelVars, outputBuffer_, wire, baseFuncs>>
ShutdownUntested(c) ==
    /\ state_' = [state_ EXCEPT ![c] = "kDisconnecting"]
    /\ UNCHANGED <<channelVars, outVars, baseFuncs>>

(* The functor of shutdown(). *)
ShutdownInLoop(c) ==
    /\ IF state_[c] = "kConnected"
         THEN /\ state_' = [state_ EXCEPT ![c] = "kDisconnecting"]
              /\ writeShut' = [writeShut EXCEPT ![c] = @ \/ ~writing[c]]
         ELSE UNCHANGED <<state_, writeShut>>
    /\ UNCHANGED <<channelVars, outputBuffer_, wire, baseFuncs>>

(* Mutants of HandleClose: state_ is not set; closeCallback_ is not called. *)
HandleCloseWith(c, st, queue) ==
    /\ state_' = st
    /\ reading' = [reading EXCEPT ![c] = FALSE] /\ writing' = [writing EXCEPT ![c] = FALSE]
    /\ added' = [added EXCEPT ![c] = FALSE]
    /\ baseFuncs' = queue
    /\ UNCHANGED outVars
HandleCloseKeepsState(c) == HandleCloseWith(c, state_, Append(baseFuncs, c))
HandleCloseSilent(c) == HandleCloseWith(c, [state_ EXCEPT ![c] = "kDisconnected"], baseFuncs)

(* remove() of the channel: the poller forgets it. *)
removeChannel(c) == added' = [added EXCEPT ![c] = FALSE]

(* connectDestroyed(), called with state_ kDisconnected. *)
connectDestroyed(c) == removeChannel(c)

(* The server's connectionClosed() queues the erase for the base loop and  *)
(* calls connectDestroyed() at once.                                       *)
connectionClosed(c) ==
    /\ baseFuncs' = Append(baseFuncs, c)
    /\ connectDestroyed(c)

(* handleClose(): disableAll(), then the close callback. *)
HandleClose(c) ==
    /\ state_' = [state_ EXCEPT ![c] = "kDisconnected"]
    /\ reading' = [reading EXCEPT ![c] = FALSE]
    /\ writing' = [writing EXCEPT ![c] = FALSE]
    /\ connectionClosed(c)
    /\ UNCHANGED outVars

(* Mutant of ForceCloseInLoop: the test of state_ is dropped. *)
ForceCloseUntested(c) == HandleClose(c)

(* The functor of forceClose(). *)
ForceCloseInLoop(c) ==
    IF state_[c] \in {"kConnected", "kDisconnecting"}
      THEN HandleClose(c)
      ELSE UNCHANGED <<state_, channelVars, outVars, baseFuncs>>

-----------------------------------------------------------------------------
(* The server, on the base loop. *)

(* newConnection(): connectEstablished goes to the I/O loop. *)
NewConnection(c) ==
    /\ server = "up"
    /\ state_[c] = "none"
    /\ state_' = [state_ EXCEPT ![c] = "kConnecting"]
    /\ connSet_' = connSet_ \cup {c}
    /\ funcs_' = Append(funcs_, Func("established", c))
    /\ UNCHANGED <<channelVars, outVars, netVars, toClose, userVars, baseFuncs, io, pollVars, task, server>>

(* The functor of connectionClosed(). *)
BaseErase ==
    /\ server = "up"
    /\ baseFuncs # <<>>
    /\ connSet_' = connSet_ \ {Head(baseFuncs)}
    /\ baseFuncs' = Tail(baseFuncs)
    /\ UNCHANGED <<state_, channelVars, outVars, netVars, toClose, userVars, funcs_, io, pollVars, task, server>>

(* ~TcpServer, once the base loop runs no more functors. *)
ServerClose ==
    /\ ServerStops
    /\ server = "up"
    /\ server' = "closing"
    /\ toClose' = connSet_
    /\ UNCHANGED <<state_, channelVars, outVars, netVars, connSet_, userVars, funcs_, baseFuncs,
                   io, pollVars, task>>

(* ~TcpServer: forceClose() of a connection of connSet_. *)
ServerForceClose(c) ==
    /\ server = "closing"
    /\ c \in toClose
    /\ toClose' = toClose \ {c}
    /\ funcs_' = Append(funcs_, Func("forceClose", c))
    /\ UNCHANGED <<state_, channelVars, outVars, netVars, connSet_, userVars, baseFuncs,
                   io, pollVars, task, server>>

(* ~TcpServer: loopPoolPtr_.reset() tells the I/O loop to quit. *)
ServerQuit ==
    /\ server = "closing"
    /\ toClose = {}
    /\ server' = "quitting"
    /\ UNCHANGED <<state_, channelVars, outVars, netVars, connSet_, toClose, userVars, funcs_, baseFuncs,
                   io, pollVars, task>>

(* ~TcpServer: the loop's thread has been joined; connSet_ is destroyed.   *)
(* The functors that erase from it stay queued in the base loop.           *)
ServerDown ==
    /\ server = "quitting"
    /\ io = "exited"
    /\ server' = "down"
    /\ connSet_' = {}
    /\ UNCHANGED <<state_, channelVars, outVars, netVars, toClose, userVars, funcs_, baseFuncs,
                   io, pollVars, task>>

(* After ~TcpServer: a base loop that lives on runs the functor, which     *)
(* uses the server it captured; one that has ended is destroyed with its   *)
(* functors.                                                               *)
BaseAfterServer ==
    /\ server = "down"
    /\ baseFuncs # <<>>
    /\ \/ server' = "used" /\ baseFuncs' = Tail(baseFuncs)
       \/ UNCHANGED server /\ baseFuncs' = <<>>
    /\ UNCHANGED <<state_, channelVars, outVars, netVars, connSet_, toClose, userVars, funcs_,
                   io, pollVars, task>>

-----------------------------------------------------------------------------
(* User threads.  They use a connection only while its loop exists. *)

MaySend(c, s) == sent[c][s] < MaxSend
NextMsg(c, s) == <<s, sent[c][s] + 1>>

(* send() in another thread: the test of state_. *)
UserSend(u, c) ==
    /\ upc[u] = "idle"
    /\ u \in held[c]
    /\ io # "exited"
    /\ MaySend(c, u)
    /\ state_[c] = "kConnected"
    /\ upc' = [upc EXCEPT ![u] = c]
    /\ UNCHANGED <<state_, channelVars, outVars, netVars, connSet_, toClose, held, sent, funcs_, baseFuncs,
                   io, pollVars, task, server>>

(* send() in another thread: runInLoop of sendInLoop, bound to this. *)
UserSendQueue(u) ==
    /\ upc[u] # "idle"
    /\ io # "exited"
    /\ LET c == upc[u]
       IN  /\ funcs_' = Append(funcs_, SendFunc(c, NextMsg(c, u)))
           /\ sent' = [sent EXCEPT ![c][u] = @ + 1]
    /\ upc' = [upc EXCEPT ![u] = "idle"]
    /\ UNCHANGED <<state_, channelVars, outVars, netVars, connSet_, toClose, held, baseFuncs,
                   io, pollVars, task, server>>

(* shutdown() or forceClose() in another thread, then the release of its   *)
(* TcpConnectionPtr; or only the release.                                  *)
UserLeaves(u, c) ==
    /\ upc[u] = "idle"
    /\ u \in held[c]
    /\ held' = [held EXCEPT ![c] = @ \ {u}]
    /\ \/ UNCHANGED funcs_
       \/ io # "exited" /\ \E op \in {"shutdown", "forceClose"} : funcs_' = Append(funcs_, Func(op, c))
    /\ UNCHANGED <<state_, channelVars, outVars, netVars, connSet_, toClose, sent, upc, baseFuncs,
                   io, pollVars, task, server>>

-----------------------------------------------------------------------------
(* The I/O loop. *)

(* The events epoll reports for c: it is readable for data, end of file or *)
(* an error, which is reported as well until it is taken; it is writable   *)
(* when the kernel likes.  A channel that is added reads, so that a        *)
(* hang-up comes with "in".                                                *)
Readable(c) == inbox[c] > 0 \/ peer[c] # "open"
Ready(c) ==
    IF added[c] /\ reading[c] /\ Readable(c)
      THEN {{"in"} \cup (IF peer[c] = "reset" THEN {"err"} ELSE {})}
      ELSE {{}}
Writable(c) == IF added[c] /\ writing[c] THEN {{}, {"out"}} ELSE {{}}

(* poll() returns with the active channels. *)
IoPoll ==
    /\ io = "poll"
    /\ io' = "handling"
    /\ revents' \in [Conns -> SUBSET Events]
    /\ \A c \in Conns : \E i \in Ready(c), o \in Writable(c) : revents'[c] = i \cup o
    /\ active' = {c \in Conns : revents'[c] # {}}
    /\ todo' = active'
    /\ UNCHANGED <<state_, channelVars, outVars, netVars, connSet_, toClose, userVars, funcs_, baseFuncs,
                   stale, task, server>>

(* handleEvent() of the next active channel, up to its read part: after an *)
(* error handleError() takes it off the socket.                            *)
HandleEvent(c) ==
    /\ io = "handling"
    /\ task = NoTask
    /\ c \in todo
    /\ todo' = todo \ {c}
    /\ peer' = [peer EXCEPT ![c] = IF "err" \in revents[c] THEN "dead" ELSE @]
    /\ task' = [conn |-> c, at |-> "read"]
    /\ UNCHANGED <<state_, channelVars, outVars, inbox, arrived, connSet_, toClose, userVars, funcs_, baseFuncs,
                   io, revents, active, stale, server>>

At(c, point) == task = [conn |-> c, at |-> point]
Goto(c, point) == task' = [conn |-> c, at |-> point]

(* The read part of handleEventWithGuard(): handleRead(). *)
ReadData(c) ==
    /\ inbox[c] > 0
    /\ inbox' = [inbox EXCEPT ![c] = @ - 1]
    /\ Goto(c, "callback")
    /\ UNCHANGED <<state_, channelVars, outVars, arrived, peer, baseFuncs>>

(* A reset after the poll may drop what was not read: read() gives the     *)
(* error, and handleError() finds none left.                               *)
ReadError(c) ==
    /\ peer[c] = "reset"
    /\ peer' = [peer EXCEPT ![c] = "dead"]
    /\ inbox' = [inbox EXCEPT ![c] = 0]
    /\ Goto(c, "write")
    /\ UNCHANGED <<state_, channelVars, outVars, arrived, baseFuncs>>

ReadEof(c) ==
    /\ peer[c] \in {"dead", "eof"} /\ inbox[c] = 0
    /\ HandleClose(c)
    /\ Goto(c, "write")
    /\ UNCHANGED netVars

HandleRead(c) ==
    /\ At(c, "read")
    /\ IF "in" \in revents[c]
         THEN ReadData(c) \/ ReadError(c) \/ ReadEof(c)
         ELSE Goto(c, "write") /\ UNCHANGED <<state_, channelVars, outVars, netVars, baseFuncs>>
    /\ UNCHANGED <<connSet_, toClose, userVars, funcs_, io, pollVars, server>>

(* The write part: handleWrite(), when the channel still is writing. *)
WriteOut(c) ==
    \/ /\ ~WriteFails(c)
       /\ \E k \in 1..Len(outputBuffer_[c]) : WriteSome(c, outputBuffer_[c], k, funcs_)
       /\ writeShut' = [writeShut EXCEPT ![c] = @ \/ (state_[c] = "kDisconnecting" /\ ~writing'[c])]
    \/ Unwritten(funcs_) /\ UNCHANGED writeShut

HandleWrite(c) ==
    /\ At(c, "write")
    /\ task' = NoTask
    /\ IF "out" \in revents[c] /\ writing[c]
         THEN WriteOut(c)
         ELSE Unwritten(funcs_) /\ UNCHANGED writeShut
    /\ UNCHANGED <<state_, reading, added, netVars, connSet_, toClose, userVars, baseFuncs,
                   io, pollVars, server>>

(* The user's code in a callback of d uses d or a connection it holds. *)
InCallback(d) == At(d, "callback") \/ At(d, "funcCallback")
MayUse(d, c) == InCallback(d) /\ (c = d \/ c \in connSet_)

CallbackSend(d, c) ==
    /\ MayUse(d, c)
    /\ MaySend(c, IoLoop)
    /\ state_[c] = "kConnected"
    /\ SendInLoop(c, NextMsg(c, IoLoop), funcs_)
    /\ sent' = [sent EXCEPT ![c][IoLoop] = @ + 1]
    /\ UNCHANGED <<netVars, connSet_, toClose, held, upc, io, pollVars, task, server>>

CallbackShutdown(d, c) ==
    /\ MayUse(d, c)
    /\ state_[c] = "kConnected"
    /\ ShutdownInLoop(c)
    /\ UNCHANGED <<netVars, connSet_, toClose, userVars, funcs_, io, pollVars, task, server>>

CallbackForceClose(d, c) ==
    /\ MayUse(d, c)
    /\ state_[c] \in {"kConnected", "kDisconnecting"}
    /\ ForceCloseInLoop(c)
    /\ stale' = stale \cup ({c} \cap todo)
    /\ UNCHANGED <<netVars, connSet_, toClose, userVars, funcs_, io, revents, active, todo, task, server>>

CallbackReturns(d) ==
    /\ InCallback(d)
    /\ task' = IF At(d, "callback") THEN [conn |-> d, at |-> "write"] ELSE NoTask
    /\ UNCHANGED <<state_, channelVars, outVars, netVars, connSet_, toClose, userVars, funcs_, baseFuncs,
                   io, pollVars, server>>

(* The channels are handled; doPendingFuncs begins. *)
HandlingDone ==
    /\ io = "handling"
    /\ task = NoTask
    /\ todo = {}
    /\ io' = "functors"
    /\ active' = {}
    /\ revents' = [c \in Conns |-> {}]
    /\ UNCHANGED <<state_, channelVars, outVars, netVars, connSet_, toClose, userVars, funcs_, baseFuncs,
                   todo, stale, task, server>>

(* update() of a channel with its first event: the poller adds it. *)
updateChannel(c) == added' = [added EXCEPT ![c] = TRUE]

(* connectEstablished(); the connection callback hands out the pointer. *)
RunEstablished(c) ==
    /\ state_' = [state_ EXCEPT ![c] = "kConnected"]
    /\ reading' = [reading EXCEPT ![c] = TRUE]
    /\ updateChannel(c)
    /\ held' = [held EXCEPT ![c] = Users]
    /\ Goto(c, "funcCallback")
    /\ funcs_' = Tail(funcs_)
    /\ UNCHANGED <<writing, outVars, baseFuncs>>

RunFunctor ==
    /\ io = "functors"
    /\ task = NoTask
    /\ funcs_ # <<>>
    /\ LET f == Head(funcs_)
       IN  \/ f.op = "established" /\ RunEstablished(f.conn)
           \/ f.op = "send" /\ SendInLoop(f.conn, f.msg, Tail(funcs_)) /\ UNCHANGED <<held, task>>
           \/ f.op = "shutdown" /\ ShutdownInLoop(f.conn) /\ funcs_' = Tail(funcs_) /\ UNCHANGED <<held, task>>
           \/ f.op = "forceClose" /\ ForceCloseInLoop(f.conn) /\ funcs_' = Tail(funcs_) /\ UNCHANGED <<held, task>>
           \/ /\ f.op = "complete"
              /\ Goto(f.conn, "funcCallback")
              /\ funcs_' = Tail(funcs_)
              /\ UNCHANGED <<state_, channelVars, outVars, held, baseFuncs>>
    /\ UNCHANGED <<netVars, connSet_, toClose, sent, upc, io, pollVars, server>>

FunctorsDone ==
    /\ io = "functors"
    /\ task = NoTask
    /\ funcs_ = <<>>
    /\ io' = "check"
    /\ UNCHANGED <<state_, channelVars, outVars, netVars, connSet_, toClose, userVars, funcs_, baseFuncs,
                   pollVars, task, server>>

(* loop() tests quit_ and goes on. *)
IoCheck ==
    /\ io = "check"
    /\ server # "quitting"
    /\ io' = "poll"
    /\ UNCHANGED <<state_, channelVars, outVars, netVars, connSet_, toClose, userVars, funcs_, baseFuncs,
                   pollVars, task, server>>

(* loop() sees quit_ and leaves; the EventLoop is destroyed with its       *)
(* functors.                                                               *)
IoExit ==
    /\ io = "check"
    /\ server = "quitting"
    /\ io' = "exited"
    /\ funcs_' = <<>>
    /\ UNCHANGED <<state_, channelVars, outVars, netVars, connSet_, toClose, userVars, baseFuncs,
                   pollVars, task, server>>

-----------------------------------------------------------------------------
(* The network. *)

PeerSends(c) ==
    /\ peer[c] = "open"
    /\ state_[c] # "none"
    /\ arrived[c] < MaxIn
    /\ arrived' = [arrived EXCEPT ![c] = @ + 1]
    /\ inbox' = [inbox EXCEPT ![c] = @ + 1]
    /\ UNCHANGED <<state_, channelVars, outVars, peer, connSet_, toClose, userVars, funcs_, baseFuncs,
                   io, pollVars, task, server>>

PeerCloses(c) ==
    /\ peer[c] = "open"
    /\ state_[c] # "none"
    /\ \E p \in {"eof", "reset"} : peer' = [peer EXCEPT ![c] = p]
    /\ UNCHANGED <<state_, channelVars, outVars, inbox, arrived, connSet_, toClose, userVars, funcs_, baseFuncs,
                   io, pollVars, task, server>>

ServerSteps == \/ BaseErase \/ ServerQuit \/ ServerDown \/ BaseAfterServer
               \/ \E c \in Conns : ServerForceClose(c)

IoSteps == \/ IoPoll \/ HandlingDone \/ RunFunctor \/ FunctorsDone \/ IoCheck \/ IoExit
           \/ \E c \in Conns : HandleEvent(c) \/ HandleRead(c) \/ HandleWrite(c) \/ CallbackReturns(c)

Callbacks == \E d, c \in Conns : CallbackSend(d, c) \/ CallbackShutdown(d, c) \/ CallbackForceClose(d, c)

Next ==
    \/ \E c \in Conns : NewConnection(c) \/ PeerSends(c) \/ PeerCloses(c)
    \/ ServerClose \/ ServerSteps
    \/ \E u \in Users : UserSendQueue(u) \/ \E c \in Conns : UserSend(u, c) \/ UserLeaves(u, c)
    \/ IoSteps
    \/ Callbacks

Spec == Init /\ [][Next]_vars

(* Both loops run, callbacks return, and users release what they hold. *)
Fairness ==
    /\ WF_vars(IoSteps)
    /\ WF_vars(ServerSteps)
    /\ \A u \in Users : WF_vars(UserSendQueue(u))
    /\ \A u \in Users, c \in Conns : WF_vars(UserLeaves(u, c))

FairSpec == Spec /\ Fairness

-----------------------------------------------------------------------------
(* The bytes of a message go out together, and the messages of a sender in *)
(* the order of its calls of send(), although some are written at once and *)
(* others wait in outputBuffer_ (TcpConnection.cpp:112-152).               *)
Stream(c) == wire[c] \o outputBuffer_[c]

MessagesWhole ==
    \A c \in Conns : LET s == Stream(c) IN
        \A i \in 1..Len(s) :
            /\ s[i][3] = 1 => i < Len(s) /\ s[i + 1] = <<s[i][1], s[i][2], 2>>
            /\ \A j \in 1..Len(s) : i < j /\ s[i][1] = s[j][1] => s[i][2] <= s[j][2]

(* closeWrite() never cuts off output: the write side of the socket is     *)
(* shut only when all that sendInLoop accepted has been written            *)
(* (TcpConnection.cpp:172, 261), and nothing is buffered after that.       *)
FinAfterData == \A c \in Conns : writeShut[c] => outputBuffer_[c] = <<>>

(* Waiting output is watched: until the connection is down, the channel    *)
(* asks for writability exactly while outputBuffer_ is not empty.          *)
OutputWatched ==
    \A c \in Conns : state_[c] # "kDisconnected" => (writing[c] <=> outputBuffer_[c] # <<>>)

(* assert(n == 1) at TcpServer.cpp:97: each connection is erased once, and *)
(* is in connSet_ until then, whether its end of file, a reset, its user   *)
(* or the server closes it, and in whatever order they meet.  Excepted are *)
(* the connections that the callback of another one closed while their     *)
(* event waited: they may be closed twice.                                 *)
ErasedOnce ==
    server \notin {"down", "used"} =>
        \A i \in 1..Len(baseFuncs) :
            \/ baseFuncs[i] \in stale
            \/ baseFuncs[i] \in connSet_ /\ \A j \in 1..Len(baseFuncs) : baseFuncs[i] = baseFuncs[j] => i = j

(* The assertions on state_ hold when they are reached:                    *)
(* connectEstablished() finds kConnecting (TcpConnection.cpp:201), and     *)
(* handleClose(), the one step that queues an erase, is entered in         *)
(* kConnected or kDisconnecting (287), from a functor, a callback or an    *)
(* event; with the same exception.                                         *)
Closes(c) == baseFuncs' = Append(baseFuncs, c)
StateAsserted ==
    [][/\ \A i \in 1..Len(funcs_) : funcs_[i].op = "established" => state_[funcs_[i].conn] = "kConnecting"
       /\ \A c \in Conns \ stale : Closes(c) => state_[c] \in {"kConnected", "kDisconnecting"}]_vars

(* Without the exception: the assertion at TcpConnection.cpp:287 for every *)
(* connection.  A callback that closes another active one breaks it.       *)
ClosedOnce ==
    [][\A c \in Conns : Closes(c) => state_[c] \in {"kConnected", "kDisconnecting"}]_vars

(* No functor uses the server after its destructor (TcpServer.cpp:94).     *)
(* One that is still queued in a base loop that lives on breaks it.        *)
ServerUsedAlive == server # "used"

(* assert(state_ == kDisconnected) in ~TcpConnection (TcpConnection.cpp:46)*)
(* as long as the server is not destroyed.                                 *)
DestroyedDisconnected == \A c \in Conns : Destroyed(c) => state_[c] = "kDisconnected"

(* A connection whose peer closes or resets it is destroyed in the end,    *)
(* once its users let go of it: nothing keeps it in a set or a callback.   *)
PeerCloseEnds == \A c \in Conns : peer[c] # "open" ~> Destroyed(c)

(* A connection that shutdown() or forceClose() put down cannot get up     *)
(* again, and no byte is written once it is down.                          *)
DownStaysDown ==
    [][\A c \in Conns : state_[c] = "kDisconnected" =>
            state_[c]' = "kDisconnected" /\ wire[c]' = wire[c]]_vars

(* "assert(currentActiveChannel_ == channel || std::find(...) == end())"   *)
(* (EventLoop.cpp:104-107): a channel is removed while the loop handles    *)
(* events only if it is the current one or is not active.  A callback that *)
(* closes another active connection breaks it.                             *)
RemovesOnlyInactive ==
    io = "handling" => \A c \in active : added[c] \/ task.conn = c \/ c \notin todo

-----------------------------------------------------------------------------
(* The inductive invariant behind OutputWatched, FinAfterData,             *)
(* StateAsserted and DestroyedDisconnected.                                *)

(* A queued connectEstablished() waits for a new connection, and exactly   *)
(* the channels of the connections that are up are in the poller.          *)
StateMatches ==
    /\ \A i \in 1..Len(funcs_) : funcs_[i].op = "established" => state_[funcs_[i].conn] = "kConnecting"
    /\ \A c \in Conns : added[c] <=> state_[c] \in {"kConnected", "kDisconnecting"}

(* Events wait only while they are handled, the one in hand no more; and   *)
(* what waits, or is about to be read, is up unless it is stale.           *)
EventsPending ==
    /\ todo # {} => io = "handling"
    /\ task # NoTask => io \in {"handling", "functors"} /\ task.conn \notin todo
    /\ \A c \in Conns \ stale : c \in todo \/ At(c, "read") => added[c]

(* A connection that is down asks for no more writability. *)
DownQuiet == \A c \in Conns : state_[c] = "kDisconnected" => ~writing[c]

(* connectEstablished() is queued once for a connection. *)
EstablishedOnce ==
    \A i, j \in 1..Len(funcs_) :
        funcs_[i].op = "established" /\ funcs_[j].op = "established" /\ funcs_[i].conn = funcs_[j].conn => i = j

(* epoll reports events of established connections only. *)
EventsEstablished == \A c \in Conns : revents[c] # {} => state_[c] \notin {"none", "kConnecting"}

(* The server erases what is down, and keeps the others. *)
ErasesDown == \A i \in 1..Len(baseFuncs) : state_[baseFuncs[i]] = "kDisconnected"
ServerKeeps ==
    server \notin {"down", "used"} => \A c \in Conns : state_[c] \notin {"none", "kDisconnected"} => c \in connSet_

(* What is to be read has arrived. *)
InboxArrived == \A c \in Conns : inbox[c] <= arrived[c]

(* A thread inside send() has a message left to send. *)
SendCounted == \A u \in Users : upc[u] # "idle" => sent[upc[u]][u] < MaxSend

(* The server goes down only if it is stopped. *)
ServerStopped == server # "up" => ServerStops

ConnInv ==
    /\ TypeOK
    /\ OutputWatched /\ FinAfterData /\ DownQuiet
    /\ StateMatches /\ EstablishedOnce
    /\ EventsEstablished
    /\ ErasesDown /\ ServerKeeps /\ ServerStopped
    /\ InboxArrived /\ SendCounted
=============================================================================
