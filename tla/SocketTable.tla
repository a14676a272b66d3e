---------------------------- MODULE SocketTable ----------------------------
(***************************************************************************)
(* Kernel sockets: SocketTable (packages/core/src/kernel/socket-table.ts). *)
(*                                                                         *)
(* A call that awaits (bind and connect of a Unix path, listen and connect *)
(* through the host, a blocking accept or recv) is two steps: the caller   *)
(* keeps its arguments in `call' in between and everybody else may run.    *)
(* Socket ids are never used again, so an id also stands for the object a  *)
(* suspended call refers to after the table dropped it.                    *)
(*                                                                         *)
(* Stream sockets only.  Buffers are counted in bytes: what they hold      *)
(* matters to no guard.  nonBlocking, SO_REUSEADDR, SO_RCVBUF and          *)
(* SA_RESTART are read and never written by the operations below, and are  *)
(* inputs of the steps that read them.  The address connect() gives a      *)
(* client that has none is registered nowhere and is left out.             *)
(***************************************************************************)
EXTENDS Naturals, Sequences, FiniteSets, SequencesExt

CONSTANTS Callers, Pids,
          Proc,             \* the process of each caller
          Hosts, Wildcard,  \* local addresses and the wildcard among them
          Ports,            \* kernel ports; also what the host may assign
          Paths,            \* Unix socket paths
          None,
          MaxSockets,       \* maxSockets
          BacklogSize,      \* the argument of listen()
          Owners,           \* the processes of the sockets a run starts with
          MaxId, MaxBytes,  \* bounds: sockets ever created, bytes in a buffer,
          MaxCalls          \* calls made

ASSUME SocketAssumption ==
    /\ Proc \in [Callers -> Pids]
    /\ Wildcard \in Hosts /\ Ports \subseteq Nat \ {0} /\ Ports # {}
    /\ {MaxSockets, BacklogSize, MaxId, MaxBytes, MaxCalls} \subseteq Nat
    /\ Owners \in Seq(Pids) /\ Len(Owners) <= MaxSockets /\ MaxSockets <= MaxId

Ids == 1 .. MaxId
Inet == [host : Hosts, port : Ports]
Unix == [path : Paths]
Addrs == Inet \cup Unix

\* null is neither a socket id nor an address.
ASSUME NoneAssumption == None \notin Nat /\ None \notin Addrs

VARIABLES
    sock,        \* the KernelSocket objects
    live,        \* keys of the `sockets' map
    last,        \* nextSocketId - 1
    listeners,   \* address -> id of the socket registered for it
    files,       \* paths that exist in the VFS
    call,        \* what each caller is suspended in
    pump,        \* accept pump: "off", "waiting" for the host, or "got" a connection
    calls,       \* calls made so far
    hostOpen,    \* host sockets and listeners opened for a socket and not closed
    (* History of the run, read by no guard. *)
    astray,      \* a resumed call acted on a socket in a state it had not checked
    displaced,   \* sockets whose address another one was registered for
    stale,       \* addresses a socket was registered for when it was bound anew
    crowded      \* sockets two callers were blocked on at once

vars == <<sock, live, last, listeners, files, call, calls, pump, hostOpen,
          astray, displaced, stale, crowded>>
history == <<astray, displaced, stale, crowded>>

NoSock == [state |-> "none", pid |-> None, local |-> None,
           ephemeral |-> FALSE, peer |-> None, peerWriteClosed |-> FALSE,
           buf |-> 0, backlog |-> <<>>, limit |-> 0, host |-> "none",
           readers |-> <<>>, acceptors |-> <<>>, given |-> FALSE]

Idle == [op |-> "idle", sock |-> None, addr |-> None, win |-> "none"]
Suspend(op, s, a) == [op |-> op, sock |-> s, addr |-> a, win |-> "none"]

\* A guest only names sockets that a call has returned to it.
Usable(s) == s \in live /\ sock[s].given

Created(p, state) == [NoSock EXCEPT !.state = state, !.pid = p]

\* create() has room for n more; the ids it takes stay below the bound.
HasRoom(n) == Cardinality(live) + n <= MaxSockets /\ last + n <= MaxId

\* Slip: the limit is one too high.
MutFull(l) == Len(sock[l].backlog) > sock[l].limit

\* The accept backlog of l has reached its limit.
Full(l) == Len(sock[l].backlog) >= sock[l].limit

\* Handles of these callers are settled: the one that is settled first decides
\* the race of waitForSocketWake.
Settled(cs, why) ==
    [c \in Callers |->
        IF c \in cs /\ call[c].win = "none" THEN [call[c] EXCEPT !.win = why]
        ELSE call[c]]

\* Whom wakeOne() settles, and the queue it leaves
First(queue) == IF queue = <<>> THEN {} ELSE {Head(queue)}
Rest(queue) == IF queue = <<>> THEN queue ELSE Tail(queue)

----------------------------------------------------------------------------
(* Addresses *)

InetAddr(a) == a \in Inet
Overlap(a, b) == a.port = b.port /\ (a.host = Wildcard \/ b.host = Wildcard)

\* isAddrInUse
AddrInUse(a, reuse) ==
    /\ ~(reuse /\ InetAddr(a))
    /\ \/ listeners[a] # None
       \/ /\ InetAddr(a)
          /\ \E k \in Addrs : /\ listeners[k] \in live
                              /\ InetAddr(sock[listeners[k]].local)
                              /\ Overlap(a, sock[listeners[k]].local)

\* assignEphemeralPort: the first free port; none is EADDRINUSE.
Ephemeral(h, reuse) ==
    {p \in Ports :
        /\ ~AddrInUse([host |-> h, port |-> p], reuse)
        /\ \A q \in Ports : q < p => AddrInUse([host |-> h, port |-> q], reuse)}

\* getListeningSocket
Listening(a) ==
    IF listeners[a] \in live
       /\ sock[listeners[a]].state = "listening"
    THEN listeners[a] ELSE None

\* findListener: exact match first, then the wildcard
FindListener(a) ==
    IF Listening(a) # None \/ ~InetAddr(a) THEN Listening(a)
    ELSE Listening([a EXCEPT !.host = Wildcard])

----------------------------------------------------------------------------
(* create, socketpair *)

Create(p) ==
    /\ HasRoom(1)
    /\ last' = last + 1
    /\ live' = live \cup {last'}
    /\ sock' = [sock EXCEPT ![last'] = [Created(p, "created") EXCEPT !.given = TRUE]]
    /\ UNCHANGED <<listeners, files, call, pump, hostOpen, history>>

Socketpair(p) ==
    LET a == last + 1   b == last + 2
        End(peer) == [Created(p, "connected") EXCEPT !.peer = peer, !.given = TRUE]
    IN
    /\ HasRoom(2)
    /\ last' = b
    /\ live' = live \cup {a, b}
    /\ sock' = [sock EXCEPT ![a] = End(b), ![b] = End(a)]
    /\ UNCHANGED <<listeners, files, call, pump, hostOpen, history>>

\* The same when there is room for one only: the second create() throws EMFILE.
\* The first socket stays in the table, and its id was given to nobody.
SocketpairFails(p) ==
    /\ HasRoom(1) /\ Cardinality(live) + 2 > MaxSockets
    /\ last' = last + 1
    /\ live' = live \cup {last'}
    /\ sock' = [sock EXCEPT ![last'] = Created(p, "created")]
    /\ UNCHANGED <<listeners, files, call, pump, hostOpen, history>>

----------------------------------------------------------------------------
(* bind *)

\* bind() from the in-use test on: registers the socket, whatever its state is
\* by now.  A socket that a failed connect has put back to "created" may still
\* be registered from an earlier bind(): that entry stays.
Register(s, a, ephemeral) ==
    /\ sock' = [sock EXCEPT ![s].local = a, ![s].state = "bound",
                            ![s].ephemeral = ephemeral]
    /\ listeners' = [listeners EXCEPT ![a] = s]
    /\ displaced' = displaced \cup ({listeners[a]} \ {None, s})
    /\ stale' = stale \cup {k \in Addrs \ {a} : listeners[k] = s}
    /\ astray' = (astray \/ s \notin live \/ sock[s].state # "created")
    /\ UNCHANGED <<live, last, pump, hostOpen, crowded>>

\* bind() to an internet address: no await.  Port 0 is assigned.
BindInet(s, a, reuse) ==
    /\ Usable(s) /\ sock[s].state = "created"
    /\ ~AddrInUse(a, reuse)
    /\ Register(s, a, FALSE)
    /\ UNCHANGED <<files, call>>

BindEphemeral(s, h, reuse) ==
    /\ Usable(s) /\ sock[s].state = "created"
    /\ \E p \in Ephemeral(h, reuse) :
         Register(s, [host |-> h, port |-> p], TRUE)
    /\ UNCHANGED <<files, call>>

\* bind() to a path awaits the existence check ...
BindUnix(c, s, a) ==
    /\ call[c] = Idle /\ Usable(s) /\ sock[s].state = "created"
    /\ call' = [call EXCEPT ![c] = Suspend("bind", s, a)]
    /\ UNCHANGED <<sock, live, last, listeners, files, pump, hostOpen, history>>

\* ... fails with EADDRINUSE, or registers and goes on to create the file ...
BindUnixFails(c) ==
    /\ call[c].op = "bind"
    /\ call[c].addr.path \in files
         \/ AddrInUse(call[c].addr, FALSE)
    /\ call' = [call EXCEPT ![c] = Idle]
    /\ UNCHANGED <<sock, live, last, listeners, files, pump, hostOpen, history>>

BindUnixResume(c) ==
    LET s == call[c].sock   a == call[c].addr IN
    /\ call[c].op = "bind" /\ a.path \notin files
    /\ ~AddrInUse(a, FALSE)
    /\ Register(s, a, FALSE)
    /\ call' = [call EXCEPT ![c] = Suspend("mkfile", s, a)]
    /\ UNCHANGED files

\* ... which close() never removes.
CreateSocketFile(c) ==
    /\ call[c].op = "mkfile"
    /\ files' = files \cup {call[c].addr.path}
    /\ call' = [call EXCEPT ![c] = Idle]
    /\ UNCHANGED <<sock, live, last, listeners, pump, hostOpen, history>>

----------------------------------------------------------------------------
(* listen and the accept pump *)

\* listen() without the host
Listen(s) ==
    /\ Usable(s) /\ sock[s].state = "bound"
    /\ sock' = [sock EXCEPT ![s].state = "listening", ![s].limit = BacklogSize]
    /\ UNCHANGED <<live, last, listeners, files, call, pump, hostOpen, history>>

\* listen() through the host awaits tcpListen ...
ListenHost(c, s) ==
    /\ call[c] = Idle /\ Usable(s)
    /\ sock[s].state = "bound" /\ InetAddr(sock[s].local)
    /\ sock' = [sock EXCEPT ![s].limit = BacklogSize]
    /\ call' = [call EXCEPT ![c] = Suspend("listen", s, None)]
    /\ UNCHANGED <<live, last, listeners, files, pump, hostOpen, history>>

\* ... which the host may refuse ...
HostRefuses(c) ==
    /\ call[c].op \in {"listen", "connectHost"}
    /\ call' = [call EXCEPT ![c] = Idle]
    /\ UNCHANGED <<sock, live, last, listeners, files, pump, hostOpen, history>>

\* ... or answers with a port that replaces an ephemeral one.  Neither the state
\* of the socket nor the use of the new port is looked at.
ListenResume(c, port) ==
    LET s    == call[c].sock
        old  == sock[s].local
        move == sock[s].ephemeral /\ InetAddr(old)
        new  == IF move THEN [old EXCEPT !.port = port] ELSE old
    IN
    /\ call[c].op = "listen"
    /\ move \/ port = CHOOSE p \in Ports : TRUE
    /\ sock' = [sock EXCEPT ![s].state = "listening", ![s].local = new,
                            ![s].host = "listener"]
    /\ listeners' = IF move THEN [listeners EXCEPT ![old] = None, ![new] = s]
                    ELSE listeners
    /\ hostOpen' = [hostOpen EXCEPT ![s] = @ + 1]
    /\ pump' = [pump EXCEPT ![s] = "waiting"]
    /\ call' = [call EXCEPT ![c] = Idle]
    /\ astray' = (astray \/ s \notin live \/ sock[s].state # "bound")
    /\ displaced' = displaced \cup ({listeners[old], listeners[new]} \ {None, s})
    /\ UNCHANGED <<live, last, files, stale, crowded>>

\* The host has a connection for the pump of s, which is about to resume.
HostConnects(s) ==
    /\ pump[s] = "waiting" /\ hostOpen[s] > 0
    /\ pump' = [pump EXCEPT ![s] = "got"]
    /\ UNCHANGED <<sock, live, last, listeners, files, call, hostOpen, history>>

\* The pump's loop condition
PumpAgain(s) == IF sock[s].state = "listening" /\ sock[s].host = "listener"
                THEN "waiting" ELSE "off"

\* startAcceptPump after its await: a full backlog drops the connection, create
\* may fail and end the pump (the host connection then stays open) ...
PumpDrops(s) ==
    /\ pump[s] = "got"
    /\ Full(s) \/ Cardinality(live) >= MaxSockets
    /\ pump' = [pump EXCEPT ![s] = IF Full(s) THEN PumpAgain(s) ELSE "off"]
    /\ UNCHANGED <<sock, live, last, listeners, files, call, hostOpen, history>>

\* ... or a connected socket joins the backlog, whether or not the listener is
\* still open.
PumpAccepts(s) ==
    /\ pump[s] = "got" /\ ~Full(s) /\ HasRoom(1)
    /\ last' = last + 1 /\ live' = live \cup {last'}
    /\ sock' = [sock EXCEPT
          ![last'] = [Created(sock[s].pid, "connected") EXCEPT
                         !.host = "socket", !.local = sock[s].local],
          ![s].backlog = Append(@, last'), ![s].acceptors = Rest(@)]
    /\ hostOpen' = [hostOpen EXCEPT ![last'] = 1]
    /\ call' = Settled(First(sock[s].acceptors), "socket")
    /\ pump' = [pump EXCEPT ![s] = PumpAgain(s)]
    /\ astray' = (astray \/ s \notin live)
    /\ UNCHANGED <<listeners, files, displaced, stale, crowded>>

----------------------------------------------------------------------------
(* accept and recv, with their waits *)

\* A caller blocks on a queue of s; `crowded' remembers that it is not alone.
Crowd(s, queue) == crowded' = IF queue = <<>> THEN crowded ELSE crowded \cup {s}

\* One turn of acceptBlocking on the acceptors left in the queue.
TakeOrWait(c, s, queue) ==
    IF sock[s].backlog # <<>>
    THEN LET conn == Head(sock[s].backlog) IN
         /\ sock' = [sock EXCEPT ![s].backlog = Tail(@), ![s].acceptors = queue,
                                 ![conn].given = TRUE]
         /\ call' = [call EXCEPT ![c] = Idle]
         /\ UNCHANGED crowded
    ELSE /\ sock' = [sock EXCEPT ![s].acceptors = Append(queue, c)]
         /\ call' = [call EXCEPT ![c] = Suspend("accept", s, None)]
         /\ Crowd(s, queue)

\* accept(), with or without block: an empty backlog is null or EAGAIN without.
Accept(c, s) ==
    /\ call[c] = Idle /\ Usable(s) /\ sock[s].state = "listening"
    /\ TakeOrWait(c, s, sock[s].acceptors)
    /\ UNCHANGED <<live, last, listeners, files, pump, hostOpen, astray, displaced,
                   stale>>

\* acceptBlocking after its wait: EINTR, EINVAL, or another turn.  `restart' is
\* SA_RESTART of the signal delivered last.
AcceptResume(c) ==
    LET s    == call[c].sock
        left == RemoveFirst(sock[s].acceptors, c)
    IN
    /\ call[c].op = "accept" /\ call[c].win # "none"
    /\ \E restart \in BOOLEAN :
         IF \/ call[c].win = "signal" /\ ~restart
            \/ sock[s].state # "listening"
         THEN /\ sock' = [sock EXCEPT ![s].acceptors = left]
              /\ call' = [call EXCEPT ![c] = Idle]
              /\ UNCHANGED crowded
         ELSE TakeOrWait(c, s, left)
    /\ astray' = (astray \/ (s \notin live /\ sock'[s].acceptors # left))
    /\ UNCHANGED <<live, last, listeners, files, pump, hostOpen, displaced,
                   stale>>

\* recv() can take from the buffer.
Readable(s) == sock[s].state \in {"connected", "write-closed"} /\ sock[s].buf > 0

\* recv() on an empty buffer: the peer is gone or sends no more.
Eof(s) == sock[s].peer \notin live \/ sock[s].peerWriteClosed

\* canBlockForRecv
CanBlockForRecv(s) ==
    /\ sock[s].state \notin {"read-closed", "closed"} /\ sock[s].buf = 0
    /\ IF sock[s].host = "socket" THEN ~sock[s].peerWriteClosed ELSE ~Eof(s)

\* One turn of recvBlocking: recv of up to n bytes, an error or EOF, or a wait.
\* nonBlocking turns the wait into EAGAIN, unless recv() returned null first.
ReadOrWait(c, s, queue, n) ==
    \/ /\ s \in live /\ Readable(s)
       /\ sock' = [sock EXCEPT ![s].buf = IF n >= @ THEN 0 ELSE @ - n,
                               ![s].readers = queue]
       /\ call' = [call EXCEPT ![c] = Idle]
       /\ UNCHANGED crowded
    \/ /\ \/ s \notin live
          \/ sock[s].state \notin {"connected", "write-closed"}
          \/ ~Readable(s) /\ ~(Eof(s) /\ CanBlockForRecv(s))
       /\ sock' = [sock EXCEPT ![s].readers = queue]
       /\ call' = [call EXCEPT ![c] = Idle]
       /\ UNCHANGED crowded
    \/ /\ s \in live /\ sock[s].state \in {"connected", "write-closed"}
       /\ CanBlockForRecv(s)
       /\ sock' = [sock EXCEPT ![s].readers = Append(queue, c)]
       /\ call' = [call EXCEPT ![c] = Suspend("recv", s, None)]
       /\ Crowd(s, queue)

\* recv(): on an empty buffer it only blocks if the peer is a live kernel socket.
Recv(c, s, n) ==
    /\ call[c] = Idle /\ Usable(s)
    /\ sock[s].state \in {"connected", "write-closed"} /\ (Readable(s) \/ ~Eof(s))
    /\ ReadOrWait(c, s, sock[s].readers, n)
    /\ UNCHANGED <<live, last, listeners, files, pump, hostOpen, astray, displaced,
                   stale>>

\* recvBlocking after its wait
RecvResume(c, n) ==
    LET s    == call[c].sock
        left == RemoveFirst(sock[s].readers, c)
    IN
    /\ call[c].op = "recv" /\ call[c].win # "none"
    /\ \/ /\ call[c].win = "signal"
          /\ sock' = [sock EXCEPT ![s].readers = left]
          /\ call' = [call EXCEPT ![c] = Idle]
          /\ UNCHANGED crowded
       \/ ReadOrWait(c, s, left, n)
    /\ UNCHANGED <<live, last, listeners, files, pump, hostOpen, astray, displaced,
                   stale>>

\* A caught signal is delivered to p: deliverySeq grows, signalWaiters wake.
Signal(p) ==
    LET hit == {c \in Callers : Proc[c] = p /\ call[c].op \in {"accept", "recv"}
                                            /\ call[c].win = "none"} IN
    /\ hit # {}
    /\ call' = Settled(hit, "signal")
    /\ UNCHANGED <<sock, live, last, listeners, files, pump, hostOpen, history>>

----------------------------------------------------------------------------
(* connect *)

\* connect() to a kernel listener l: a server-side socket is created, linked
\* and queued.  The client's state is not looked at again after an await.
Link(s, l) ==
    LET server == last + 1 IN
    /\ ~Full(l) /\ HasRoom(1)
    /\ last' = server /\ live' = live \cup {server}
    /\ sock' = [sock EXCEPT
          ![server] = [Created(sock[l].pid, "connected") EXCEPT
                          !.local = sock[l].local, !.peer = s],
          ![s].peer = server, ![s].state = "connected",
          ![l].backlog = Append(@, server), ![l].acceptors = Rest(@)]
    /\ astray' = (astray \/ s \notin live \/ sock[s].state \notin {"created", "bound"})
    /\ UNCHANGED <<listeners, pump, hostOpen, displaced, stale, crowded>>

CanConnect(s) == Usable(s) /\ sock[s].state \in {"created", "bound"}

ConnectInet(s, a) ==
    /\ CanConnect(s) /\ FindListener(a) # None
    /\ Link(s, FindListener(a))
    /\ call' = Settled(First(sock[FindListener(a)].acceptors), "socket")
    /\ UNCHANGED files

\* connect() to a path awaits the existence check ...
ConnectUnix(c, s, a) ==
    /\ call[c] = Idle /\ CanConnect(s)
    /\ call' = [call EXCEPT ![c] = Suspend("connect", s, a)]
    /\ UNCHANGED <<sock, live, last, listeners, files, pump, hostOpen, history>>

\* ... and then is refused or linked.
ConnectUnixFails(c) ==
    LET l == FindListener(call[c].addr) IN
    /\ call[c].op = "connect"
    /\ ~(/\ call[c].addr.path \in files /\ l # None
         /\ ~Full(l) /\ Cardinality(live) < MaxSockets)
    /\ call' = [call EXCEPT ![c] = Idle]
    /\ UNCHANGED <<sock, live, last, listeners, files, pump, hostOpen, history>>

ConnectUnixResume(c) ==
    LET l == FindListener(call[c].addr) IN
    /\ call[c].op = "connect"
    /\ call[c].addr.path \in files /\ l # None
    /\ Link(call[c].sock, l)
    /\ call' = [Settled(First(sock[l].acceptors), "socket") EXCEPT ![c] = Idle]
    /\ UNCHANGED files

\* connect() to an address without a kernel listener goes to the host: a
\* blocking one awaits tcpConnect ...
ConnectHost(c, s, a) ==
    /\ call[c] = Idle /\ CanConnect(s) /\ FindListener(a) = None
    /\ call' = [call EXCEPT ![c] = Suspend("connectHost", s, a)]
    /\ UNCHANGED <<sock, live, last, listeners, files, pump, hostOpen, history>>

ConnectHostResume(c) ==
    LET s == call[c].sock IN
    /\ call[c].op = "connectHost"
    /\ sock' = [sock EXCEPT ![s].state = "connected", ![s].host = "socket"]
    /\ hostOpen' = [hostOpen EXCEPT ![s] = @ + 1]
    /\ call' = [call EXCEPT ![c] = Idle]
    /\ astray' = (astray \/ s \notin live \/ sock[s].state \notin {"created", "bound"})
    /\ UNCHANGED <<live, last, listeners, files, pump, displaced, stale, crowded>>

\* ... a non-blocking one returns EINPROGRESS and startExternalConnect finishes
\* it: connected, or back to "created", or nothing if the socket was closed.
ConnectStart(s, a) ==
    /\ CanConnect(s) /\ FindListener(a) = None
    /\ sock' = [sock EXCEPT ![s].state = "connecting"]
    /\ UNCHANGED <<live, last, listeners, files, call, pump, hostOpen, history>>

ConnectDone(s) ==
    /\ s \in live /\ sock[s].state = "connecting"
    /\ \/ /\ sock' = [sock EXCEPT ![s].state = "connected", ![s].host = "socket"]
          /\ hostOpen' = [hostOpen EXCEPT ![s] = @ + 1]
       \/ /\ sock' = [sock EXCEPT ![s].state = "created"]
          /\ UNCHANGED hostOpen
    /\ UNCHANGED <<live, last, listeners, files, call, pump, history>>

----------------------------------------------------------------------------
(* send, data from the host, shutdown *)

\* send() to a kernel peer: its buffer grows, one of its readers is woken.
Send(s, n) ==
    LET p == sock[s].peer IN
    /\ Usable(s) /\ sock[s].state \in {"connected", "read-closed"}
    /\ sock[s].host # "socket" /\ p \in live
    /\ sock[p].buf + n <= MaxBytes
    /\ sock' = [sock EXCEPT ![p].buf = @ + n, ![p].readers = Rest(@)]
    /\ call' = Settled(First(sock[p].readers), "socket")
    /\ UNCHANGED <<live, last, listeners, files, pump, hostOpen, history>>

\* A write to the host failed: the socket is closed but stays in the table.
HostWriteFails(s) ==
    /\ s \in live /\ sock[s].host = "socket" /\ sock[s].state # "closed"
    /\ sock' = [sock EXCEPT ![s].state = "closed", ![s].readers = <<>>]
    /\ call' = Settled(Range(sock[s].readers), "socket")
    /\ UNCHANGED <<live, last, listeners, files, pump, hostOpen, history>>

\* startReadPump: data or the end of the stream from the host
HostData(s, n) ==
    /\ s \in live /\ sock[s].host = "socket" /\ sock[s].state # "closed"
    /\ ~sock[s].peerWriteClosed /\ sock[s].buf + n <= MaxBytes
    /\ sock' = [sock EXCEPT ![s].buf = @ + n, ![s].readers = Rest(@)]
    /\ call' = Settled(First(sock[s].readers), "socket")
    /\ UNCHANGED <<live, last, listeners, files, pump, hostOpen, history>>

HostEnds(s) ==
    /\ s \in live /\ sock[s].host = "socket" /\ sock[s].state # "closed"
    /\ ~sock[s].peerWriteClosed
    /\ sock' = [sock EXCEPT ![s].peerWriteClosed = TRUE, ![s].readers = <<>>]
    /\ call' = Settled(Range(sock[s].readers), "socket")
    /\ UNCHANGED <<live, last, listeners, files, pump, hostOpen, history>>

\* The state after shutdown("read"), ("write") or ("both")
ShutState(state, how) ==
    IF how = "both" \/ (how = "read" /\ state = "write-closed")
                    \/ (how = "write" /\ state = "read-closed")
    THEN "closed" ELSE IF how = "read" THEN "read-closed" ELSE "write-closed"

\* Slip: the peer's blocked readers are not told.
MutShutdownWakes(s, how) == IF how = "write" THEN {} ELSE Range(sock[s].readers)

\* The callers that shutdownWrite and shutdownRead wake
ShutdownWakes(s, how) ==
    (IF how # "read" /\ sock[s].peer \in live
     THEN Range(sock[sock[s].peer].readers) ELSE {})
    \cup (IF how # "write" THEN Range(sock[s].readers) ELSE {})

Shutdown(s, how) ==
    LET p == sock[s].peer   toPeer == how # "read" /\ p \in live IN
    /\ Usable(s) /\ sock[s].state \in {"connected", "write-closed", "read-closed"}
    /\ sock' = [x \in Ids |->
          IF x = s THEN [sock[s] EXCEPT
                            !.state = ShutState(@, how),
                            !.buf = IF how = "write" THEN @ ELSE 0,
                            !.readers = IF how = "write" THEN @ ELSE <<>>]
          ELSE IF x = p /\ toPeer
               THEN [sock[x] EXCEPT !.peerWriteClosed = TRUE, !.readers = <<>>]
               ELSE sock[x]]
    /\ call' = Settled(ShutdownWakes(s, how), "socket")
    /\ UNCHANGED <<live, last, listeners, files, pump, hostOpen, history>>

----------------------------------------------------------------------------
(* close, exit, dispose *)

\* Slip: connections nobody accepted are left alone.
MutDoomed(closing) == closing

\* destroySocket also destroys the connections nobody accepted.
Doomed(closing) ==
    closing \cup ((UNION {Range(sock[s].backlog) : s \in closing}) \cap live)

\* Slip: the peer keeps its link and is not told.
MutUnlinked(doomed) == {}

\* Sockets whose link destroySocket cuts, waking their readers
Unlinked(doomed) == {sock[s].peer : s \in doomed} \cap live

\* Slip: the registration is left behind.
MutFreed(doomed) == {}

\* Registrations that go with their sockets
Freed(doomed) ==
    {a \in Addrs : listeners[a] \in doomed /\ sock[listeners[a]].local = a}

\* Slip: the host's side stays open.
MutHostClosed(s) == hostOpen[s]

\* destroySocket closes the one host handle the socket knows of.
HostClosed(s) == IF sock[s].host # "none" THEN hostOpen[s] - 1 ELSE hostOpen[s]

Destroy(closing) ==
    LET doomed == Doomed(closing) IN
    /\ live' = live \ doomed
    /\ sock' = [x \in Ids |->
          IF x \in doomed
          THEN [NoSock EXCEPT !.state = "closed", !.pid = sock[x].pid,
                              !.local = sock[x].local, !.ephemeral = sock[x].ephemeral, !.limit = sock[x].limit]
          ELSE IF x \in Unlinked(doomed)
          THEN [sock[x] EXCEPT !.peer = None, !.readers = <<>>] ELSE sock[x]]
    /\ call' = Settled((UNION {Range(sock[x].readers) \cup Range(sock[x].acceptors) : x \in doomed})
                       \cup (UNION {Range(sock[x].readers) : x \in Unlinked(doomed)}),
                       "socket")
    /\ listeners' = [a \in Addrs |-> IF a \in Freed(doomed) THEN None ELSE listeners[a]]
    /\ hostOpen' = [s \in Ids |-> IF s \in doomed THEN HostClosed(s) ELSE hostOpen[s]]
    /\ pump' = [s \in Ids |-> IF s \in doomed /\ pump[s] = "waiting" THEN "off" ELSE pump[s]]
    /\ UNCHANGED <<last, files, history>>

\* close(), by the owner
Close(s) == Usable(s) /\ Destroy({s})

\* closeAllForProcess
CloseAllForProcess(p) ==
    LET mine == {s \in live : sock[s].pid = p} IN
    mine # {} /\ Destroy(mine)

\* disposeAll: everybody is woken and the maps are cleared; the objects keep
\* their state.
DisposeAll ==
    /\ live # {} /\ live' = {}
    /\ sock' = [s \in Ids |-> [sock[s] EXCEPT !.readers = <<>>, !.acceptors = <<>>]]
    /\ call' = Settled({c \in Callers : call[c].op \in {"recv", "accept"}}, "socket")
    /\ listeners' = [a \in Addrs |-> None]
    /\ hostOpen' = [s \in Ids |-> IF s \in live THEN HostClosed(s) ELSE hostOpen[s]]
    /\ pump' = [s \in Ids |-> IF s \in live /\ pump[s] = "waiting" THEN "off" ELSE pump[s]]
    /\ UNCHANGED <<last, files, history>>

----------------------------------------------------------------------------

\* A run starts with a few sockets, or none, that processes have created; the
\* first has been bound to an internet address and listens.
Init ==
    /\ last = Len(Owners) /\ live = DOMAIN Owners
    /\ \E a \in Inet :
         /\ sock = [s \in Ids |->
              IF s \notin live THEN NoSock
              ELSE LET new == [Created(Owners[s], "created") EXCEPT !.given = TRUE] IN
                   IF s = 1
                   THEN [new EXCEPT !.state = "listening", !.local = a, !.limit = BacklogSize]
                   ELSE new]
         /\ listeners = [x \in Addrs |-> IF x = a /\ live # {} THEN 1 ELSE None]
    /\ files = {}
    /\ call = [c \in Callers |-> Idle]
    /\ pump = [s \in Ids |-> "off"]
    /\ hostOpen = [s \in Ids |-> 0]
    /\ calls = 0
    /\ astray = FALSE /\ displaced = {} /\ stale = {} /\ crowded = {}

\* A guest or the kernel calls the table.
Call ==
    \/ \E p \in Pids : Create(p) \/ Socketpair(p) \/ SocketpairFails(p) \/ CloseAllForProcess(p)
    \/ DisposeAll
    \/ \E s \in live :
         \/ Listen(s) \/ Close(s)
         \/ \E n \in 1 .. MaxBytes : Send(s, n)
         \/ \E how \in {"read", "write", "both"} : Shutdown(s, how)
         \/ \E a \in Inet : ConnectInet(s, a) \/ ConnectStart(s, a)
         \/ \E reuse \in BOOLEAN :
              \/ \E a \in Inet : BindInet(s, a, reuse)
              \/ \E h \in Hosts : BindEphemeral(s, h, reuse)
         \/ \E c \in Callers :
              \/ ListenHost(c, s) \/ Accept(c, s)
              \/ \E n \in 1 .. MaxBytes : Recv(c, s, n)
              \/ \E a \in Unix : BindUnix(c, s, a) \/ ConnectUnix(c, s, a)
              \/ \E a \in Inet : ConnectHost(c, s, a)

\* A suspended caller goes on, or the host or a signal comes in.
Progress ==
    \/ \E c \in Callers :
         \/ BindUnixFails(c) \/ BindUnixResume(c) \/ CreateSocketFile(c)
         \/ HostRefuses(c) \/ AcceptResume(c)
         \/ ConnectUnixFails(c) \/ ConnectUnixResume(c) \/ ConnectHostResume(c)
         \/ \E n \in 1 .. MaxBytes : RecvResume(c, n)
         \/ \E port \in Ports : ListenResume(c, port)
    \/ \E s \in Ids :
         \/ HostConnects(s) \/ PumpDrops(s) \/ PumpAccepts(s) \/ ConnectDone(s)
         \/ HostWriteFails(s) \/ HostEnds(s)
         \/ \E n \in 1 .. MaxBytes : HostData(s, n)
    \/ \E p \in Pids : Signal(p)

Next ==
    \/ Call /\ calls < MaxCalls /\ calls' = calls + 1
    \/ Progress /\ UNCHANGED calls

Spec == Init /\ [][Next]_vars

----------------------------------------------------------------------------

States == {"none", "created", "bound", "listening", "connecting", "connected",
           "read-closed", "write-closed", "closed"}

\* Types, and the two limits the table promises: no backlog outgrows what
\* listen() asked for, whether kernel clients or the host's pump fill it, and
\* the table never holds more than maxSockets.
TypeOK ==
    /\ live \subseteq 1 .. last /\ last \in 0 .. MaxId
    /\ Cardinality(live) <= MaxSockets
    /\ \A s \in Ids :
         /\ sock[s].state \in States
         /\ sock[s].local \in Addrs \cup {None} /\ sock[s].peer \in Ids \cup {None}
         /\ Len(sock[s].backlog) <= sock[s].limit
         /\ Range(sock[s].readers) \cup Range(sock[s].acceptors) \subseteq Callers
    /\ listeners \in [Addrs -> Ids \cup {None}]
    /\ files \subseteq Paths
    /\ pump \in [Ids -> {"off", "waiting", "got"}]
    /\ \A c \in Callers : call[c].win \in {"none", "socket", "signal"}

(* The invariants below hold until a call resumed after its await, or the    *)
(* accept pump, acts on a socket that was closed, or left the state the call *)
(* had checked, during that await (astray).  What happens then is not theirs. *)

\* Connected sockets point at each other and at nobody who is gone, through
\* half-closes, closes and exits in any order: a stale link would feed bytes to
\* the wrong socket, or cut a stranger's connection when it is destroyed.
\* (Until astray: a connect resumed for a closed socket links it all the same.)
PeersSymmetric ==
    ~astray => \A s \in live :
        sock[s].peer # None => sock[s].peer \in live /\ sock[sock[s].peer].peer = s

\* A connection, that is a socket given to nobody which is past "created".  The
\* socket that a failed socketpair() leaves behind is in "created" for ever.
Unaccepted(s) == ~sock[s].given /\ sock[s].state # "created"

\* s waits in the backlog of one live listener.
Queued(s) ==
    \E l \in live : /\ sock[l].state = "listening" /\ s \in Range(sock[l].backlog)
                    /\ \A m \in Ids \ {l} : s \notin Range(sock[m].backlog)

\* A connection that was made and not accepted waits in the backlog of one live
\* listener: connect(), accept(), exits and closes, of the listener too, lose
\* none, until the pump resumes for a listener closed during its await (astray).
\* Then one is lost: see NoDetachedConnection.
NoConnectionLost == ~astray => \A s \in live : Unaccepted(s) => Queued(s)

\* What kernel.md says of closing a listener: its queued connections go with it,
\* "so detached connections do not remain reachable without a listener owner".
\* The pump queues one more at a listener that is already gone, and fails it.
NoDetachedConnection == \A s \in live : Unaccepted(s) => Queued(s)

\* A registration neither outlives its socket nor is lost before it: every
\* entry of `listeners' is a live socket bound to that very address, and every
\* bound or listening socket can be found.  Two exceptions come about without
\* any await: an entry left from an earlier bind() of a socket bound anew after
\* a failed connect (stale), and a socket whose address a later bind() with
\* SO_REUSEADDR, or a port chosen by the host, took (displaced).
RegistrationsLive ==
    ~astray =>
    /\ \A a \in Addrs \ stale : listeners[a] # None =>
         listeners[a] \in live /\ sock[listeners[a]].local = a
    /\ \A s \in live \ displaced : sock[s].state \in {"bound", "listening"} =>
         listeners[sock[s].local] = s

\* What destroySocket says it does: "Free listener/binding registration if this
\* socket was bound".  With no call astray, no address is registered for a
\* socket that is gone.  It frees the last address only: bind, a failed
\* non-blocking connect, bind and close leave the first one taken for ever.
CloseFreesAddresses ==
    ~astray => \A a \in Addrs : listeners[a] # None => listeners[a] \in live

\* A lone caller blocked in accept() or recv() is blocked on a live socket that
\* has nothing for it: no connection, byte, half-close, close or signal comes
\* and goes without settling its handle.  Where two were blocked on one socket
\* (crowded) nothing is said: wakeOne may settle a handle nobody waits on.
NoLostWakeup ==
    ~astray => \A c \in Callers :
        LET s == call[c].sock IN
        (call[c].op \in {"accept", "recv"} /\ call[c].win = "none" /\ s \notin crowded)
        => /\ s \in live
           /\ call[c].op = "accept" => sock[s].state = "listening" /\ sock[s].backlog = <<>>
           /\ call[c].op = "recv" => CanBlockForRecv(s)

\* Host sockets and listeners are released with the kernel socket: none stays
\* open for a socket that is gone, and no live socket lost track of one.  Not
\* covered: a connection the pump found no room for, which belongs to no socket
\* and leaks, and the handle a resumed listen or connect opens for a socket that
\* was closed during the await (astray).
HostHandlesOwned ==
    ~astray => \A s \in Ids :
        hostOpen[s] = IF s \in live /\ sock[s].host # "none" THEN 1 ELSE 0
============================================================================
