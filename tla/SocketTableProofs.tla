------------------------- MODULE SocketTableProofs -------------------------
(***************************************************************************)
(* Proofs about SocketTable, for any processes, callers, addresses and     *)
(* limits: the types and limits of the table; and, until a resumed call    *)
(* acts on a socket that changed during its await, that links are mutual,  *)
(* host handles owned, registrations alive, connections not lost and       *)
(* blocked callers woken.                                                  *)
(***************************************************************************)
EXTENDS SocketTable, Integers, Functions, FiniteSetTheorems, SequenceTheorems, WellFoundedInduction, TLAPS

\* The wait queue as WaitQueue uses it: enqueue() adds a new handle at the tail,
\* wakeOne() takes the head out, and a handle is never on the queue twice.
LEMMA QueueAppend ==
    ASSUME NEW S, NEW q \in Seq(S), NEW x \in S, IsInjective(q), x \notin Range(q)
    PROVE  /\ Append(q, x) \in Seq(S)
           /\ IsInjective(Append(q, x))
           /\ Range(Append(q, x)) = Range(q) \cup {x}
  <1>1. /\ Append(q, x) \in Seq(S) /\ Len(Append(q, x)) = Len(q) + 1
        /\ \A i \in 1 .. Len(q) : Append(q, x)[i] = q[i]
        /\ Append(q, x)[Len(q) + 1] = x
    BY AppendProperties
  <1>2. /\ Len(q) \in Nat /\ DOMAIN q = 1 .. Len(q)
        /\ DOMAIN Append(q, x) = 1 .. (Len(q) + 1)
    BY <1>1, LenProperties
  <1>3. \A i \in 1 .. Len(q) : q[i] # x
    BY <1>2 DEF Range
  <1>4. IsInjective(Append(q, x))
    BY <1>1, <1>2, <1>3 DEF IsInjective
  <1>5. Range(Append(q, x)) = Range(q) \cup {x}
    BY <1>1, <1>2 DEF Range
  <1> QED
    BY <1>1, <1>4, <1>5

\* Taking the head off a queue without duplicates leaves the other waiters on it,
\* each once.
LEMMA QueueTail ==
    ASSUME NEW S, NEW q \in Seq(S), q # <<>>, IsInjective(q)
    PROVE  /\ Tail(q) \in Seq(S) /\ Head(q) \in S
           /\ IsInjective(Tail(q))
           /\ Head(q) \in Range(q)
           /\ Range(Tail(q)) = Range(q) \ {Head(q)}
  <1>1. /\ Head(q) \in S /\ Tail(q) \in Seq(S) /\ Len(Tail(q)) = Len(q) - 1
        /\ \A i \in 1 .. Len(Tail(q)) : Tail(q)[i] = q[i + 1]
    BY HeadTailProperties
  <1>2. /\ Len(q) \in Nat \ {0} /\ DOMAIN q = 1 .. Len(q)
        /\ DOMAIN Tail(q) = 1 .. (Len(q) - 1)
    BY <1>1, LenProperties, EmptySeq
  <1>3. Head(q) = q[1]
    OBVIOUS
  <1>4. IsInjective(Tail(q))
    BY <1>1, <1>2 DEF IsInjective
  <1>5. \A y : y \in Range(q) => y = q[1] \/ y \in Range(Tail(q))
    <2> SUFFICES ASSUME NEW i \in 1 .. Len(q)
                 PROVE  q[i] = q[1] \/ q[i] \in Range(Tail(q))
      BY <1>2 DEF Range
    <2>1. CASE i = 1
      BY <2>1
    <2>2. CASE i # 1
      <3>1. i - 1 \in 1 .. (Len(q) - 1) /\ Tail(q)[i - 1] = q[i]
        BY <1>1, <1>2, <2>2
      <3> QED
        BY <1>2, <3>1 DEF Range
    <2> QED
      BY <2>1, <2>2
  <1>6. \A y : y \in Range(Tail(q)) => y \in Range(q) /\ y # q[1]
    BY <1>1, <1>2 DEF Range, IsInjective
  <1>7. q[1] \in Range(q)
    BY <1>2 DEF Range
  <1> QED
    BY <1>1, <1>3, <1>4, <1>5, <1>6, <1>7

\* A set of naturals that is not empty has a least element.
LEMMA LeastNatural ==
    ASSUME NEW S \in SUBSET Nat, S # {}
    PROVE  \E x \in S : \A y \in S : x <= y
  <1> DEFINE less == {e \in Nat \X Nat : e[1] < e[2]}
  <1>1. IsWellFoundedOn(less, Nat)
    BY NatLessThanWellFounded DEF OpToRel
  <1> HIDE DEF less
  <1>2. PICK x \in S : \A y \in S : ~(<<y, x>> \in less)
    BY <1>1, WFMin, Zenon
  <1>3. ASSUME NEW y \in S PROVE x <= y
    <2>1. x \in Nat /\ y \in Nat /\ ~(y < x)
      BY <1>2 DEF less
    <2> QED
      BY <2>1
  <1> QED
    BY <1>3

Socks ==
    [state : States, pid : Pids \cup {None}, local : Addrs \cup {None}, ephemeral : BOOLEAN,
     peer : Ids \cup {None}, peerWriteClosed : BOOLEAN, buf : Nat, backlog : Seq(Ids), limit : Nat,
     host : {"none", "socket", "listener"}, readers : Seq(Callers), acceptors : Seq(Callers), given : BOOLEAN]

Fields == {"state", "pid", "local", "ephemeral", "peer", "peerWriteClosed", "buf", "backlog", "limit",
           "host", "readers", "acceptors", "given"}

\* T has the sockets of S with the same values in the fields F.
Keeps(S, T, F) == \A x \in Ids : \A f \in F : T[x][f] = S[x][f]

\* T is S with field f of socket s set to v.
Put(S, T, s, f, v) ==
    /\ T \in [Ids -> Socks] /\ Keeps(S, T, Fields \ {f})
    /\ \A x \in Ids : T[x][f] = IF x = s THEN v ELSE S[x][f]

LEMMA PutRecord ==
    ASSUME NEW S \in [Ids -> Socks], NEW s \in Ids, NEW f \in Fields, NEW v, NEW r \in Socks,
           r[f] = v, \A g \in Fields \ {f} : r[g] = S[s][g]
    PROVE  Put(S, [S EXCEPT ![s] = r], s, f, v)
  BY DEF Put, Keeps

LEMMA PutType ==
    ASSUME NEW S, NEW T, NEW s, NEW f, NEW v, Put(S, T, s, f, v)
    PROVE  T \in [Ids -> Socks]
  BY DEF Put

\* Assigning one field of one socket.
LEMMA Puts ==
    ASSUME NEW S \in [Ids -> Socks], NEW s \in Ids
    PROVE  /\ \A v \in States : Put(S, [S EXCEPT ![s].state = v], s, "state", v)
           /\ \A v \in Addrs \cup {None} : Put(S, [S EXCEPT ![s].local = v], s, "local", v)
           /\ \A v \in BOOLEAN : Put(S, [S EXCEPT ![s].ephemeral = v], s, "ephemeral", v)
           /\ \A v \in Ids \cup {None} : Put(S, [S EXCEPT ![s].peer = v], s, "peer", v)
           /\ \A v \in BOOLEAN : Put(S, [S EXCEPT ![s].peerWriteClosed = v], s, "peerWriteClosed", v)
           /\ \A v \in Nat : Put(S, [S EXCEPT ![s].buf = v], s, "buf", v)
           /\ \A v \in Seq(Ids) : Put(S, [S EXCEPT ![s].backlog = v], s, "backlog", v)
           /\ \A v \in Nat : Put(S, [S EXCEPT ![s].limit = v], s, "limit", v)
           /\ \A v \in {"none", "socket", "listener"} : Put(S, [S EXCEPT ![s].host = v], s, "host", v)
           /\ \A v \in Seq(Callers) : Put(S, [S EXCEPT ![s].readers = v], s, "readers", v)
           /\ \A v \in Seq(Callers) : Put(S, [S EXCEPT ![s].acceptors = v], s, "acceptors", v)
           /\ \A v \in BOOLEAN : Put(S, [S EXCEPT ![s].given = v], s, "given", v)
  <1> DEFINE r == S[s]
  <1>1. r \in Socks
    OBVIOUS
  <1>2. ASSUME NEW v \in States PROVE Put(S, [S EXCEPT ![s].state = v], s, "state", v)
    <2>1. [r EXCEPT !.state = v] \in Socks /\ [r EXCEPT !.state = v].state = v
      BY <1>1 DEF Socks
    <2>2. \A g \in Fields \ {"state"} : [r EXCEPT !.state = v][g] = r[g]
      BY <1>1 DEF Socks, Fields
    <2> QED
      BY <2>1, <2>2, PutRecord DEF Fields
  <1>3. ASSUME NEW v \in Addrs \cup {None} PROVE Put(S, [S EXCEPT ![s].local = v], s, "local", v)
    <2>1. [r EXCEPT !.local = v] \in Socks /\ [r EXCEPT !.local = v].local = v
      BY <1>1 DEF Socks
    <2>2. \A g \in Fields \ {"local"} : [r EXCEPT !.local = v][g] = r[g]
      BY <1>1 DEF Socks, Fields
    <2> QED
      BY <2>1, <2>2, PutRecord DEF Fields
  <1>4. ASSUME NEW v \in BOOLEAN PROVE Put(S, [S EXCEPT ![s].ephemeral = v], s, "ephemeral", v)
    <2>1. [r EXCEPT !.ephemeral = v] \in Socks /\ [r EXCEPT !.ephemeral = v].ephemeral = v
      BY <1>1 DEF Socks
    <2>2. \A g \in Fields \ {"ephemeral"} : [r EXCEPT !.ephemeral = v][g] = r[g]
      BY <1>1 DEF Socks, Fields
    <2> QED
      BY <2>1, <2>2, PutRecord DEF Fields
  <1>5. ASSUME NEW v \in Ids \cup {None} PROVE Put(S, [S EXCEPT ![s].peer = v], s, "peer", v)
    <2>1. [r EXCEPT !.peer = v] \in Socks /\ [r EXCEPT !.peer = v].peer = v
      BY <1>1 DEF Socks
    <2>2. \A g \in Fields \ {"peer"} : [r EXCEPT !.peer = v][g] = r[g]
      BY <1>1 DEF Socks, Fields
    <2> QED
      BY <2>1, <2>2, PutRecord DEF Fields
  <1>6. ASSUME NEW v \in BOOLEAN PROVE Put(S, [S EXCEPT ![s].peerWriteClosed = v], s, "peerWriteClosed", v)
    <2>1. [r EXCEPT !.peerWriteClosed = v] \in Socks /\ [r EXCEPT !.peerWriteClosed = v].peerWriteClosed = v
      BY <1>1 DEF Socks
    <2>2. \A g \in Fields \ {"peerWriteClosed"} : [r EXCEPT !.peerWriteClosed = v][g] = r[g]
      BY <1>1 DEF Socks, Fields
    <2> QED
      BY <2>1, <2>2, PutRecord DEF Fields
  <1>7. ASSUME NEW v \in Nat PROVE Put(S, [S EXCEPT ![s].buf = v], s, "buf", v)
    <2>1. [r EXCEPT !.buf = v] \in Socks /\ [r EXCEPT !.buf = v].buf = v
      BY <1>1 DEF Socks
    <2>2. \A g \in Fields \ {"buf"} : [r EXCEPT !.buf = v][g] = r[g]
      BY <1>1 DEF Socks, Fields
    <2> QED
      BY <2>1, <2>2, PutRecord DEF Fields
  <1>8. ASSUME NEW v \in Seq(Ids) PROVE Put(S, [S EXCEPT ![s].backlog = v], s, "backlog", v)
    <2>1. [r EXCEPT !.backlog = v] \in Socks /\ [r EXCEPT !.backlog = v].backlog = v
      BY <1>1 DEF Socks
    <2>2. \A g \in Fields \ {"backlog"} : [r EXCEPT !.backlog = v][g] = r[g]
      BY <1>1 DEF Socks, Fields
    <2> QED
      BY <2>1, <2>2, PutRecord DEF Fields
  <1>9. ASSUME NEW v \in Nat PROVE Put(S, [S EXCEPT ![s].limit = v], s, "limit", v)
    <2>1. [r EXCEPT !.limit = v] \in Socks /\ [r EXCEPT !.limit = v].limit = v
      BY <1>1 DEF Socks
    <2>2. \A g \in Fields \ {"limit"} : [r EXCEPT !.limit = v][g] = r[g]
      BY <1>1 DEF Socks, Fields
    <2> QED
      BY <2>1, <2>2, PutRecord DEF Fields
  <1>10. ASSUME NEW v \in {"none", "socket", "listener"} PROVE Put(S, [S EXCEPT ![s].host = v], s, "host", v)
    <2>1. [r EXCEPT !.host = v] \in Socks /\ [r EXCEPT !.host = v].host = v
      BY <1>1 DEF Socks
    <2>2. \A g \in Fields \ {"host"} : [r EXCEPT !.host = v][g] = r[g]
      BY <1>1 DEF Socks, Fields
    <2> QED
      BY <2>1, <2>2, PutRecord DEF Fields
  <1>11. ASSUME NEW v \in Seq(Callers) PROVE Put(S, [S EXCEPT ![s].readers = v], s, "readers", v)
    <2>1. [r EXCEPT !.readers = v] \in Socks /\ [r EXCEPT !.readers = v].readers = v
      BY <1>1 DEF Socks
    <2>2. \A g \in Fields \ {"readers"} : [r EXCEPT !.readers = v][g] = r[g]
      BY <1>1 DEF Socks, Fields
    <2> QED
      BY <2>1, <2>2, PutRecord DEF Fields
  <1>12. ASSUME NEW v \in Seq(Callers) PROVE Put(S, [S EXCEPT ![s].acceptors = v], s, "acceptors", v)
    <2>1. [r EXCEPT !.acceptors = v] \in Socks /\ [r EXCEPT !.acceptors = v].acceptors = v
      BY <1>1 DEF Socks
    <2>2. \A g \in Fields \ {"acceptors"} : [r EXCEPT !.acceptors = v][g] = r[g]
      BY <1>1 DEF Socks, Fields
    <2> QED
      BY <2>1, <2>2, PutRecord DEF Fields
  <1>13. ASSUME NEW v \in BOOLEAN PROVE Put(S, [S EXCEPT ![s].given = v], s, "given", v)
    <2>1. [r EXCEPT !.given = v] \in Socks /\ [r EXCEPT !.given = v].given = v
      BY <1>1 DEF Socks
    <2>2. \A g \in Fields \ {"given"} : [r EXCEPT !.given = v][g] = r[g]
      BY <1>1 DEF Socks, Fields
    <2> QED
      BY <2>1, <2>2, PutRecord DEF Fields
  <1> QED
    BY <1>2, <1>3, <1>4, <1>5, <1>6, <1>7, <1>8, <1>9, <1>10, <1>11, <1>12, <1>13

Ops == {"idle", "bind", "mkfile", "listen", "connect", "connectHost", "accept", "recv"}
Wins == {"none", "socket", "signal"}
CallRecs == [op : Ops, sock : Ids \cup {None}, addr : Addrs \cup {None}, win : Wins]

TableTypes == last \in 0 .. MaxId /\ live \subseteq 1 .. last /\ Cardinality(live) <= MaxSockets

\* Backlogs keep to what listen() asked for and name sockets that were created.
SockTypes ==
    /\ sock \in [Ids -> Socks]
    /\ \A s \in Ids : /\ Len(sock[s].backlog) <= sock[s].limit /\ sock[s].limit <= BacklogSize
                      /\ Range(sock[s].backlog) \subseteq 1 .. last

\* A suspended call refers to a socket that was created, and bind and connect to a path.
CallTypes ==
    /\ call \in [Callers -> CallRecs]
    /\ \A c \in Callers : /\ call[c].op # "idle" => call[c].sock \in 1 .. last
                          /\ call[c].op \in {"bind", "mkfile", "connect"} => call[c].addr \in Unix

OtherTypes ==
    /\ listeners \in [Addrs -> Ids \cup {None}] /\ files \subseteq Paths
    /\ pump \in [Ids -> {"off", "waiting", "got"}] /\ hostOpen \in [Ids -> Int]
    /\ \A s \in Ids : pump[s] # "off" => s \in 1 .. last

Types == TableTypes /\ SockTypes /\ CallTypes /\ OtherTypes

LEMMA Known ==
    ASSUME TableTypes
    PROVE  /\ last \in Nat /\ MaxId \in Nat /\ 1 .. last \subseteq Ids /\ live \subseteq Ids
           /\ last + 1 \notin live /\ last + 2 \notin live
           /\ \A n \in 1 .. last : n # last + 1 /\ n # last + 2
  <1>1. last \in 0 .. MaxId /\ live \subseteq 1 .. last /\ MaxId \in Nat
    BY SocketAssumption DEF TableTypes
  <1> QED
    BY ONLY <1>1 DEF Ids

LEMMA LiveFinite ==
    ASSUME TableTypes
    PROVE  IsFiniteSet(live) /\ Cardinality(live) \in Nat
  <1>1. IsFiniteSet(1 .. last)
    BY Known, FS_Interval
  <1> QED
    BY <1>1, FS_Subset, FS_CardinalityType DEF TableTypes

\* A new socket: of create, socketpair, connect and the accept pump.
IsNew(r, t) ==
    /\ r \in Socks /\ r.state = t /\ r.backlog = <<>> /\ r.limit = 0 /\ r.readers = <<>>
    /\ r.acceptors = <<>> /\ r.buf = 0 /\ r.peerWriteClosed = FALSE

LEMMA RecordSets ==
    ASSUME NEW r \in Socks
    PROVE  /\ \A v \in States : [r EXCEPT !.state = v] \in Socks
           /\ \A v \in Pids \cup {None} : [r EXCEPT !.pid = v] \in Socks
           /\ \A v \in Addrs \cup {None} : [r EXCEPT !.local = v] \in Socks
           /\ \A v \in Ids \cup {None} : [r EXCEPT !.peer = v] \in Socks
           /\ [r EXCEPT !.host = "socket"] \in Socks
           /\ [r EXCEPT !.given = TRUE] \in Socks
  BY DEF Socks

LEMMA NewSocks ==
    ASSUME NEW p \in Pids \cup {None}, NEW t \in States, NEW q \in Ids, NEW a \in Addrs \cup {None}
    PROVE  /\ IsNew([Created(p, t) EXCEPT !.given = TRUE], t)
           /\ IsNew([Created(p, t) EXCEPT !.peer = q, !.given = TRUE], t)
           /\ IsNew([Created(p, t) EXCEPT !.local = a, !.peer = q], t)
           /\ IsNew([Created(p, t) EXCEPT !.host = "socket", !.local = a], t)
  <1>1. NoSock \in Socks
    BY EmptySeq DEF NoSock, Socks, States
  <1>2. Created(p, t) \in Socks
    BY <1>1, RecordSets DEF Created
  <1> DEFINE b == [Created(p, t) EXCEPT !.given = TRUE]
             d == [Created(p, t) EXCEPT !.peer = q, !.given = TRUE]
             e == [Created(p, t) EXCEPT !.local = a, !.peer = q]
             f == [Created(p, t) EXCEPT !.host = "socket", !.local = a]
  <1>3. b \in Socks /\ d \in Socks /\ e \in Socks /\ f \in Socks
    BY <1>2, RecordSets
  <1>4. \A r \in {b, d, e, f} :
            /\ r.state = t /\ r.backlog = <<>> /\ r.limit = 0 /\ r.readers = <<>>
            /\ r.acceptors = <<>> /\ r.buf = 0 /\ r.peerWriteClosed = FALSE
    BY DEF Created, NoSock
  <1> QED
    BY <1>3, <1>4 DEF IsNew

\* What waking these callers does to their calls.
LEMMA SettledEffect ==
    ASSUME CallTypes, NEW cs, NEW why \in {"socket", "signal"}
    PROVE  /\ Settled(cs, why) \in [Callers -> CallRecs]
           /\ \A c \in Callers :
                 /\ Settled(cs, why)[c].op = call[c].op /\ Settled(cs, why)[c].sock = call[c].sock
                 /\ Settled(cs, why)[c].addr = call[c].addr
                 /\ c \in cs => Settled(cs, why)[c].win # "none"
                 /\ c \notin cs => Settled(cs, why)[c] = call[c]
  <1> SUFFICES ASSUME NEW c \in Callers
               PROVE  /\ Settled(cs, why)[c] \in CallRecs
                      /\ Settled(cs, why)[c].op = call[c].op /\ Settled(cs, why)[c].sock = call[c].sock
                      /\ Settled(cs, why)[c].addr = call[c].addr
                      /\ c \in cs => Settled(cs, why)[c].win # "none"
                      /\ c \notin cs => Settled(cs, why)[c] = call[c]
    BY DEF Settled
  <1>1. call[c] \in CallRecs
    BY DEF CallTypes
  <1>2. Settled(cs, why)[c] = IF c \in cs /\ call[c].win = "none" THEN [call[c] EXCEPT !.win = why] ELSE call[c]
    BY DEF Settled
  <1> QED
    BY <1>1, <1>2 DEF CallRecs, Wins

LEMMA SuspendType ==
    ASSUME NEW op \in Ops, NEW s \in Ids, NEW a \in Addrs \cup {None}
    PROVE  /\ Suspend(op, s, a) \in CallRecs /\ Suspend(op, s, a).op = op /\ Suspend(op, s, a).sock = s
           /\ Suspend(op, s, a).addr = a /\ Suspend(op, s, a).win = "none"
           /\ Idle \in CallRecs /\ Idle.op = "idle"
  BY DEF Suspend, Idle, CallRecs, Wins, Ops

\* wakeOne(): whom it settles, and the queue it leaves.
LEMMA WakeOne ==
    ASSUME NEW S, NEW q \in Seq(S)
    PROVE  /\ Rest(q) \in Seq(S) /\ First(q) \subseteq S
           /\ \A x \in Range(q) : x \in First(q) \/ x \in Range(Rest(q))
           /\ Len(q) <= 1 => Rest(q) = <<>> /\ Range(q) = First(q)
           /\ Len(Rest(q)) <= Len(q)
  <1>1. CASE q = <<>>
    BY <1>1 DEF Rest, First, Range
  <1>2. CASE q # <<>>
    <2>1. Rest(q) = Tail(q) /\ First(q) = {Head(q)}
      BY <1>2 DEF Rest, First
    <2>2. /\ Tail(q) \in Seq(S) /\ Head(q) \in S /\ Head(q) = q[1] /\ DOMAIN q = 1 .. Len(q)
          /\ DOMAIN Tail(q) = 1 .. Len(Tail(q)) /\ Len(Tail(q)) = Len(q) - 1 /\ Len(q) \in Nat \ {0}
          /\ \A i \in 1 .. Len(Tail(q)) : Tail(q)[i] = q[i + 1]
      BY <1>2
    <2>3. ASSUME NEW i \in 1 .. Len(q), i # 1 PROVE q[i] \in Range(Tail(q))
      <3>1. i - 1 \in 1 .. Len(Tail(q)) /\ Tail(q)[i - 1] = q[i]
        BY <2>2, <2>3
      <3> QED
        BY <2>2, <3>1 DEF Range
    <2>4. \A x \in Range(q) : x = Head(q) \/ x \in Range(Tail(q))
      BY <2>2, <2>3 DEF Range
    <2>5. Len(q) <= 1 => Tail(q) = <<>> /\ Range(q) = {Head(q)}
      BY <2>2 DEF Range
    <2> QED
      BY <2>1, <2>2, <2>4, <2>5
  <1> QED
    BY <1>1, <1>2

\* WaitQueue.remove: the handle of one caller leaves the queue, the others stay.
LEMMA RemoveEffect ==
    ASSUME NEW S, NEW q \in Seq(S), NEW e
    PROVE  /\ RemoveFirst(q, e) \in Seq(S) /\ Len(RemoveFirst(q, e)) <= Len(q)
           /\ \A x \in Range(q) : x # e => x \in Range(RemoveFirst(q, e))
  <1>1. CASE ~(\E i \in 1 .. Len(q) : q[i] = e)
    BY <1>1 DEF RemoveFirst
  <1>2. CASE \E i \in 1 .. Len(q) : q[i] = e
    <2> DEFINE I == {i \in 1 .. Len(q) : q[i] = e}
               k == Min(I)
    <2>1. I \in SUBSET Nat /\ I # {}
      BY <1>2
    <2>2. k \in I
      <3> HIDE DEF I
      <3>1. \E x \in I : \A y \in I : x <= y
        BY <2>1, LeastNatural
      <3> QED
        BY <3>1 DEF Min
    <2>3. SelectInSeq(q, LAMBDA v : v = e) = k
      BY <2>1 DEF SelectInSeq
    <2>4. RemoveFirst(q, e) = SubSeq(q, 1, k - 1) \o SubSeq(q, k + 1, Len(q))
      BY <1>2, <2>3 DEF RemoveFirst, RemoveAt
    <2>5. k \in 1 .. Len(q) /\ q[k] = e /\ Len(q) \in Nat
      BY <2>2
    <2> HIDE DEF k
    <2> DEFINE r == RemoveFirst(q, e)
    <2>6. /\ r \in Seq(S) /\ Len(r) = Len(q) - 1
          /\ \A i \in 1 .. Len(q) : i < k => r[i] = q[i]
          /\ \A i \in 1 .. Len(q) : i > k => r[i - 1] = q[i]
      <3> DEFINE A == SubSeq(q, 1, k - 1)
                 B == SubSeq(q, k + 1, Len(q))
      <3>1. A \in Seq(S) /\ Len(A) = k - 1 /\ \A i \in 1 .. (k - 1) : A[i] = q[i]
        BY <2>5
      <3>2. B \in Seq(S) /\ Len(B) = Len(q) - k /\ \A i \in 1 .. (Len(q) - k) : B[i] = q[k + i]
        BY <2>5
      <3>3. r = A \o B
        BY <2>4
      <3> HIDE DEF A, B, r
      <3>4. /\ A \o B \in Seq(S) /\ Len(A \o B) = Len(A) + Len(B)
            /\ \A i \in 1 .. (Len(A) + Len(B)) : (A \o B)[i] = IF i <= Len(A) THEN A[i] ELSE B[i - Len(A)]
        BY ONLY <3>1, <3>2, ConcatProperties
      <3>5. r \in Seq(S) /\ Len(r) = Len(q) - 1
        BY ONLY <2>5, <3>1, <3>2, <3>3, <3>4
      <3>6. ASSUME NEW i \in 1 .. Len(q), i < k PROVE r[i] = q[i]
        BY ONLY <2>5, <3>1, <3>2, <3>3, <3>4, <3>6
      <3>7. ASSUME NEW i \in 1 .. Len(q), i > k PROVE r[i - 1] = q[i]
        <4>1. i - 1 \in 1 .. (Len(A) + Len(B)) /\ ~(i - 1 <= Len(A)) /\ (i - 1) - Len(A) = i - k
              /\ i - k \in 1 .. (Len(q) - k) /\ k + (i - k) = i
          BY ONLY <2>5, <3>1, <3>2, <3>7
        <4> QED
          BY ONLY <3>2, <3>3, <3>4, <4>1
      <3> QED
        BY <3>5, <3>6, <3>7
    <2> HIDE DEF r
    <2>7. DOMAIN q = 1 .. Len(q) /\ DOMAIN r = 1 .. Len(r)
      BY <2>6
    <2>8. ASSUME NEW i \in 1 .. Len(q), q[i] # e PROVE q[i] \in Range(r)
      <3>1. CASE i < k
        <4>1. i \in 1 .. Len(r)
          BY <2>5, <2>6, <3>1
        <4> QED
          BY <2>6, <2>7, <3>1, <4>1 DEF Range
      <3>2. CASE i > k
        <4>1. i - 1 \in 1 .. Len(r)
          BY <2>5, <2>6, <3>2
        <4> QED
          BY <2>6, <2>7, <3>2, <4>1 DEF Range
      <3> QED
        BY <2>5, <2>8, <3>1, <3>2
    <2>9. \A x \in Range(q) : x # e => x \in Range(r)
      BY <2>7, <2>8 DEF Range
    <2> QED
      BY <2>5, <2>6, <2>9 DEF r
  <1> QED
    BY <1>1, <1>2

----------------------------------------------------------------------------
(* What each operation does to the fields of the sockets *)

\* Only the fields F of socket s change.
Only(s, F) ==
    /\ sock' \in [Ids -> Socks] /\ Keeps(sock, sock', Fields \ F)
    /\ \A x \in Ids \ {s} : sock'[x] = sock[x]

LEMMA CreateEffect ==
    ASSUME Types, NEW p \in Pids, Create(p)
    PROVE  /\ last' \in Ids /\ sock' \in [Ids -> Socks] /\ \A x \in Ids \ {last'} : sock'[x] = sock[x]
           /\ IsNew(sock'[last'], "created")
           /\ sock'[last'].peer = None /\ sock'[last'].host = "none" /\ sock'[last'].given
  <1> DEFINE r == [Created(p, "created") EXCEPT !.given = TRUE]
  <1>1. last' = last + 1 /\ last + 1 <= MaxId /\ last \in Nat /\ MaxId \in Nat
        /\ sock' = [sock EXCEPT ![last'] = r] /\ sock \in [Ids -> Socks]
    BY SocketAssumption, Known DEF Create, HasRoom, Types, SockTypes
  <1>2. IsNew(r, "created") /\ r.peer = None /\ r.host = "none" /\ r.given
    <2>1. "created" \in States /\ 1 \in Ids /\ None \in Addrs \cup {None}
      BY <1>1 DEF States, Ids
    <2>2. IsNew(r, "created")
      BY <2>1, NewSocks
    <2>3. r.peer = None /\ r.host = "none" /\ r.given
      BY DEF Created, NoSock
    <2> QED
      BY <2>2, <2>3
  <1> HIDE DEF r
  <1>3. last' \in Ids
    BY <1>1 DEF Ids
  <1> QED
    BY <1>1, <1>2, <1>3 DEF IsNew

LEMMA SocketpairFailsEffect ==
    ASSUME Types, NEW p \in Pids, SocketpairFails(p)
    PROVE  /\ last' \in Ids /\ sock' \in [Ids -> Socks] /\ \A x \in Ids \ {last'} : sock'[x] = sock[x]
           /\ IsNew(sock'[last'], "created") /\ sock'[last'].peer = None /\ sock'[last'].host = "none"
  <1> DEFINE r == Created(p, "created")
  <1>1. last' = last + 1 /\ last + 1 <= MaxId /\ last \in Nat /\ MaxId \in Nat
        /\ sock' = [sock EXCEPT ![last'] = r] /\ sock \in [Ids -> Socks]
    BY SocketAssumption, Known DEF SocketpairFails, HasRoom, Types, SockTypes
  <1>2. IsNew(r, "created") /\ r.peer = None /\ r.host = "none"
    <2>1. NoSock \in Socks /\ "created" \in States
      BY EmptySeq DEF NoSock, Socks, States
    <2>2. r \in Socks
      BY <2>1, RecordSets DEF Created
    <2>3. /\ r.state = "created" /\ r.backlog = <<>> /\ r.limit = 0 /\ r.readers = <<>>
          /\ r.acceptors = <<>> /\ r.buf = 0 /\ r.peerWriteClosed = FALSE /\ r.peer = None /\ r.host = "none"
      BY DEF Created, NoSock
    <2> QED
      BY <2>2, <2>3 DEF IsNew
  <1> HIDE DEF r
  <1>3. last' \in Ids
    BY <1>1 DEF Ids
  <1> QED
    BY <1>1, <1>2, <1>3 DEF IsNew

LEMMA SocketpairEffect ==
    ASSUME Types, NEW p \in Pids, Socketpair(p), NEW a, NEW b, a = last + 1, b = last + 2
    PROVE  /\ a \in Ids /\ b \in Ids /\ a # b /\ last' = b
           /\ sock' \in [Ids -> Socks] /\ \A x \in Ids \ {a, b} : sock'[x] = sock[x]
           /\ IsNew(sock'[a], "connected") /\ IsNew(sock'[b], "connected")
           /\ sock'[a].peer = b /\ sock'[a].host = "none" /\ sock'[a].given
           /\ sock'[b].peer = a /\ sock'[b].host = "none" /\ sock'[b].given
  <1> DEFINE r == [Created(p, "connected") EXCEPT !.peer = b, !.given = TRUE]
             q == [Created(p, "connected") EXCEPT !.peer = a, !.given = TRUE]
  <1>1. last + 2 <= MaxId /\ last \in Nat /\ MaxId \in Nat
        /\ sock' = [sock EXCEPT ![a] = r, ![b] = q] /\ sock \in [Ids -> Socks] /\ last' = b
    BY SocketAssumption, Known DEF Socketpair, HasRoom, Types, SockTypes
  <1>2. a \in Ids /\ b \in Ids /\ a # b
    BY <1>1 DEF Ids
  <1>3. /\ IsNew(r, "connected") /\ r.peer = b /\ r.host = "none" /\ r.given
        /\ IsNew(q, "connected") /\ q.peer = a /\ q.host = "none" /\ q.given
    <2>1. "connected" \in States /\ None \in Addrs \cup {None}
      BY DEF States
    <2>2. IsNew(r, "connected") /\ IsNew(q, "connected")
      BY <1>2, <2>1, NewSocks
    <2>3. r.peer = b /\ r.host = "none" /\ r.given /\ q.peer = a /\ q.host = "none" /\ q.given
      BY DEF Created, NoSock
    <2> QED
      BY <2>2, <2>3
  <1> HIDE DEF r, q
  <1> QED
    BY <1>1, <1>2, <1>3 DEF IsNew

LEMMA RegisterEffect ==
    ASSUME Types, NEW s \in Ids, NEW a \in Addrs, NEW e \in BOOLEAN, Register(s, a, e)
    PROVE  Only(s, {"local", "state", "ephemeral"}) /\ sock'[s].state = "bound" /\ sock'[s].local = a
  <1> DEFINE A == [sock EXCEPT ![s].local = a]
             B == [A EXCEPT ![s].state = "bound"]
             C == [B EXCEPT ![s].ephemeral = e]
  <1>1. sock' = C /\ sock \in [Ids -> Socks] /\ "bound" \in States
    BY DEF Register, Types, SockTypes, States
  <1>2. Put(sock, A, s, "local", a)
    BY <1>1, Puts
  <1> HIDE DEF A
  <1>3. Put(A, B, s, "state", "bound")
    BY <1>1, <1>2, PutType, Puts
  <1> HIDE DEF B
  <1>4. Put(B, C, s, "ephemeral", e)
    BY <1>3, PutType, Puts
  <1>5. \A x \in Ids \ {s} : sock'[x] = sock[x]
    BY <1>1 DEF A, B
  <1> HIDE DEF C
  <1> QED
    BY <1>1, <1>2, <1>3, <1>4, <1>5 DEF Only, Put, Keeps, Fields

LEMMA ListenEffect ==
    ASSUME Types, NEW s \in Ids
    PROVE  /\ Listen(s) => Only(s, {"state", "limit"}) /\ sock'[s].state = "listening"
                           /\ sock'[s].limit = BacklogSize
           /\ \A c \in Callers : ListenHost(c, s) => Only(s, {"limit"}) /\ sock'[s].limit = BacklogSize
  <1>0. sock \in [Ids -> Socks] /\ "listening" \in States /\ BacklogSize \in Nat
    BY SocketAssumption DEF Types, SockTypes, States
  <1>1. ASSUME Listen(s) PROVE Only(s, {"state", "limit"}) /\ sock'[s].state = "listening"
                               /\ sock'[s].limit = BacklogSize
    <2> DEFINE A == [sock EXCEPT ![s].state = "listening"]
               B == [A EXCEPT ![s].limit = BacklogSize]
    <2>1. sock' = B
      BY <1>1 DEF Listen
    <2>2. Put(sock, A, s, "state", "listening")
      BY <1>0, Puts
    <2> HIDE DEF A
    <2>3. Put(A, B, s, "limit", BacklogSize)
      BY <1>0, <2>2, PutType, Puts
    <2>4. \A x \in Ids \ {s} : sock'[x] = sock[x]
      BY <1>0, <2>1 DEF A
    <2> HIDE DEF B
    <2> QED
      BY <2>1, <2>2, <2>3, <2>4 DEF Only, Put, Keeps, Fields
  <1>2. ASSUME NEW c \in Callers, ListenHost(c, s)
        PROVE  Only(s, {"limit"}) /\ sock'[s].limit = BacklogSize
    <2>1. sock' = [sock EXCEPT ![s].limit = BacklogSize]
      BY <1>2 DEF ListenHost
    <2>2. Put(sock, sock', s, "limit", BacklogSize)
      BY <1>0, <2>1, Puts
    <2>3. \A x \in Ids \ {s} : sock'[x] = sock[x]
      BY <1>0, <2>1
    <2> QED
      BY <2>2, <2>3 DEF Only, Put, Keeps, Fields
  <1> QED
    BY <1>1, <1>2

LEMMA ListenResumeEffect ==
    ASSUME Types, NEW c \in Callers, NEW port \in Ports, ListenResume(c, port), NEW s, s = call[c].sock
    PROVE  /\ s \in 1 .. last /\ s \in Ids /\ call[c].op = "listen"
           /\ Only(s, {"state", "local", "host"}) /\ sock'[s].state = "listening" /\ sock'[s].host = "listener"
           /\ stale' = stale
           /\ \/ /\ sock'[s].local = sock[s].local /\ listeners' = listeners
                 /\ displaced' = displaced \cup ({listeners[sock[s].local]} \ {None, s})
              \/ /\ sock[s].local \in Inet /\ sock'[s].local \in Inet
                 /\ listeners' = [listeners EXCEPT ![sock[s].local] = None, ![sock'[s].local] = s]
                 /\ displaced' = displaced \cup ({listeners[sock[s].local], listeners[sock'[s].local]} \ {None, s})
  <1> DEFINE old == sock[s].local
             move == sock[s].ephemeral /\ InetAddr(old)
             new == IF move THEN [old EXCEPT !.port = port] ELSE old
             A == [sock EXCEPT ![s].state = "listening"]
             B == [A EXCEPT ![s].local = new]
             C == [B EXCEPT ![s].host = "listener"]
  <1>1. call[c].op = "listen" /\ sock' = C /\ stale' = stale
    <2>1. sock' = [sock EXCEPT ![s].state = "listening", ![s].local = new, ![s].host = "listener"]
      BY DEF ListenResume
    <2>2. sock' = C
      BY ONLY <2>1
    <2> QED
      BY <2>2 DEF ListenResume
  <1>a. ASSUME move
        PROVE  /\ listeners' = [listeners EXCEPT ![old] = None, ![new] = s]
               /\ displaced' = displaced \cup ({listeners[old], listeners[new]} \ {None, s})
    BY <1>a DEF ListenResume
  <1>b. ASSUME ~move
        PROVE  /\ listeners' = listeners /\ new = old
               /\ displaced' = displaced \cup ({listeners[old]} \ {None, s})
    <2>1. new = old
      BY <1>b
    <2>2. listeners' = listeners
      BY <1>b DEF ListenResume
    <2>3. displaced' = displaced \cup ({listeners[old], listeners[new]} \ {None, s})
      BY DEF ListenResume
    <2> QED
      BY <2>1, <2>2, <2>3
  <1>2. s \in 1 .. last /\ s \in Ids
    BY <1>1, Known DEF Types, CallTypes
  <1>3. sock \in [Ids -> Socks] /\ sock[s] \in Socks /\ "listening" \in States
    BY <1>2 DEF Types, SockTypes, States
  <1>4. old \in Addrs \cup {None}
    BY <1>3 DEF Socks
  <1>5. (move => old \in Inet /\ new \in Inet) /\ new \in Addrs \cup {None} /\ (~move => new = old)
    <2>1. ASSUME move PROVE old \in Inet /\ [old EXCEPT !.port = port] \in Inet
      BY <2>1 DEF InetAddr, Inet
    <2> QED
      BY <1>4, <2>1 DEF Addrs
  <1> HIDE DEF new, move
  <1>6. Put(sock, A, s, "state", "listening")
    BY <1>2, <1>3, Puts
  <1> HIDE DEF A
  <1>7. Put(A, B, s, "local", new)
    BY <1>2, <1>5, <1>6, PutType, Puts
  <1> HIDE DEF B
  <1>8. Put(B, C, s, "host", "listener")
    BY <1>2, <1>7, PutType, Puts
  <1>9. \A x \in Ids \ {s} : sock'[x] = sock[x]
    BY <1>1, <1>2, <1>3 DEF A, B
  <1> HIDE DEF C
  <1>10. Only(s, {"state", "local", "host"}) /\ sock'[s].state = "listening" /\ sock'[s].host = "listener"
         /\ sock'[s].local = new
    BY <1>1, <1>2, <1>6, <1>7, <1>8, <1>9 DEF Only, Put, Keeps, Fields
  <1>11. CASE move
    BY <1>1, <1>a, <1>2, <1>5, <1>10, <1>11
  <1>12. CASE ~move
    BY <1>1, <1>b, <1>2, <1>10, <1>12
  <1> QED
    BY <1>11, <1>12

\* One field of one socket.
LEMMA OnlyPut ==
    ASSUME NEW s \in Ids, NEW f \in Fields, NEW v, Put(sock, sock', s, f, v),
           \A x \in Ids \ {s} : sock'[x] = sock[x]
    PROVE  Only(s, {f}) /\ sock'[s][f] = v
  BY DEF Only, Put, Keeps

LEMMA TakeOrWaitEffect ==
    ASSUME Types, NEW c \in Callers, NEW s \in Ids, NEW queue \in Seq(Callers), TakeOrWait(c, s, queue)
    PROVE  \/ /\ sock[s].backlog # <<>> /\ Head(sock[s].backlog) \in Ids
              /\ sock' \in [Ids -> Socks] /\ Keeps(sock, sock', Fields \ {"backlog", "acceptors", "given"})
              /\ \A x \in Ids : /\ x # s => sock'[x].backlog = sock[x].backlog
                                /\ x # s => sock'[x].acceptors = sock[x].acceptors
                                /\ x # Head(sock[s].backlog) => sock'[x].given = sock[x].given
              /\ sock'[s].backlog = Tail(sock[s].backlog) /\ sock'[s].acceptors = queue
              /\ sock'[Head(sock[s].backlog)].given = TRUE
              /\ call' = [call EXCEPT ![c] = Idle] /\ crowded' = crowded
           \/ /\ sock[s].backlog = <<>> /\ Only(s, {"acceptors"}) /\ sock'[s].acceptors = Append(queue, c)
              /\ call' = [call EXCEPT ![c] = Suspend("accept", s, None)] /\ Crowd(s, queue)
  <1>0. sock \in [Ids -> Socks] /\ sock[s] \in Socks
    BY DEF Types, SockTypes
  <1>1. CASE sock[s].backlog # <<>>
    <2> DEFINE conn == Head(sock[s].backlog)
               A == [sock EXCEPT ![s].backlog = Tail(@)]
               B == [A EXCEPT ![s].acceptors = queue]
               C == [B EXCEPT ![conn].given = TRUE]
    <2>1. conn \in Ids /\ Tail(sock[s].backlog) \in Seq(Ids)
      <3>1. sock[s].backlog \in Seq(Ids)
        BY <1>0 DEF Socks
      <3> QED
        BY ONLY <1>1, <3>1
    <2>2. sock' = C /\ call' = [call EXCEPT ![c] = Idle] /\ crowded' = crowded
      BY <1>1 DEF TakeOrWait
    <2>3. Put(sock, A, s, "backlog", Tail(sock[s].backlog))
      BY <1>0, <2>1, Puts
    <2> HIDE DEF A, conn
    <2>4. Put(A, B, s, "acceptors", queue)
      BY <2>3, PutType, Puts
    <2> HIDE DEF B
    <2>5. Put(B, C, conn, "given", TRUE)
      BY <2>1, <2>4, PutType, Puts
    <2> HIDE DEF C
    <2>6. /\ sock' \in [Ids -> Socks] /\ Keeps(sock, sock', Fields \ {"backlog", "acceptors", "given"})
          /\ sock'[s].backlog = Tail(sock[s].backlog) /\ sock'[s].acceptors = queue
          /\ sock'[conn].given = TRUE
          /\ \A x \in Ids : /\ x # s => sock'[x].backlog = sock[x].backlog
                            /\ x # s => sock'[x].acceptors = sock[x].acceptors
                            /\ x # conn => sock'[x].given = sock[x].given
      <3>1. /\ B \in [Ids -> Socks] /\ Keeps(sock, B, Fields \ {"backlog", "acceptors"})
            /\ B[s].backlog = Tail(sock[s].backlog) /\ B[s].acceptors = queue
            /\ \A x \in Ids : x # s => B[x].backlog = sock[x].backlog /\ B[x].acceptors = sock[x].acceptors
        BY ONLY <2>3, <2>4, s \in Ids DEF Put, Keeps, Fields
      <3>2. sock' \in [Ids -> Socks] /\ Keeps(B, sock', Fields \ {"given"})
        BY ONLY <2>2, <2>5 DEF Put
      <3>3. sock'[conn].given = TRUE /\ \A x \in Ids : x # conn => sock'[x].given = B[x].given
        BY ONLY <2>1, <2>2, <2>5 DEF Put
      <3>4. Keeps(sock, sock', Fields \ {"backlog", "acceptors", "given"})
        BY ONLY <3>1, <3>2 DEF Keeps
      <3>5. \A x \in Ids : /\ sock'[x].backlog = B[x].backlog /\ sock'[x].acceptors = B[x].acceptors
                           /\ B[x].given = sock[x].given
        BY ONLY <3>1, <3>2 DEF Keeps, Fields
      <3> QED
        BY ONLY <3>1, <3>2, <3>3, <3>4, <3>5, s \in Ids
    <2> QED
      BY <1>1, <2>1, <2>2, <2>6 DEF conn
  <1>2. CASE sock[s].backlog = <<>>
    <2>1. /\ sock' = [sock EXCEPT ![s].acceptors = Append(queue, c)]
          /\ call' = [call EXCEPT ![c] = Suspend("accept", s, None)] /\ Crowd(s, queue)
      BY <1>2 DEF TakeOrWait
    <2>2. Append(queue, c) \in Seq(Callers)
      OBVIOUS
    <2>3. Put(sock, sock', s, "acceptors", Append(queue, c))
      BY <1>0, <2>1, <2>2, Puts
    <2>4. \A x \in Ids \ {s} : sock'[x] = sock[x]
      BY <1>0, <2>1
    <2>5. "acceptors" \in Fields
      BY DEF Fields
    <2>6. Only(s, {"acceptors"}) /\ sock'[s].acceptors = Append(queue, c)
      BY <2>3, <2>4, <2>5, OnlyPut
    <2> QED
      BY <1>2, <2>1, <2>6
  <1> QED
    BY <1>1, <1>2

LEMMA QueueEffect ==
    ASSUME Types, NEW s \in Ids, NEW queue \in Seq(Callers)
    PROVE  /\ sock' = [sock EXCEPT ![s].acceptors = queue] => Only(s, {"acceptors"}) /\ sock'[s].acceptors = queue
           /\ sock' = [sock EXCEPT ![s].readers = queue] => Only(s, {"readers"}) /\ sock'[s].readers = queue
  <1>0. sock \in [Ids -> Socks] /\ "acceptors" \in Fields /\ "readers" \in Fields
    BY DEF Types, SockTypes, Fields
  <1>1. ASSUME sock' = [sock EXCEPT ![s].acceptors = queue]
        PROVE  Only(s, {"acceptors"}) /\ sock'[s].acceptors = queue
    <2>1. Put(sock, sock', s, "acceptors", queue)
      BY <1>0, <1>1, Puts
    <2>2. \A x \in Ids \ {s} : sock'[x] = sock[x]
      BY <1>0, <1>1
    <2> QED
      BY <1>0, <2>1, <2>2, OnlyPut
  <1>2. ASSUME sock' = [sock EXCEPT ![s].readers = queue]
        PROVE  Only(s, {"readers"}) /\ sock'[s].readers = queue
    <2>1. Put(sock, sock', s, "readers", queue)
      BY <1>0, <1>2, Puts
    <2>2. \A x \in Ids \ {s} : sock'[x] = sock[x]
      BY <1>0, <1>2
    <2> QED
      BY <1>0, <2>1, <2>2, OnlyPut
  <1> QED
    BY <1>1, <1>2

LEMMA ReadOrWaitEffect ==
    ASSUME Types, NEW c \in Callers, NEW s \in Ids, NEW queue \in Seq(Callers), NEW n \in Nat,
           ReadOrWait(c, s, queue, n)
    PROVE  /\ Only(s, {"buf", "readers"}) /\ (sock[s].buf = 0 => sock'[s].buf = 0)
           /\ \/ /\ sock'[s].readers = queue /\ call' = [call EXCEPT ![c] = Idle] /\ crowded' = crowded
              \/ /\ s \in live /\ sock[s].state \in {"connected", "write-closed"} /\ CanBlockForRecv(s)
                 /\ sock'[s].buf = sock[s].buf /\ sock'[s].readers = Append(queue, c)
                 /\ call' = [call EXCEPT ![c] = Suspend("recv", s, None)] /\ Crowd(s, queue)
  <1>0. sock \in [Ids -> Socks] /\ sock[s].buf \in Nat /\ {"buf", "readers"} \subseteq Fields
    BY DEF Types, SockTypes, Socks, Fields
  <1>1. ASSUME NEW v \in Nat, sock' = [sock EXCEPT ![s].buf = v, ![s].readers = queue]
        PROVE  Only(s, {"buf", "readers"}) /\ sock'[s].buf = v /\ sock'[s].readers = queue
    <2> DEFINE A == [sock EXCEPT ![s].buf = v]
    <2>1. Put(sock, A, s, "buf", v)
      BY <1>0, Puts
    <2>2. sock' = [A EXCEPT ![s].readers = queue]
      BY <1>1
    <2>3. \A x \in Ids \ {s} : sock'[x] = sock[x]
      BY <1>0, <2>2
    <2> HIDE DEF A
    <2>4. Put(A, sock', s, "readers", queue)
      BY <2>1, <2>2, PutType, Puts
    <2> QED
      BY <2>1, <2>3, <2>4 DEF Only, Put, Keeps, Fields
  <1>2. CASE /\ sock' = [sock EXCEPT ![s].buf = IF n >= @ THEN 0 ELSE @ - n, ![s].readers = queue]
             /\ call' = [call EXCEPT ![c] = Idle] /\ crowded' = crowded
    <2> DEFINE v == IF n >= sock[s].buf THEN 0 ELSE sock[s].buf - n
    <2>1. v \in Nat /\ (sock[s].buf = 0 => v = 0)
      BY <1>0
    <2>2. sock' = [sock EXCEPT ![s].buf = v, ![s].readers = queue]
      BY <1>2
    <2> HIDE DEF v
    <2> QED
      BY <1>1, <1>2, <2>1, <2>2
  <1>3. ASSUME NEW q \in Seq(Callers), sock' = [sock EXCEPT ![s].readers = q]
        PROVE  Only(s, {"buf", "readers"}) /\ sock'[s].buf = sock[s].buf /\ sock'[s].readers = q
    <2>1. Only(s, {"readers"}) /\ sock'[s].readers = q
      BY <1>3, QueueEffect
    <2> QED
      BY <2>1 DEF Only, Keeps, Fields
  <1>4. Append(queue, c) \in Seq(Callers)
    OBVIOUS
  <1> QED
    BY <1>2, <1>3, <1>4 DEF ReadOrWait

\* The backlog and the acceptors of l get new values.
Enqueued(S, T, l, v, w) ==
    /\ T \in [Ids -> Socks] /\ Keeps(S, T, Fields \ {"backlog", "acceptors"})
    /\ T[l].backlog = v /\ T[l].acceptors = w
    /\ \A x \in Ids : x # l => T[x] = S[x]

LEMMA QueuedEffect ==
    ASSUME NEW S \in [Ids -> Socks], NEW l \in Ids, NEW v \in Seq(Ids), NEW w \in Seq(Callers)
    PROVE  Enqueued(S, [S EXCEPT ![l].backlog = v, ![l].acceptors = w], l, v, w)
  <1> DEFINE T == [S EXCEPT ![l].backlog = v, ![l].acceptors = w]
             A == [S EXCEPT ![l].backlog = v]
             B == [A EXCEPT ![l].acceptors = w]
  <1>1. Put(S, A, l, "backlog", v)
    BY Puts
  <1>2. T = B
    OBVIOUS
  <1>3. \A x \in Ids : x # l => T[x] = S[x]
    BY <1>2
  <1> HIDE DEF A, T
  <1>4. Put(A, B, l, "acceptors", w)
    BY <1>1, PutType, Puts
  <1> HIDE DEF B
  <1>5. /\ T \in [Ids -> Socks] /\ Keeps(S, T, Fields \ {"backlog", "acceptors"})
        /\ T[l].backlog = v /\ T[l].acceptors = w
    BY ONLY <1>1, <1>2, <1>4, l \in Ids DEF Put, Keeps, Fields
  <1> QED
    BY <1>3, <1>5 DEF Enqueued, T

\* The client s is linked to n, a new socket in the backlog of l.
Linked(s, l, n) ==
    /\ n \in Ids /\ s \in Ids /\ l \in Ids /\ s # n /\ l # n /\ last' = n
    /\ sock' \in [Ids -> Socks] /\ IsNew(sock'[n], "connected")
    /\ sock'[n].peer = s /\ sock'[n].host = "none" /\ sock'[n].given = FALSE
    /\ \A x \in Ids \ {n} :
          /\ \A f \in Fields \ {"peer", "state", "backlog", "acceptors"} : sock'[x][f] = sock[x][f]
          /\ x # s => sock'[x].peer = sock[x].peer /\ sock'[x].state = sock[x].state
          /\ x # l => sock'[x].backlog = sock[x].backlog /\ sock'[x].acceptors = sock[x].acceptors
    /\ sock'[s].peer = n /\ sock'[s].state = "connected"
    /\ sock'[l].backlog = Append(sock[l].backlog, n) /\ sock'[l].acceptors = Rest(sock[l].acceptors)

LEMMA LinkEffect ==
    ASSUME Types, NEW s \in 1 .. last, NEW l \in 1 .. last, Link(s, l), NEW n, n = last + 1
    PROVE  Linked(s, l, n)
  <1> DEFINE r == [Created(sock[l].pid, "connected") EXCEPT !.local = sock[l].local, !.peer = s]
             A == [sock EXCEPT ![n] = r]
             B == [A EXCEPT ![s].peer = n]
             C == [B EXCEPT ![s].state = "connected"]
             v == Append(sock[l].backlog, n)
             w == Rest(sock[l].acceptors)
  <1>1. last + 1 <= MaxId /\ last \in Nat /\ MaxId \in Nat /\ last' = n
    BY SocketAssumption, Known DEF Link, HasRoom, Types
  <1>2. n \in Ids /\ s \in Ids /\ l \in Ids /\ s # n /\ l # n
    BY ONLY <1>1, n = last + 1, s \in 1 .. last, l \in 1 .. last DEF Ids
  <1>3. sock \in [Ids -> Socks] /\ sock[l].pid \in Pids \cup {None} /\ sock[l].local \in Addrs \cup {None}
        /\ "connected" \in States
    BY <1>2 DEF Types, SockTypes, Socks, States
  <1>4. sock' = [C EXCEPT ![l].backlog = v, ![l].acceptors = w]
    <2>1. sock' = [sock EXCEPT ![n] = r, ![s].peer = n, ![s].state = "connected",
                               ![l].backlog = v, ![l].acceptors = w]
      BY DEF Link
    <2> QED
      BY ONLY <2>1
  <1>5. IsNew(r, "connected")
    BY <1>2, <1>3, NewSocks
  <1>6. r.peer = s /\ r.host = "none" /\ r.given = FALSE
    BY DEF Created, NoSock
  <1>v. v \in Seq(Ids) /\ w \in Seq(Callers)
    <2>1. sock[l].backlog \in Seq(Ids) /\ sock[l].acceptors \in Seq(Callers)
      BY <1>2, <1>3 DEF Socks
    <2> QED
      BY <1>2, <2>1, WakeOne
  <1> HIDE DEF r, v, w
  <1>7. A \in [Ids -> Socks] /\ A[n] = r /\ \A x \in Ids \ {n} : A[x] = sock[x]
    BY <1>2, <1>3, <1>5 DEF IsNew
  <1> HIDE DEF A
  <1>8. Put(A, B, s, "peer", n) /\ \A x \in Ids \ {s} : B[x] = A[x]
    BY <1>2, <1>7, Puts
  <1> HIDE DEF B
  <1>9. Put(B, C, s, "state", "connected") /\ \A x \in Ids \ {s} : C[x] = B[x]
    <2>1. B \in [Ids -> Socks]
      BY <1>8, PutType
    <2> QED
      BY <1>2, <1>3, <2>1, Puts
  <1> HIDE DEF C
  <1>10. /\ sock' \in [Ids -> Socks] /\ Keeps(C, sock', Fields \ {"backlog", "acceptors"})
         /\ sock'[l].backlog = v /\ sock'[l].acceptors = w
         /\ \A x \in Ids : x # l => sock'[x] = C[x]
    <2>1. C \in [Ids -> Socks]
      BY <1>9, PutType
    <2>2. Enqueued(C, [C EXCEPT ![l].backlog = v, ![l].acceptors = w], l, v, w)
      BY <1>2, <1>v, <2>1, QueuedEffect
    <2> QED
      BY <1>4, <2>2 DEF Enqueued
  <1>11. sock'[n] = r
    BY <1>2, <1>7, <1>8, <1>9, <1>10
  <1>12. /\ \A x \in Ids : \A f \in Fields \ {"peer", "state"} : C[x][f] = A[x][f]
         /\ C[s].peer = n /\ C[s].state = "connected"
    BY ONLY <1>2, <1>8, <1>9 DEF Put, Keeps, Fields
  <1>14. sock'[s].peer = n /\ sock'[s].state = "connected"
    BY ONLY <1>2, <1>10, <1>12 DEF Keeps, Fields
  <1>15. ASSUME NEW x \in Ids \ {n}
         PROVE  /\ \A f \in Fields \ {"peer", "state", "backlog", "acceptors"} : sock'[x][f] = sock[x][f]
                /\ x # s => sock'[x].peer = sock[x].peer /\ sock'[x].state = sock[x].state
                /\ x # l => sock'[x].backlog = sock[x].backlog /\ sock'[x].acceptors = sock[x].acceptors
    <2>1. \A f \in Fields \ {"peer", "state", "backlog", "acceptors"} : sock'[x][f] = sock[x][f]
      BY ONLY <1>7, <1>10, <1>12, <1>15 DEF Keeps
    <2>2. x # s => sock'[x].peer = sock[x].peer /\ sock'[x].state = sock[x].state
      BY ONLY <1>7, <1>8, <1>9, <1>10, <1>15 DEF Keeps, Fields
    <2>3. x # l => sock'[x].backlog = sock[x].backlog /\ sock'[x].acceptors = sock[x].acceptors
      BY ONLY <1>7, <1>10, <1>12, <1>15 DEF Fields
    <2> QED
      BY <2>1, <2>2, <2>3
  <1> QED
    BY <1>1, <1>2, <1>5, <1>6, <1>10, <1>11, <1>14, <1>15 DEF v, w, Linked

\* The pump of s queues n, a new socket connected to the host.
Pumped(s, n) ==
    /\ n \in Ids /\ s \in 1 .. last /\ s # n /\ last' = n /\ pump[s] = "got"
    /\ sock' \in [Ids -> Socks] /\ IsNew(sock'[n], "connected")
    /\ sock'[n].peer = None /\ sock'[n].host = "socket" /\ sock'[n].given = FALSE
    /\ \A x \in Ids \ {n} :
          /\ \A f \in Fields \ {"backlog", "acceptors"} : sock'[x][f] = sock[x][f]
          /\ x # s => sock'[x].backlog = sock[x].backlog /\ sock'[x].acceptors = sock[x].acceptors
    /\ sock'[s].backlog = Append(sock[s].backlog, n) /\ sock'[s].acceptors = Rest(sock[s].acceptors)

LEMMA PumpAcceptsEffect ==
    ASSUME Types, NEW s \in Ids, PumpAccepts(s), NEW n, n = last + 1
    PROVE  Pumped(s, n)
  <1> DEFINE r == [Created(sock[s].pid, "connected") EXCEPT !.host = "socket", !.local = sock[s].local]
             A == [sock EXCEPT ![n] = r]
             v == Append(sock[s].backlog, n)
             w == Rest(sock[s].acceptors)
  <1>1. last + 1 <= MaxId /\ last \in Nat /\ MaxId \in Nat /\ last' = n /\ pump[s] = "got" /\ s \in 1 .. last
    BY SocketAssumption, Known DEF PumpAccepts, HasRoom, Types, OtherTypes
  <1>2. n \in Ids /\ s # n
    BY ONLY <1>1, n = last + 1 DEF Ids
  <1>3. sock \in [Ids -> Socks] /\ sock[s].pid \in Pids \cup {None} /\ sock[s].local \in Addrs \cup {None}
        /\ "connected" \in States
    BY DEF Types, SockTypes, Socks, States
  <1>4. sock' = [A EXCEPT ![s].backlog = v, ![s].acceptors = w]
    <2>1. sock' = [sock EXCEPT ![last'] = r, ![s].backlog = Append(@, last'), ![s].acceptors = Rest(@)]
      BY DEF PumpAccepts
    <2>2. sock' = [sock EXCEPT ![n] = r, ![s].backlog = v, ![s].acceptors = w]
      BY <1>1, <2>1
    <2> QED
      BY ONLY <2>2
  <1>5. IsNew(r, "connected")
    BY <1>2, <1>3, NewSocks
  <1>6. r.peer = None /\ r.host = "socket" /\ r.given = FALSE
    BY DEF Created, NoSock
  <1>v. v \in Seq(Ids) /\ w \in Seq(Callers)
    <2>1. sock[s].backlog \in Seq(Ids) /\ sock[s].acceptors \in Seq(Callers)
      BY <1>2, <1>3 DEF Socks
    <2> QED
      BY <1>2, <2>1, WakeOne
  <1> HIDE DEF r, v, w
  <1>7. A \in [Ids -> Socks] /\ A[n] = r /\ \A x \in Ids \ {n} : A[x] = sock[x]
    BY <1>2, <1>3, <1>5 DEF IsNew
  <1> HIDE DEF A
  <1>8. /\ sock' \in [Ids -> Socks] /\ Keeps(A, sock', Fields \ {"backlog", "acceptors"})
        /\ sock'[s].backlog = v /\ sock'[s].acceptors = w
        /\ \A x \in Ids : x # s => sock'[x] = A[x]
    <2>1. Enqueued(A, [A EXCEPT ![s].backlog = v, ![s].acceptors = w], s, v, w)
      BY <1>7, <1>v, QueuedEffect
    <2> QED
      BY <1>4, <2>1 DEF Enqueued
  <1>9. sock'[n] = r /\ A[s] = sock[s]
    BY <1>2, <1>7, <1>8
  <1>10. ASSUME NEW x \in Ids \ {n}
         PROVE  /\ \A f \in Fields \ {"backlog", "acceptors"} : sock'[x][f] = sock[x][f]
                /\ x # s => sock'[x].backlog = sock[x].backlog /\ sock'[x].acceptors = sock[x].acceptors
    BY ONLY <1>7, <1>8, <1>10 DEF Keeps
  <1> QED
    BY <1>1, <1>2, <1>5, <1>6, <1>8, <1>9, <1>10 DEF v, w, Pumped

\* connect through the host, data and the end of the stream, a write that failed.
LEMMA HostEffect ==
    ASSUME Types, NEW s \in Ids
    PROVE  /\ \A v \in States : sock' = [sock EXCEPT ![s].state = v] => Only(s, {"state"}) /\ sock'[s].state = v
           /\ sock' = [sock EXCEPT ![s].state = "connected", ![s].host = "socket"]
              => Only(s, {"state", "host"}) /\ sock'[s].state = "connected" /\ sock'[s].host = "socket"
           /\ sock' = [sock EXCEPT ![s].state = "closed", ![s].readers = <<>>]
              => Only(s, {"state", "readers"}) /\ sock'[s].state = "closed" /\ sock'[s].readers = <<>>
           /\ sock' = [sock EXCEPT ![s].peerWriteClosed = TRUE, ![s].readers = <<>>]
              => Only(s, {"peerWriteClosed", "readers"}) /\ sock'[s].readers = <<>>
           /\ \A n \in Nat : sock' = [sock EXCEPT ![s].buf = @ + n, ![s].readers = Rest(@)]
              => Only(s, {"buf", "readers"}) /\ sock'[s].buf = sock[s].buf + n
                 /\ sock'[s].readers = Rest(sock[s].readers)
  <1>0. /\ sock \in [Ids -> Socks] /\ {"state", "host", "readers", "peerWriteClosed", "buf"} \subseteq Fields
        /\ "connected" \in States /\ "closed" \in States /\ <<>> \in Seq(Callers)
        /\ sock[s].buf \in Nat /\ sock[s].readers \in Seq(Callers)
    BY EmptySeq DEF Types, SockTypes, Fields, States, Socks
  <1>1. ASSUME NEW v \in States, sock' = [sock EXCEPT ![s].state = v] PROVE Only(s, {"state"}) /\ sock'[s].state = v
    <2>1. Put(sock, sock', s, "state", v)
      BY <1>0, <1>1, Puts
    <2>2. \A x \in Ids \ {s} : sock'[x] = sock[x]
      BY <1>0, <1>1
    <2> QED
      BY <1>0, <2>1, <2>2, OnlyPut
  <1>2. ASSUME sock' = [sock EXCEPT ![s].state = "connected", ![s].host = "socket"]
        PROVE  Only(s, {"state", "host"}) /\ sock'[s].state = "connected" /\ sock'[s].host = "socket"
    <2> DEFINE A == [sock EXCEPT ![s].state = "connected"]
    <2>1. Put(sock, A, s, "state", "connected")
      BY <1>0, Puts
    <2>2. sock' = [A EXCEPT ![s].host = "socket"]
      BY <1>2
    <2>3. \A x \in Ids \ {s} : sock'[x] = sock[x]
      BY <1>0, <2>2
    <2> HIDE DEF A
    <2>4. Put(A, sock', s, "host", "socket")
      BY <2>1, <2>2, PutType, Puts
    <2> QED
      BY ONLY <2>1, <2>3, <2>4, s \in Ids DEF Only, Put, Keeps, Fields
  <1>3. ASSUME sock' = [sock EXCEPT ![s].state = "closed", ![s].readers = <<>>]
        PROVE  Only(s, {"state", "readers"}) /\ sock'[s].state = "closed" /\ sock'[s].readers = <<>>
    <2> DEFINE A == [sock EXCEPT ![s].state = "closed"]
    <2>1. Put(sock, A, s, "state", "closed")
      BY <1>0, Puts
    <2>2. sock' = [A EXCEPT ![s].readers = <<>>]
      BY <1>3
    <2>3. \A x \in Ids \ {s} : sock'[x] = sock[x]
      BY <1>0, <2>2
    <2> HIDE DEF A
    <2>4. Put(A, sock', s, "readers", <<>>)
      BY <1>0, <2>1, <2>2, PutType, Puts
    <2> QED
      BY ONLY <2>1, <2>3, <2>4, s \in Ids DEF Only, Put, Keeps, Fields
  <1>4. ASSUME sock' = [sock EXCEPT ![s].peerWriteClosed = TRUE, ![s].readers = <<>>]
        PROVE  Only(s, {"peerWriteClosed", "readers"}) /\ sock'[s].readers = <<>>
    <2> DEFINE A == [sock EXCEPT ![s].peerWriteClosed = TRUE]
    <2>1. Put(sock, A, s, "peerWriteClosed", TRUE)
      BY <1>0, Puts
    <2>2. sock' = [A EXCEPT ![s].readers = <<>>]
      BY <1>4
    <2>3. \A x \in Ids \ {s} : sock'[x] = sock[x]
      BY <1>0, <2>2
    <2> HIDE DEF A
    <2>4. Put(A, sock', s, "readers", <<>>)
      BY <1>0, <2>1, <2>2, PutType, Puts
    <2> QED
      BY ONLY <2>1, <2>3, <2>4, s \in Ids DEF Only, Put, Keeps, Fields
  <1>5. ASSUME NEW n \in Nat, sock' = [sock EXCEPT ![s].buf = @ + n, ![s].readers = Rest(@)]
        PROVE  Only(s, {"buf", "readers"}) /\ sock'[s].buf = sock[s].buf + n
               /\ sock'[s].readers = Rest(sock[s].readers)
    <2> DEFINE v == sock[s].buf + n
               w == Rest(sock[s].readers)
               A == [sock EXCEPT ![s].buf = v]
    <2>0. v \in Nat /\ w \in Seq(Callers)
      BY <1>0, WakeOne
    <2>2. sock' = [A EXCEPT ![s].readers = w]
      BY <1>5
    <2> HIDE DEF v, w
    <2>1. Put(sock, A, s, "buf", v)
      BY <1>0, <2>0, Puts
    <2>3. \A x \in Ids \ {s} : sock'[x] = sock[x]
      BY <1>0, <2>2
    <2> HIDE DEF A
    <2>4. Put(A, sock', s, "readers", w)
      BY <2>0, <2>1, <2>2, PutType, Puts
    <2> QED
      BY ONLY <2>1, <2>3, <2>4, s \in Ids DEF Only, Put, Keeps, Fields, v, w
  <1> QED
    BY <1>1, <1>2, <1>3, <1>4, <1>5

LEMMA ShutdownEffect ==
    ASSUME Types, NEW s \in live, NEW how \in {"read", "write", "both"}, Shutdown(s, how)
    PROVE  /\ sock' \in [Ids -> Socks]
           /\ Keeps(sock, sock', Fields \ {"state", "buf", "readers", "peerWriteClosed"})
           /\ sock[s].state \in {"connected", "write-closed", "read-closed"}
           /\ sock'[s].state \in {"read-closed", "write-closed", "closed"}
           /\ how # "write" => sock'[s].readers = <<>> /\ sock'[s].state # "write-closed"
           /\ how = "write" => sock'[s].readers = sock[s].readers /\ sock'[s].buf = sock[s].buf
                               /\ sock'[s].state \in {"write-closed", "closed"}
                               /\ (sock[s].state # "read-closed" => sock'[s].state = "write-closed")
           /\ \A x \in Ids \ {s} :
                 /\ sock'[x].state = sock[x].state /\ sock'[x].buf = sock[x].buf
                 /\ \/ sock'[x].readers = sock[x].readers /\ sock'[x].peerWriteClosed = sock[x].peerWriteClosed
                    \/ sock'[x].readers = <<>> /\ x \in live /\ x = sock[s].peer /\ how # "read"
           /\ sock'[s].peerWriteClosed = sock[s].peerWriteClosed
  <1> DEFINE p == sock[s].peer
             toPeer == how # "read" /\ p \in live
             t == ShutState(sock[s].state, how)
             b == IF how = "write" THEN sock[s].buf ELSE 0
             q == IF how = "write" THEN sock[s].readers ELSE <<>>
             R(x) == IF x = s THEN [sock[s] EXCEPT !.state = t, !.buf = b, !.readers = q]
                     ELSE IF x = p /\ toPeer
                          THEN [sock[x] EXCEPT !.peerWriteClosed = TRUE, !.readers = <<>>]
                          ELSE sock[x]
  <1>1. /\ sock \in [Ids -> Socks] /\ s \in Ids /\ sock[s].buf \in Nat /\ sock[s].readers \in Seq(Callers)
        /\ <<>> \in Seq(Callers) /\ sock[s].state \in {"connected", "write-closed", "read-closed"}
    BY Known, EmptySeq DEF Types, SockTypes, Socks, Shutdown
  <1>2. sock' = [x \in Ids |-> R(x)]
    BY DEF Shutdown
  <1>3. /\ t \in {"read-closed", "write-closed", "closed"} /\ t \in States /\ b \in Nat /\ q \in Seq(Callers)
        /\ how # "write" => q = <<>> /\ t # "write-closed"
        /\ how = "write" => q = sock[s].readers /\ b = sock[s].buf /\ t \in {"write-closed", "closed"}
                            /\ (sock[s].state # "read-closed" => t = "write-closed")
    BY <1>1 DEF ShutState, States
  <1> HIDE DEF t, b, q
  <1>4. sock'[s] = [sock[s] EXCEPT !.state = t, !.buf = b, !.readers = q]
    BY <1>1, <1>2
  <1>5. ASSUME NEW x \in Ids, x # s, x = p /\ toPeer
        PROVE  sock'[x] = [sock[x] EXCEPT !.peerWriteClosed = TRUE, !.readers = <<>>]
    BY <1>2, <1>5
  <1>6. ASSUME NEW x \in Ids, x # s, ~(x = p /\ toPeer) PROVE sock'[x] = sock[x]
    BY <1>2, <1>6
  <1>7. \A r \in Socks : /\ [r EXCEPT !.peerWriteClosed = TRUE, !.readers = <<>>] \in Socks
                         /\ [r EXCEPT !.state = t, !.buf = b, !.readers = q] \in Socks
    BY <1>1, <1>3 DEF Socks
  <1>8. ASSUME NEW x \in Ids PROVE sock'[x] \in Socks
    <2>1. sock[x] \in Socks
      BY <1>1
    <2>2. CASE x = s
      BY <1>4, <1>7, <2>1, <2>2
    <2>3. CASE x # s /\ x = p /\ toPeer
      BY <1>5, <1>7, <2>1, <2>3
    <2>4. CASE x # s /\ ~(x = p /\ toPeer)
      BY <1>6, <2>1, <2>4
    <2> QED
      BY <2>2, <2>3, <2>4
  <1>9. sock' \in [Ids -> Socks]
    BY <1>2, <1>8
  <1>10. sock[s] \in Socks /\ \A f \in Fields \ {"state", "buf", "readers"} : sock'[s][f] = sock[s][f]
    BY <1>1, <1>4 DEF Socks, Fields
  <1>11. sock'[s].state = t /\ sock'[s].buf = b /\ sock'[s].readers = q
    BY <1>1, <1>4 DEF Socks
  <1>12. ASSUME NEW x \in Ids, x # s
         PROVE  /\ \A f \in Fields \ {"readers", "peerWriteClosed"} : sock'[x][f] = sock[x][f]
                /\ \/ sock'[x].readers = sock[x].readers /\ sock'[x].peerWriteClosed = sock[x].peerWriteClosed
                   \/ sock'[x].readers = <<>> /\ x \in live /\ x = sock[s].peer /\ how # "read"
    <2>1. CASE x = p /\ toPeer
      <3>1. sock[x] \in Socks
        BY <1>1
      <3>2. \A f \in Fields \ {"readers", "peerWriteClosed"} : sock'[x][f] = sock[x][f]
        BY <1>5, <1>12, <2>1, <3>1 DEF Socks, Fields
      <3>3. sock'[x].readers = <<>>
        BY <1>5, <1>12, <2>1, <3>1 DEF Socks
      <3> QED
        BY <2>1, <3>2, <3>3
    <2> QED
      BY <1>6, <1>12, <2>1
  <1>13. \A x \in Ids : \A f \in Fields \ {"state", "buf", "readers", "peerWriteClosed"} : sock'[x][f] = sock[x][f]
    BY <1>10, <1>12
  <1>14. \A x \in Ids \ {s} :
                 /\ sock'[x].state = sock[x].state /\ sock'[x].buf = sock[x].buf
                 /\ \/ sock'[x].readers = sock[x].readers /\ sock'[x].peerWriteClosed = sock[x].peerWriteClosed
                    \/ sock'[x].readers = <<>> /\ x \in live /\ x = sock[s].peer /\ how # "read"
    BY <1>12 DEF Fields
  <1>15. sock'[s].peerWriteClosed = sock[s].peerWriteClosed
    BY <1>10 DEF Fields
  <1> QED
    BY <1>1, <1>3, <1>9, <1>11, <1>13, <1>14, <1>15 DEF Keeps

LEMMA DestroyEffect ==
    ASSUME Types, NEW closing \in SUBSET live, Destroy(closing), NEW D, D = Doomed(closing)
    PROVE  /\ sock' \in [Ids -> Socks] /\ closing \subseteq D /\ D \subseteq live
           /\ \A x \in D : /\ sock'[x].state = "closed" /\ sock'[x].backlog = <<>> /\ sock'[x].readers = <<>>
                           /\ sock'[x].acceptors = <<>> /\ sock'[x].limit = sock[x].limit
           /\ \A x \in Ids \ D :
                 /\ \A f \in Fields \ {"peer", "readers"} : sock'[x][f] = sock[x][f]
                 /\ x \in Unlinked(D) => sock'[x].peer = None /\ sock'[x].readers = <<>>
                 /\ x \notin Unlinked(D) => sock'[x] = sock[x]
  <1> DEFINE gone(x) == [NoSock EXCEPT !.state = "closed", !.pid = sock[x].pid, !.local = sock[x].local,
                                       !.ephemeral = sock[x].ephemeral, !.limit = sock[x].limit]
             cut(x) == [sock[x] EXCEPT !.peer = None, !.readers = <<>>]
  <1>1. sock \in [Ids -> Socks] /\ live \subseteq Ids /\ <<>> \in Seq(Callers) /\ <<>> \in Seq(Ids)
    BY Known, EmptySeq DEF Types, SockTypes
  <1>2. closing \subseteq D /\ D \subseteq live
    <2>1. closing \subseteq Doomed(closing) /\ Doomed(closing) \subseteq closing \cup live
      BY DEF Doomed
    <2> QED
      BY <2>1
  <1>3. sock' = [x \in Ids |-> IF x \in D THEN gone(x) ELSE IF x \in Unlinked(D) THEN cut(x) ELSE sock[x]]
    BY DEF Destroy
  <1>4. ASSUME NEW x \in Ids
        PROVE  /\ gone(x) \in Socks /\ gone(x).state = "closed" /\ gone(x).backlog = <<>>
               /\ gone(x).readers = <<>> /\ gone(x).acceptors = <<>> /\ gone(x).limit = sock[x].limit
    <2>1. gone(x) \in Socks
      BY <1>1, EmptySeq DEF NoSock, Socks, States
    <2>2. /\ gone(x).state = "closed" /\ gone(x).backlog = <<>>
          /\ gone(x).readers = <<>> /\ gone(x).acceptors = <<>> /\ gone(x).limit = sock[x].limit
      BY DEF NoSock
    <2> QED
      BY <2>1, <2>2
  <1>5. ASSUME NEW x \in Ids
        PROVE  /\ cut(x) \in Socks /\ cut(x).peer = None /\ cut(x).readers = <<>>
               /\ \A f \in Fields \ {"peer", "readers"} : cut(x)[f] = sock[x][f]
    <2>0. sock[x] \in Socks
      BY <1>1
    <2>1. cut(x) \in Socks /\ cut(x).peer = None /\ cut(x).readers = <<>>
      BY <1>1, <2>0 DEF Socks
    <2>2. \A f \in Fields \ {"peer", "readers"} : cut(x)[f] = sock[x][f]
      BY <2>0 DEF Socks, Fields
    <2> QED
      BY <2>1, <2>2
  <1> HIDE DEF gone, cut
  <1>6. \A x \in D : sock'[x] = gone(x)
    BY <1>1, <1>2, <1>3
  <1>7. \A x \in Ids \ D : IF x \in Unlinked(D) THEN sock'[x] = cut(x) ELSE sock'[x] = sock[x]
    BY <1>3
  <1>8. sock' \in [Ids -> Socks]
    <2>1. \A x \in Ids : sock'[x] \in Socks
      BY <1>1, <1>4, <1>5, <1>6, <1>7
    <2> QED
      BY <1>3, <2>1
  <1>9. ASSUME NEW x \in Ids \ D
        PROVE  /\ \A f \in Fields \ {"peer", "readers"} : sock'[x][f] = sock[x][f]
               /\ x \in Unlinked(D) => sock'[x].peer = None /\ sock'[x].readers = <<>>
               /\ x \notin Unlinked(D) => sock'[x] = sock[x]
    <2>1. CASE x \in Unlinked(D)
      BY <1>5, <1>7, <2>1
    <2>2. CASE x \notin Unlinked(D)
      BY <1>7, <2>2
    <2> QED
      BY <2>1, <2>2
  <1> QED
    BY <1>1, <1>2, <1>4, <1>6, <1>8, <1>9

LEMMA DisposeEffect ==
    ASSUME Types, DisposeAll
    PROVE  /\ sock' \in [Ids -> Socks] /\ Keeps(sock, sock', Fields \ {"readers", "acceptors"})
           /\ \A x \in Ids : sock'[x].readers = <<>> /\ sock'[x].acceptors = <<>>
  <1>1. sock \in [Ids -> Socks] /\ <<>> \in Seq(Callers)
    BY EmptySeq DEF Types, SockTypes
  <1>2. sock' = [s \in Ids |-> [sock[s] EXCEPT !.readers = <<>>, !.acceptors = <<>>]]
    BY DEF DisposeAll
  <1>3. \A r \in Socks : [r EXCEPT !.readers = <<>>, !.acceptors = <<>>] \in Socks
    BY <1>1 DEF Socks
  <1>4. ASSUME NEW r \in Socks
        PROVE  /\ [r EXCEPT !.readers = <<>>, !.acceptors = <<>>].readers = <<>>
               /\ [r EXCEPT !.readers = <<>>, !.acceptors = <<>>].acceptors = <<>>
    BY DEF Socks
  <1>5. ASSUME NEW r \in Socks
        PROVE  \A f \in Fields \ {"readers", "acceptors"} :
                  [r EXCEPT !.readers = <<>>, !.acceptors = <<>>][f] = r[f]
    BY DEF Socks, Fields
  <1> QED
    BY <1>1, <1>2, <1>3, <1>4, <1>5 DEF Keeps

----------------------------------------------------------------------------
(* Types and limits *)

\* No socket is created.
LEMMA TableKept ==
    ASSUME TableTypes, last' = last, live' \subseteq live
    PROVE  TableTypes'
  <1>1. IsFiniteSet(live) /\ Cardinality(live) \in Nat /\ MaxSockets \in Nat
    BY LiveFinite, SocketAssumption
  <1>2. Cardinality(live') \in Nat /\ Cardinality(live') <= Cardinality(live)
    BY <1>1, FS_Subset, FS_CardinalityType
  <1>3. Cardinality(live') <= MaxSockets
    BY <1>1, <1>2 DEF TableTypes
  <1> QED
    BY <1>3 DEF TableTypes

\* create() found room.
LEMMA TableGrows ==
    ASSUME TableTypes
    PROVE  /\ HasRoom(1) /\ last' = last + 1 /\ live' = live \cup {last + 1} => TableTypes'
           /\ HasRoom(2) /\ last' = last + 2 /\ live' = live \cup {last + 1, last + 2} => TableTypes'
  <1>1. /\ IsFiniteSet(live) /\ Cardinality(live) \in Nat /\ MaxSockets \in Nat /\ MaxId \in Nat /\ last \in Nat
        /\ live \subseteq 1 .. last
    BY LiveFinite, SocketAssumption, Known DEF TableTypes
  <1>2. last + 1 \notin live /\ last + 2 \notin live \cup {last + 1}
    BY <1>1
  <1>3. /\ IsFiniteSet(live \cup {last + 1}) /\ Cardinality(live \cup {last + 1}) = Cardinality(live) + 1
    BY <1>1, <1>2, FS_AddElement
  <1>4. Cardinality((live \cup {last + 1}) \cup {last + 2}) = Cardinality(live) + 1 + 1
    BY <1>2, <1>3, FS_AddElement
  <1>5. (live \cup {last + 1}) \cup {last + 2} = live \cup {last + 1, last + 2}
    OBVIOUS
  <1>6. ASSUME HasRoom(1), last' = last + 1, live' = live \cup {last + 1} PROVE TableTypes'
    <2>1. Cardinality(live') <= MaxSockets /\ last' \in 0 .. MaxId
      BY <1>1, <1>3, <1>6 DEF HasRoom
    <2>2. live' \subseteq 1 .. last'
      BY ONLY <1>1, <1>6
    <2> QED
      BY <2>1, <2>2 DEF TableTypes
  <1>7. ASSUME HasRoom(2), last' = last + 2, live' = live \cup {last + 1, last + 2} PROVE TableTypes'
    <2>1. Cardinality(live') <= MaxSockets /\ last' \in 0 .. MaxId
      <3>1. Cardinality(live') = Cardinality(live) + 1 + 1
        BY <1>4, <1>5, <1>7
      <3>2. Cardinality(live) + 2 <= MaxSockets /\ last + 2 <= MaxId
        BY <1>7 DEF HasRoom
      <3> QED
        BY ONLY <1>1, <1>7, <3>1, <3>2
    <2>2. live' \subseteq 1 .. last'
      BY ONLY <1>1, <1>7
    <2> QED
      BY <2>1, <2>2 DEF TableTypes
  <1> QED
    BY <1>6, <1>7

\* The backlog of x keeps to the rules.
BacklogOk(x) ==
    /\ Len(sock[x].backlog) <= sock[x].limit /\ sock[x].limit <= BacklogSize
    /\ Range(sock[x].backlog) \subseteq 1 .. last

LEMMA BacklogKept ==
    ASSUME Types, last' \in Nat, last <= last', NEW x \in Ids,
           sock'[x].backlog = sock[x].backlog, sock'[x].limit \in {sock[x].limit, BacklogSize}
    PROVE  BacklogOk(x)'
  <1>1. /\ Len(sock[x].backlog) <= sock[x].limit /\ sock[x].limit <= BacklogSize /\ last \in Nat
        /\ Range(sock[x].backlog) \subseteq 1 .. last /\ sock[x].backlog \in Seq(Ids) /\ sock[x].limit \in Nat
        /\ BacklogSize \in Nat
    BY Known, SocketAssumption DEF Types, SockTypes, Socks
  <1>2. Len(sock[x].backlog) \in Nat
    BY <1>1
  <1>3. Len(sock'[x].backlog) <= sock'[x].limit /\ sock'[x].limit <= BacklogSize
    BY ONLY <1>1, <1>2, sock'[x].backlog = sock[x].backlog, sock'[x].limit \in {sock[x].limit, BacklogSize}
  <1>4. Range(sock'[x].backlog) \subseteq 1 .. last'
    BY <1>1
  <1> QED
    BY <1>3, <1>4 DEF BacklogOk

\* A backlog that is empty.
LEMMA BacklogEmpty ==
    ASSUME NEW x \in Ids, sock'[x].backlog = <<>>, sock'[x].limit \in Nat, sock'[x].limit <= BacklogSize
    PROVE  BacklogOk(x)'
  <1>1. Len(<<>>) = 0 /\ Range(<<>>) = {}
    BY DEF Range
  <1> QED
    BY <1>1 DEF BacklogOk

LEMMA BacklogNew ==
    ASSUME NEW x \in Ids, NEW t, IsNew(sock'[x], t)
    PROVE  BacklogOk(x)'
  BY BacklogEmpty, SocketAssumption DEF IsNew

\* The sockets when no backlog and no limit changes.
LEMMA BacklogsKept ==
    ASSUME Types, last' \in Nat, last <= last', sock' \in [Ids -> Socks],
           Keeps(sock, sock', {"backlog", "limit"})
    PROVE  SockTypes'
  <1>1. \A x \in Ids : sock'[x].backlog = sock[x].backlog /\ sock'[x].limit = sock[x].limit
    BY DEF Keeps
  <1>2. \A x \in Ids : BacklogOk(x)'
    BY <1>1, BacklogKept
  <1> QED
    BY <1>2 DEF SockTypes, BacklogOk

\* One more connection in a backlog that was not full.
LEMMA BacklogAppend ==
    ASSUME Types, last' = last + 1, NEW l \in Ids, ~Full(l), sock'[l].limit = sock[l].limit,
           sock'[l].backlog = Append(sock[l].backlog, last + 1)
    PROVE  BacklogOk(l)'
  <1> DEFINE q == sock[l].backlog
  <1>1. /\ Len(q) <= sock[l].limit /\ sock[l].limit <= BacklogSize /\ last \in Nat
        /\ Range(q) \subseteq 1 .. last /\ q \in Seq(Ids) /\ sock[l].limit \in Nat
        /\ ~(Len(q) >= sock[l].limit)
    BY Known, SocketAssumption DEF Types, SockTypes, Socks, Full
  <1> HIDE DEF q
  <1>2. Len(Append(q, last + 1)) = Len(q) + 1 /\ Len(q) \in Nat
    BY <1>1
  <1>3. Len(q) + 1 <= sock[l].limit
    BY ONLY <1>1, <1>2
  <1>4. Range(Append(q, last + 1)) \subseteq Range(q) \cup {last + 1}
    BY <1>1 DEF Range
  <1>5. Range(Append(q, last + 1)) \subseteq 1 .. (last + 1)
    BY <1>1, <1>4
  <1> QED
    BY <1>1, <1>2, <1>3, <1>5 DEF BacklogOk, q

\* accept() takes the oldest connection.
LEMMA BacklogTail ==
    ASSUME Types, last' = last, NEW l \in Ids, sock'[l].limit = sock[l].limit, sock[l].backlog # <<>>,
           sock'[l].backlog = Tail(sock[l].backlog)
    PROVE  BacklogOk(l)'
  <1> DEFINE q == sock[l].backlog
  <1>1. /\ Len(q) <= sock[l].limit /\ sock[l].limit <= BacklogSize
        /\ Range(q) \subseteq 1 .. last /\ q \in Seq(Ids) /\ sock[l].limit \in Nat /\ q # <<>>
    BY DEF Types, SockTypes, Socks
  <1> HIDE DEF q
  <1>2. Len(Tail(q)) = Len(q) - 1 /\ Len(q) \in Nat
    BY <1>1
  <1>3. Len(q) - 1 <= sock[l].limit
    BY ONLY <1>1, <1>2
  <1>4. Range(Tail(q)) \subseteq Range(q)
    BY <1>1 DEF Range
  <1> QED
    BY <1>1, <1>2, <1>3, <1>4 DEF BacklogOk, q

\* What a step may do to the calls.
LEMMA CallKept ==
    ASSUME Types, last' \in Nat, last <= last'
    PROVE  /\ call' = call => CallTypes'
           /\ \A c \in Callers : call' = [call EXCEPT ![c] = Idle] => CallTypes'
           /\ \A cs : \A why \in {"socket", "signal"} : call' = Settled(cs, why) => CallTypes'
           /\ \A cs : \A c \in Callers : call' = [Settled(cs, "socket") EXCEPT ![c] = Idle] => CallTypes'
           /\ \A c \in Callers : \A op \in Ops : \A s \in 1 .. last : \A a \in Addrs \cup {None} :
                 /\ op \in {"bind", "mkfile", "connect"} => a \in Unix
                 /\ call' = [call EXCEPT ![c] = Suspend(op, s, a)]
                 => CallTypes'
  <1>0. /\ call \in [Callers -> CallRecs] /\ last \in Nat /\ 1 .. last \subseteq Ids
        /\ Idle \in CallRecs /\ Idle.op = "idle"
    <2>1. Idle \in CallRecs /\ Idle.op = "idle"
      BY DEF Idle, CallRecs, Ops, Wins
    <2> QED
      BY <2>1, Known DEF Types, CallTypes
  <1>1. /\ 1 .. last \subseteq 1 .. last'
        /\ \A c \in Callers : /\ call[c].op # "idle" => call[c].sock \in 1 .. last
                              /\ call[c].op \in {"bind", "mkfile", "connect"} => call[c].addr \in Unix
    BY <1>0 DEF Types, CallTypes
  <1>2. call' = call => CallTypes'
    BY <1>0, <1>1 DEF CallTypes
  <1>3. ASSUME NEW c \in Callers, call' = [call EXCEPT ![c] = Idle] PROVE CallTypes'
    BY <1>0, <1>1, <1>3 DEF CallTypes
  <1>4. ASSUME NEW cs, NEW why \in {"socket", "signal"} PROVE call' = Settled(cs, why) => CallTypes'
    <2> DEFINE d == Settled(cs, why)
    <2>1. /\ d \in [Callers -> CallRecs]
          /\ \A c \in Callers : d[c].op = call[c].op /\ d[c].sock = call[c].sock /\ d[c].addr = call[c].addr
      BY SettledEffect DEF Types
    <2> HIDE DEF d
    <2>2. call' = d => CallTypes'
      BY <1>1, <2>1 DEF CallTypes
    <2> QED
      BY <2>2 DEF d
  <1>5. ASSUME NEW cs, NEW c \in Callers PROVE call' = [Settled(cs, "socket") EXCEPT ![c] = Idle] => CallTypes'
    <2> DEFINE d == Settled(cs, "socket")
    <2>1. /\ d \in [Callers -> CallRecs]
          /\ \A e \in Callers : d[e].op = call[e].op /\ d[e].sock = call[e].sock /\ d[e].addr = call[e].addr
      BY SettledEffect DEF Types
    <2> HIDE DEF d
    <2>2. call' = [d EXCEPT ![c] = Idle] => CallTypes'
      BY <1>0, <1>1, <2>1 DEF CallTypes
    <2> QED
      BY <2>2 DEF d
  <1>6. ASSUME NEW c \in Callers, NEW op \in Ops, NEW s \in 1 .. last, NEW a \in Addrs \cup {None},
               op \in {"bind", "mkfile", "connect"} => a \in Unix,
               call' = [call EXCEPT ![c] = Suspend(op, s, a)]
        PROVE  CallTypes'
    <2> DEFINE r == Suspend(op, s, a)
    <2>1. r \in CallRecs /\ r.op = op /\ r.sock = s /\ r.addr = a
      BY <1>0, SuspendType
    <2>2. call' = [call EXCEPT ![c] = r]
      BY <1>6
    <2> HIDE DEF r
    <2> QED
      BY <1>0, <1>1, <1>6, <2>1, <2>2 DEF CallTypes
  <1> QED
    BY <1>2, <1>3, <1>4, <1>5, <1>6

LEMMA OtherKept ==
    ASSUME Types, last' \in Nat, last <= last', listeners' = listeners, files' = files, hostOpen' = hostOpen,
           pump' = pump
    PROVE  OtherTypes'
  <1>1. 1 .. last \subseteq 1 .. last' /\ last \in Nat
    BY Known DEF Types
  <1> QED
    BY <1>1 DEF OtherTypes, Types

LEMMA Flat ==
    ASSUME Types, last' = last
    PROVE  last' \in Nat /\ last <= last'
  BY Known DEF Types

\* Steps that leave the sockets alone.
LEMMA StillTypes ==
    ASSUME Types, UNCHANGED <<sock, live, last, listeners, hostOpen>>, CallTypes', files' \subseteq Paths,
           pump' = pump
           \/ \E s \in 1 .. last : \E v \in {"off", "waiting", "got"} : pump' = [pump EXCEPT ![s] = v]
    PROVE  Types'
  <1>1. TableTypes'
    BY TableKept DEF Types
  <1>2. SockTypes'
    BY DEF Types, SockTypes
  <1>3. OtherTypes'
    <2>1. CASE pump' = pump
      BY <2>1 DEF Types, OtherTypes
    <2>2. ASSUME NEW s \in 1 .. last, NEW v \in {"off", "waiting", "got"}, pump' = [pump EXCEPT ![s] = v]
          PROVE  OtherTypes'
      BY <2>2, Known DEF Types, OtherTypes
    <2> QED
      BY <2>1, <2>2
  <1> QED
    BY <1>1, <1>2, <1>3 DEF Types

\* Steps that change fields of sockets, and no backlog or limit.
LEMMA FieldTypes ==
    ASSUME Types, UNCHANGED <<live, last, files, listeners, pump>>, sock' \in [Ids -> Socks],
           Keeps(sock, sock', {"backlog", "limit"}), CallTypes', hostOpen' \in [Ids -> Int]
    PROVE  Types'
  <1>1. TableTypes' /\ SockTypes'
    BY TableKept, Flat, BacklogsKept DEF Types
  <1>2. OtherTypes'
    BY DEF Types, OtherTypes
  <1> QED
    BY <1>1, <1>2 DEF Types

\* A guest names a socket that exists.
LEMMA Names ==
    ASSUME Types
    PROVE  /\ \A s \in live : s \in 1 .. last /\ s \in Ids
           /\ \A c \in Callers : call[c].op # "idle" => call[c].sock \in 1 .. last /\ call[c].sock \in Ids
           /\ \A a \in Addrs : FindListener(a) # None =>
                 /\ FindListener(a) \in live /\ FindListener(a) \in 1 .. last /\ FindListener(a) \in Ids
                 /\ sock[FindListener(a)].state = "listening"
  <1>1. 1 .. last \subseteq Ids /\ live \subseteq 1 .. last
    BY Known DEF Types, TableTypes
  <1>2. ASSUME NEW a, Listening(a) # None PROVE Listening(a) \in live /\ sock[Listening(a)].state = "listening"
    BY <1>2 DEF Listening
  <1>3. ASSUME NEW a, FindListener(a) # None
        PROVE  FindListener(a) \in live /\ sock[FindListener(a)].state = "listening"
    BY <1>2, <1>3 DEF FindListener
  <1> QED
    BY <1>1, <1>3 DEF Types, CallTypes

LEMMA RegisterTypes ==
    ASSUME Types, NEW s \in Ids, NEW a \in Addrs, NEW e \in BOOLEAN, Register(s, a, e), CallTypes', files' = files
    PROVE  Types'
  <1>1. Only(s, {"local", "state", "ephemeral"})
    BY RegisterEffect
  <1>2. /\ live' = live /\ last' = last /\ pump' = pump /\ hostOpen' = hostOpen
        /\ listeners' = [listeners EXCEPT ![a] = s]
    BY DEF Register
  <1>3. TableTypes' /\ SockTypes'
    BY <1>1, <1>2, TableKept, Flat, BacklogsKept DEF Types, Only, Keeps, Fields
  <1>4. OtherTypes'
    BY <1>2 DEF Types, OtherTypes
  <1> QED
    BY <1>3, <1>4 DEF Types

LEMMA LinkTypes ==
    ASSUME Types, NEW s \in 1 .. last, NEW l \in 1 .. last, Link(s, l), CallTypes', files' = files
    PROVE  Types'
  <1> DEFINE n == last + 1
  <1>1. /\ n \in Ids /\ l \in Ids /\ sock' \in [Ids -> Socks] /\ IsNew(sock'[n], "connected")
        /\ \A x \in Ids \ {n} :
              /\ \A f \in Fields \ {"peer", "state", "backlog", "acceptors"} : sock'[x][f] = sock[x][f]
              /\ x # l => sock'[x].backlog = sock[x].backlog
        /\ sock'[l].backlog = Append(sock[l].backlog, n) /\ l # n
    <2>1. Linked(s, l, n)
      BY LinkEffect
    <2> QED
      BY <2>1 DEF Linked
  <1>2. /\ last' = last + 1 /\ live' = live \cup {last + 1} /\ HasRoom(1) /\ ~Full(l)
        /\ listeners' = listeners /\ pump' = pump /\ hostOpen' = hostOpen
    BY DEF Link
  <1>3. last' \in Nat /\ last <= last'
    BY <1>2, Known DEF Types
  <1>4. TableTypes' /\ OtherTypes'
    BY <1>2, <1>3, TableGrows, OtherKept DEF Types
  <1>5. ASSUME NEW x \in Ids PROVE BacklogOk(x)'
    <2>0. x # n => sock'[x].limit = sock[x].limit
      BY <1>1 DEF Fields
    <2>1. CASE x = n
      BY <1>1, <2>1, BacklogNew
    <2>2. CASE x = l
      BY <1>1, <1>2, <2>0, <2>2, BacklogAppend
    <2>3. CASE x # n /\ x # l
      BY <1>1, <1>3, <2>0, <2>3, BacklogKept
    <2> QED
      BY <2>1, <2>2, <2>3
  <1> QED
    BY <1>1, <1>4, <1>5 DEF Types, SockTypes, BacklogOk

LEMMA TakeTypes ==
    ASSUME Types, NEW c \in Callers, NEW s \in 1 .. last, NEW queue \in Seq(Callers), TakeOrWait(c, s, queue),
           UNCHANGED <<live, last, listeners, files, pump, hostOpen>>
    PROVE  Types'
  <1>0. s \in Ids /\ last' \in Nat /\ last <= last' /\ None \in Addrs \cup {None} /\ "accept" \in Ops
    BY Known, Flat DEF Types, Ops
  <1>1. CASE /\ sock[s].backlog # <<>> /\ sock' \in [Ids -> Socks]
             /\ Keeps(sock, sock', Fields \ {"backlog", "acceptors", "given"})
             /\ \A x \in Ids : x # s => sock'[x].backlog = sock[x].backlog
             /\ sock'[s].backlog = Tail(sock[s].backlog) /\ call' = [call EXCEPT ![c] = Idle]
    <2>1. ASSUME NEW x \in Ids PROVE BacklogOk(x)'
      <3>1. sock'[x].limit = sock[x].limit
        BY <1>1 DEF Keeps, Fields
      <3> QED
        BY <1>0, <1>1, <3>1, BacklogTail, BacklogKept
    <2>2. CallTypes'
      BY <1>0, <1>1, CallKept
    <2>3. TableTypes' /\ OtherTypes'
      BY <1>0, TableKept, OtherKept DEF Types
    <2> QED
      BY <1>1, <2>1, <2>2, <2>3 DEF Types, SockTypes, BacklogOk
  <1>2. CASE Only(s, {"acceptors"}) /\ call' = [call EXCEPT ![c] = Suspend("accept", s, None)]
    <2>1. CallTypes'
      BY <1>0, <1>2, CallKept
    <2>2. sock' \in [Ids -> Socks] /\ Keeps(sock, sock', {"backlog", "limit"}) /\ hostOpen' \in [Ids -> Int]
      BY <1>2 DEF Only, Keeps, Fields, Types, OtherTypes
    <2> QED
      BY <2>1, <2>2, FieldTypes
  <1> QED
    BY <1>0, <1>1, <1>2, TakeOrWaitEffect

LEMMA ReadTypes ==
    ASSUME Types, NEW c \in Callers, NEW s \in 1 .. last, NEW queue \in Seq(Callers), NEW n \in Nat,
           ReadOrWait(c, s, queue, n), UNCHANGED <<live, last, listeners, files, pump, hostOpen>>
    PROVE  Types'
  <1>0. s \in Ids /\ last' \in Nat /\ last <= last' /\ None \in Addrs \cup {None} /\ "recv" \in Ops
        /\ hostOpen' \in [Ids -> Int]
    BY Known, Flat DEF Types, Ops, OtherTypes
  <1>1. /\ Only(s, {"buf", "readers"})
        /\ call' = [call EXCEPT ![c] = Idle] \/ call' = [call EXCEPT ![c] = Suspend("recv", s, None)]
    BY <1>0, ReadOrWaitEffect
  <1>2. CallTypes'
    BY <1>0, <1>1, CallKept
  <1>3. sock' \in [Ids -> Socks] /\ Keeps(sock, sock', {"backlog", "limit"})
    BY <1>1 DEF Only, Keeps, Fields
  <1> QED
    BY <1>0, <1>2, <1>3, FieldTypes

LEMMA CallStepTypes ==
    ASSUME Types, Call
    PROVE  Types'
  <1> USE DEF history
  <1>0. /\ \A s \in live : s \in 1 .. last /\ s \in Ids
        /\ sock \in [Ids -> Socks] /\ hostOpen \in [Ids -> Int] /\ Ops = {"idle", "bind", "mkfile", "listen", "connect", "connectHost", "accept", "recv"}
        /\ Inet \subseteq Addrs /\ Unix \subseteq Addrs /\ files \subseteq Paths
    BY Names DEF Types, SockTypes, OtherTypes, Addrs, Ops
  <1>1. ASSUME NEW p \in Pids, Create(p) PROVE Types'
    <2>1. last' = last + 1 /\ live' = live \cup {last + 1} /\ HasRoom(1)
          /\ UNCHANGED <<listeners, files, call, pump, hostOpen>>
      BY <1>1 DEF Create
    <2>2. /\ last' \in Ids /\ sock' \in [Ids -> Socks] /\ \A x \in Ids \ {last'} : sock'[x] = sock[x]
          /\ IsNew(sock'[last'], "created")
      BY <1>1, CreateEffect
    <2>3. last' \in Nat /\ last <= last'
      BY <2>1, Known DEF Types
    <2>4. TableTypes'
      BY <2>1, TableGrows DEF Types
    <2>5. \A x \in Ids : BacklogOk(x)'
      BY <2>2, <2>3, BacklogKept, BacklogNew
    <2>6. CallTypes' /\ OtherTypes'
      BY <2>1, <2>3, CallKept, OtherKept
    <2> QED
      BY <2>2, <2>4, <2>5, <2>6 DEF Types, SockTypes, BacklogOk
  <1>a. ASSUME NEW p \in Pids, SocketpairFails(p) PROVE Types'
    <2>1. last' = last + 1 /\ live' = live \cup {last + 1} /\ HasRoom(1)
          /\ UNCHANGED <<listeners, files, call, pump, hostOpen>>
      BY <1>a DEF SocketpairFails
    <2>2. /\ last' \in Ids /\ sock' \in [Ids -> Socks] /\ \A x \in Ids \ {last'} : sock'[x] = sock[x]
          /\ IsNew(sock'[last'], "created")
      BY <1>a, SocketpairFailsEffect
    <2>3. last' \in Nat /\ last <= last'
      BY <2>1, Known DEF Types
    <2>4. TableTypes'
      BY <2>1, TableGrows DEF Types
    <2>5. \A x \in Ids : BacklogOk(x)'
      BY <2>2, <2>3, BacklogKept, BacklogNew
    <2>6. CallTypes' /\ OtherTypes'
      BY <2>1, <2>3, CallKept, OtherKept
    <2> QED
      BY <2>2, <2>4, <2>5, <2>6 DEF Types, SockTypes, BacklogOk
  <1>2. ASSUME NEW p \in Pids, Socketpair(p) PROVE Types'
    <2> DEFINE a == last + 1   b == last + 2
    <2>1. last' = last + 2 /\ live' = live \cup {last + 1, last + 2} /\ HasRoom(2)
          /\ UNCHANGED <<listeners, files, call, pump, hostOpen>>
      BY <1>2 DEF Socketpair
    <2>2. /\ a \in Ids /\ b \in Ids /\ sock' \in [Ids -> Socks] /\ \A x \in Ids \ {a, b} : sock'[x] = sock[x]
          /\ IsNew(sock'[a], "connected") /\ IsNew(sock'[b], "connected")
      BY <1>2, SocketpairEffect
    <2>3. last' \in Nat /\ last <= last'
      BY <2>1, Known DEF Types
    <2>4. TableTypes'
      BY <2>1, TableGrows DEF Types
    <2> HIDE DEF a, b
    <2>5. \A x \in Ids : BacklogOk(x)'
      BY <2>2, <2>3, BacklogKept, BacklogNew
    <2>6. CallTypes' /\ OtherTypes'
      BY <2>1, <2>3, CallKept, OtherKept
    <2> QED
      BY <2>2, <2>4, <2>5, <2>6 DEF Types, SockTypes, BacklogOk
  <1>3. ASSUME NEW closing \in SUBSET live, Destroy(closing) PROVE Types'
    <2> DEFINE D == Doomed(closing)
    <2>1. /\ sock' \in [Ids -> Socks] /\ D \subseteq live
          /\ \A x \in D : sock'[x].backlog = <<>> /\ sock'[x].limit = sock[x].limit
          /\ \A x \in Ids \ D : \A f \in Fields \ {"peer", "readers"} : sock'[x][f] = sock[x][f]
      BY <1>3, DestroyEffect
    <2>2. last' = last /\ live' = live \ D /\ files' = files
      BY <1>3 DEF Destroy
    <2>3. last' \in Nat /\ last <= last'
      BY <2>2, Flat
    <2>4. TableTypes'
      BY <2>2, TableKept DEF Types
    <2>5. CallTypes'
      BY <1>3, <2>3, CallKept DEF Destroy
    <2>6. OtherTypes'
      <3>1. /\ listeners' = [z \in Addrs |-> IF z \in Freed(D) THEN None ELSE listeners[z]]
            /\ hostOpen' = [s \in Ids |-> IF s \in D THEN HostClosed(s) ELSE hostOpen[s]]
            /\ pump' = [s \in Ids |-> IF s \in D /\ pump[s] = "waiting" THEN "off" ELSE pump[s]]
        BY <1>3 DEF Destroy
      <3>2. \A s \in Ids : HostClosed(s) \in Int /\ hostOpen[s] \in Int
        BY <1>0 DEF HostClosed
      <3> HIDE DEF D
      <3> QED
        BY <2>2, <3>1, <3>2 DEF Types, OtherTypes
    <2> HIDE DEF D
    <2>7. ASSUME NEW x \in Ids PROVE BacklogOk(x)'
      <3>1. sock[x].limit \in Nat /\ sock[x].limit <= BacklogSize
        BY DEF Types, SockTypes, Socks
      <3>2. CASE x \in D
        BY <2>1, <3>1, <3>2, BacklogEmpty
      <3>3. CASE x \notin D
        <4>1. sock'[x].backlog = sock[x].backlog /\ sock'[x].limit = sock[x].limit
          BY <2>1, <3>3 DEF Fields
        <4> QED
          BY <2>3, <4>1, BacklogKept
      <3> QED
        BY <3>2, <3>3
    <2> QED
      BY <2>1, <2>4, <2>5, <2>6, <2>7 DEF Types, SockTypes, BacklogOk
  <1>4. ASSUME DisposeAll PROVE Types'
    <2>1. sock' \in [Ids -> Socks] /\ Keeps(sock, sock', Fields \ {"readers", "acceptors"})
      BY <1>4, DisposeEffect
    <2>2. last' = last /\ live' = {} /\ files' = files
      BY <1>4 DEF DisposeAll
    <2>3. last' \in Nat /\ last <= last'
      BY <2>2, Flat
    <2>4. TableTypes'
      BY <2>2, TableKept DEF Types
    <2>5. CallTypes'
      BY <1>4, <2>3, CallKept DEF DisposeAll
    <2>6. SockTypes'
      BY <2>1, <2>3, BacklogsKept DEF Keeps, Fields
    <2>7. OtherTypes'
      <3>1. /\ listeners' = [z \in Addrs |-> None]
            /\ hostOpen' = [s \in Ids |-> IF s \in live THEN HostClosed(s) ELSE hostOpen[s]]
            /\ pump' = [s \in Ids |-> IF s \in live /\ pump[s] = "waiting" THEN "off" ELSE pump[s]]
        BY <1>4 DEF DisposeAll
      <3>2. \A s \in Ids : HostClosed(s) \in Int /\ hostOpen[s] \in Int
        BY <1>0 DEF HostClosed
      <3> QED
        BY <2>2, <3>1, <3>2 DEF Types, OtherTypes
    <2> QED
      BY <2>4, <2>5, <2>6, <2>7 DEF Types
  <1>f. last' = last => last' \in Nat /\ last <= last'
    BY Flat
  <1>5. ASSUME NEW s \in live, Listen(s) \/ \E c \in Callers : ListenHost(c, s) PROVE Types'
    <2>1. /\ UNCHANGED <<live, last, listeners, files, pump, hostOpen>>
          /\ call' = call \/ \E c \in Callers : call' = [call EXCEPT ![c] = Suspend("listen", s, None)]
      BY <1>5 DEF Listen, ListenHost
    <2>2. Only(s, {"state", "limit"}) /\ sock'[s].limit = BacklogSize
      BY <1>0, <1>5, ListenEffect DEF Only, Keeps
    <2>3. CallTypes'
      BY <1>0, <1>f, <2>1, CallKept
    <2>4. TableTypes' /\ OtherTypes'
      BY <1>f, <2>1, TableKept, OtherKept DEF Types
    <2>5. ASSUME NEW x \in Ids PROVE BacklogOk(x)'
      <3>1. sock'[x].backlog = sock[x].backlog /\ sock'[x].limit \in {sock[x].limit, BacklogSize}
        BY <2>2 DEF Only, Keeps, Fields
      <3> QED
        BY <1>f, <2>1, <3>1, BacklogKept
    <2> QED
      BY <2>2, <2>3, <2>4, <2>5 DEF Types, SockTypes, BacklogOk, Only
  <1>6. ASSUME NEW s \in live, NEW n \in 1 .. MaxBytes, Send(s, n) PROVE Types'
    <2> DEFINE p == sock[s].peer
    <2>1. /\ UNCHANGED <<live, last, listeners, files, pump, hostOpen>> /\ p \in live
          /\ sock' = [sock EXCEPT ![p].buf = @ + n, ![p].readers = Rest(@)]
          /\ call' = Settled(First(sock[p].readers), "socket")
      BY <1>6 DEF Send
    <2> HIDE DEF p
    <2>2. Only(p, {"buf", "readers"})
      <3>1. n \in Nat /\ p \in Ids
        BY <1>0, <2>1
      <3> QED
        BY ONLY Types, <2>1, <3>1, HostEffect
    <2>3. CallTypes'
      BY <1>f, <2>1, CallKept
    <2>4. sock' \in [Ids -> Socks] /\ Keeps(sock, sock', {"backlog", "limit"})
      BY <2>2 DEF Only, Keeps, Fields
    <2> QED
      BY <1>0, <2>1, <2>3, <2>4, FieldTypes
  <1>7. ASSUME NEW s \in live, NEW how \in {"read", "write", "both"}, Shutdown(s, how) PROVE Types'
    <2>1. UNCHANGED <<live, last, listeners, files, pump, hostOpen>>
          /\ call' = Settled(ShutdownWakes(s, how), "socket")
      BY <1>7 DEF Shutdown
    <2>2. sock' \in [Ids -> Socks] /\ Keeps(sock, sock', {"backlog", "limit"})
      BY <1>7, ShutdownEffect DEF Keeps, Fields
    <2>3. CallTypes'
      BY <1>f, <2>1, CallKept
    <2> QED
      BY <1>0, <2>1, <2>2, <2>3, FieldTypes
  <1>8. ASSUME NEW s \in live, NEW a \in Inet, ConnectInet(s, a) PROVE Types'
    <2>1. /\ FindListener(a) # None /\ Link(s, FindListener(a)) /\ files' = files
          /\ call' = Settled(First(sock[FindListener(a)].acceptors), "socket")
      BY <1>8 DEF ConnectInet
    <2>2. FindListener(a) \in 1 .. last
      BY <1>0, <2>1, Names
    <2>3. last' = last + 1
      BY <2>1 DEF Link
    <2>4. CallTypes'
      BY <2>1, <2>3, CallKept, Known DEF Types
    <2> QED
      BY <1>0, <2>1, <2>2, <2>4, LinkTypes
  <1>9. ASSUME NEW s \in live, NEW a \in Inet, ConnectStart(s, a) PROVE Types'
    <2>1. /\ UNCHANGED <<live, last, listeners, files, call, pump, hostOpen>>
          /\ sock' = [sock EXCEPT ![s].state = "connecting"] /\ "connecting" \in States
      BY <1>9 DEF ConnectStart, States
    <2>2. sock' \in [Ids -> Socks] /\ Keeps(sock, sock', {"backlog", "limit"})
      <3>1. Only(s, {"state"})
        BY ONLY Types, <1>0, <2>1, HostEffect
      <3> QED
        BY <3>1 DEF Only, Keeps, Fields
    <2>3. CallTypes'
      BY <1>f, <2>1, CallKept
    <2> QED
      BY <1>0, <2>1, <2>2, <2>3, FieldTypes
  <1>10. ASSUME NEW s \in live, NEW a \in Addrs, NEW e \in BOOLEAN, Register(s, a, e), UNCHANGED <<files, call>>
         PROVE  Types'
    <2>1. last' = last
      BY <1>10 DEF Register
    <2>2. CallTypes'
      BY <1>f, <1>10, <2>1, CallKept
    <2> QED
      BY <1>0, <1>10, <2>2, RegisterTypes
  <1>11. ASSUME NEW s \in live, NEW reuse \in BOOLEAN,
                (\E a \in Inet : BindInet(s, a, reuse)) \/ (\E h \in Hosts : BindEphemeral(s, h, reuse))
         PROVE  Types'
    <2>1. ASSUME NEW h \in Hosts, NEW p \in Ports PROVE [host |-> h, port |-> p] \in Inet
      BY DEF Inet
    <2>2. \E a \in Inet : \E e \in BOOLEAN : Register(s, a, e) /\ UNCHANGED <<files, call>>
      BY <1>11, <2>1 DEF BindInet, BindEphemeral, Ephemeral
    <2> QED
      BY <1>0, <1>10, <2>2
  <1>12. ASSUME NEW c \in Callers, NEW s \in live, Accept(c, s) PROVE Types'
    <2>1. sock[s].acceptors \in Seq(Callers)
      BY <1>0 DEF Socks
    <2> QED
      BY <1>0, <1>12, <2>1, TakeTypes DEF Accept
  <1>13. ASSUME NEW c \in Callers, NEW s \in live, NEW n \in 1 .. MaxBytes, Recv(c, s, n) PROVE Types'
    <2>1. sock[s].readers \in Seq(Callers)
      BY <1>0 DEF Socks
    <2> QED
      BY <1>0, <1>13, <2>1, ReadTypes DEF Recv
  <1>14. ASSUME NEW c \in Callers, NEW s \in live,
                \/ \E a \in Unix : BindUnix(c, s, a) \/ ConnectUnix(c, s, a)
                \/ \E a \in Inet : ConnectHost(c, s, a)
         PROVE  Types'
    <2>1. /\ UNCHANGED <<sock, live, last, listeners, files, pump, hostOpen>>
          /\ \/ \E a \in Unix : \/ call' = [call EXCEPT ![c] = Suspend("bind", s, a)]
                                \/ call' = [call EXCEPT ![c] = Suspend("connect", s, a)]
             \/ \E a \in Inet : call' = [call EXCEPT ![c] = Suspend("connectHost", s, a)]
      BY <1>14 DEF BindUnix, ConnectUnix, ConnectHost
    <2>2. CallTypes'
      BY <1>0, <1>f, <2>1, CallKept
    <2> QED
      BY <1>0, <2>1, <2>2, StillTypes
  <1>15. ASSUME NEW p \in Pids, CloseAllForProcess(p) PROVE Types'
    BY <1>3, <1>15 DEF CloseAllForProcess
  <1>16. ASSUME NEW s \in live, Close(s) PROVE Types'
    BY <1>3, <1>16 DEF Close
  <1> QED
    BY <1>1, <1>a, <1>2, <1>4, <1>5, <1>6, <1>7, <1>8, <1>9, <1>11, <1>12, <1>13, <1>14, <1>15, <1>16 DEF Call

LEMMA PumpAcceptsTypes ==
    ASSUME Types, NEW s \in Ids, PumpAccepts(s)
    PROVE  Types'
  <1> DEFINE n == last + 1
  <1>1. /\ n \in Ids /\ s \in 1 .. last /\ sock' \in [Ids -> Socks] /\ IsNew(sock'[n], "connected") /\ s # n
        /\ \A x \in Ids \ {n} : /\ \A f \in Fields \ {"backlog", "acceptors"} : sock'[x][f] = sock[x][f]
                                /\ x # s => sock'[x].backlog = sock[x].backlog
        /\ sock'[s].backlog = Append(sock[s].backlog, n)
    <2>1. Pumped(s, n)
      BY PumpAcceptsEffect
    <2> QED
      BY <2>1 DEF Pumped
  <1>2. /\ last' = last + 1 /\ live' = live \cup {last + 1} /\ HasRoom(1) /\ ~Full(s)
        /\ listeners' = listeners /\ files' = files /\ pump' = [pump EXCEPT ![s] = PumpAgain(s)]
        /\ hostOpen' = [hostOpen EXCEPT ![n] = 1] /\ call' = Settled(First(sock[s].acceptors), "socket")
    BY DEF PumpAccepts
  <1>3. last \in Nat /\ last' \in Nat /\ last <= last' /\ 1 .. last \subseteq 1 .. last'
    BY <1>2, Known DEF Types
  <1>4. TableTypes' /\ CallTypes'
    BY <1>2, <1>3, TableGrows, CallKept DEF Types
  <1>5. ASSUME NEW x \in Ids PROVE BacklogOk(x)'
    <2>0. x # n => sock'[x].limit = sock[x].limit
      BY <1>1 DEF Fields
    <2>1. CASE x = n
      BY <1>1, <2>1, BacklogNew
    <2>2. CASE x = s
      BY <1>1, <1>2, <2>0, <2>2, BacklogAppend
    <2>3. CASE x # n /\ x # s
      BY <1>1, <1>3, <2>0, <2>3, BacklogKept
    <2> QED
      BY <2>1, <2>2, <2>3
  <1>6. OtherTypes'
    <2> DEFINE v == PumpAgain(s)
    <2>1. v \in {"off", "waiting", "got"} /\ pump' = [pump EXCEPT ![s] = v]
          /\ pump \in [Ids -> {"off", "waiting", "got"}] /\ hostOpen \in [Ids -> Int]
      BY <1>2 DEF PumpAgain, Types, OtherTypes
    <2> HIDE DEF n, v
    <2>2. pump' \in [Ids -> {"off", "waiting", "got"}] /\ hostOpen' \in [Ids -> Int]
      <3>1. pump' \in [Ids -> {"off", "waiting", "got"}]
        BY ONLY <2>1
      <3>2. 1 \in Int /\ hostOpen' = [hostOpen EXCEPT ![n] = 1] /\ hostOpen \in [Ids -> Int]
        BY <1>2, <2>1
      <3> QED
        BY ONLY <3>1, <3>2
    <2>3. \A x \in Ids : pump'[x] # "off" => x \in 1 .. last'
      BY <1>1, <1>2, <1>3 DEF Types, OtherTypes
    <2> QED
      BY <1>2, <2>2, <2>3 DEF Types, OtherTypes
  <1> QED
    BY <1>1, <1>4, <1>5, <1>6 DEF Types, SockTypes, BacklogOk

LEMMA ListenResumeTypes ==
    ASSUME Types, NEW c \in Callers, NEW port \in Ports, ListenResume(c, port)
    PROVE  Types'
  <1> DEFINE s == call[c].sock
  <1>1. /\ s \in 1 .. last /\ s \in Ids /\ Only(s, {"state", "local", "host"})
        /\ \/ listeners' = listeners
           \/ /\ sock[s].local \in Inet /\ sock'[s].local \in Inet
              /\ listeners' = [listeners EXCEPT ![sock[s].local] = None, ![sock'[s].local] = s]
    BY ListenResumeEffect
  <1>2. /\ live' = live /\ last' = last /\ files' = files /\ call' = [call EXCEPT ![c] = Idle]
        /\ pump' = [pump EXCEPT ![s] = "waiting"] /\ hostOpen' = [hostOpen EXCEPT ![s] = @ + 1]
    BY DEF ListenResume
  <1> HIDE DEF s
  <1>3. last' \in Nat /\ last <= last'
    BY <1>2, Flat
  <1>4. TableTypes' /\ SockTypes' /\ CallTypes'
    BY <1>1, <1>2, <1>3, TableKept, BacklogsKept, CallKept DEF Types, Only, Keeps, Fields
  <1>5. listeners' \in [Addrs -> Ids \cup {None}]
    <2>1. CASE listeners' = listeners
      BY <2>1 DEF Types, OtherTypes
    <2>2. CASE listeners' # listeners
      <3> DEFINE a == sock[s].local   b == sock'[s].local
      <3>1. a \in Addrs /\ b \in Addrs /\ listeners' = [listeners EXCEPT ![a] = None, ![b] = s]
        BY <1>1, <2>2 DEF Addrs
      <3> HIDE DEF a, b
      <3> QED
        BY <1>1, <3>1 DEF Types, OtherTypes
    <2> QED
      BY <2>1, <2>2
  <1>6. OtherTypes'
    BY <1>1, <1>2, <1>5 DEF Types, OtherTypes
  <1> QED
    BY <1>4, <1>6 DEF Types

LEMMA ProgressTypes ==
    ASSUME Types, Progress
    PROVE  Types'
  <1> USE DEF history
  <1>0. /\ \A s \in live : s \in 1 .. last /\ s \in Ids
        /\ sock \in [Ids -> Socks] /\ hostOpen \in [Ids -> Int] /\ files \subseteq Paths
        /\ {"mkfile", "bind", "accept", "recv"} \subseteq Ops /\ Unix \subseteq Addrs
        /\ \A c \in Callers : call[c].op # "idle" => call[c].sock \in 1 .. last /\ call[c].sock \in Ids
        /\ \A c \in Callers : call[c].op \in {"bind", "mkfile", "connect"} => call[c].addr \in Unix
    BY Names DEF Types, SockTypes, OtherTypes, Addrs, Ops, CallTypes
  <1>f. last' = last => last' \in Nat /\ last <= last'
    BY Flat
  <1>1. ASSUME NEW c \in Callers, BindUnixFails(c) \/ HostRefuses(c) \/ ConnectUnixFails(c) \/ CreateSocketFile(c)
        PROVE  Types'
    <2>1. UNCHANGED <<sock, live, last, listeners, pump, hostOpen>> /\ call' = [call EXCEPT ![c] = Idle]
      BY <1>1 DEF BindUnixFails, HostRefuses, ConnectUnixFails, CreateSocketFile
    <2>2. files' \subseteq Paths
      <3>1. CASE CreateSocketFile(c)
        <4>1. call[c].addr \in Unix /\ files' = files \cup {call[c].addr.path}
          BY <1>0, <3>1 DEF CreateSocketFile
        <4> QED
          BY <1>0, <4>1 DEF Unix
      <3> QED
        BY <1>0, <1>1, <3>1 DEF BindUnixFails, HostRefuses, ConnectUnixFails
    <2>3. CallTypes'
      BY <1>f, <2>1, CallKept
    <2> QED
      BY <2>1, <2>2, <2>3, StillTypes
  <1>2. ASSUME NEW c \in Callers, BindUnixResume(c) PROVE Types'
    <2> DEFINE s == call[c].sock   a == call[c].addr
    <2>1. Register(s, a, FALSE) /\ call' = [call EXCEPT ![c] = Suspend("mkfile", s, a)] /\ files' = files
          /\ call[c].op = "bind"
      BY <1>2 DEF BindUnixResume
    <2>2. s \in 1 .. last /\ s \in Ids /\ a \in Unix /\ a \in Addrs
      BY <1>0, <2>1
    <2> HIDE DEF s, a
    <2>3. last' = last
      BY <2>1 DEF Register
    <2>4. CallTypes'
      BY <1>0, <1>f, <2>1, <2>2, <2>3, CallKept
    <2> QED
      BY <2>1, <2>2, <2>4, RegisterTypes
  <1>3. ASSUME NEW c \in Callers, AcceptResume(c) PROVE Types'
    <2> DEFINE s == call[c].sock
               left == RemoveFirst(sock[s].acceptors, c)
    <2>1. /\ call[c].op = "accept" /\ UNCHANGED <<live, last, listeners, files, pump, hostOpen>>
          /\ \/ sock' = [sock EXCEPT ![s].acceptors = left] /\ call' = [call EXCEPT ![c] = Idle]
             \/ TakeOrWait(c, s, left)
      BY <1>3 DEF AcceptResume
    <2>2. s \in 1 .. last /\ s \in Ids
      BY <1>0, <2>1
    <2>3. left \in Seq(Callers)
      <3>1. sock[s].acceptors \in Seq(Callers)
        BY <1>0, <2>2 DEF Socks
      <3> QED
        BY <3>1, RemoveEffect
    <2> HIDE DEF left, s
    <2>4. CASE TakeOrWait(c, s, left)
      BY <2>1, <2>2, <2>3, <2>4, TakeTypes
    <2>5. CASE sock' = [sock EXCEPT ![s].acceptors = left] /\ call' = [call EXCEPT ![c] = Idle]
      <3>1. sock' \in [Ids -> Socks] /\ Keeps(sock, sock', {"backlog", "limit"})
        BY <2>2, <2>3, <2>5, QueueEffect DEF Only, Keeps, Fields
      <3>2. CallTypes'
        BY <1>f, <2>1, <2>5, CallKept
      <3> QED
        BY <1>0, <2>1, <3>1, <3>2, FieldTypes
    <2> QED
      BY <2>1, <2>4, <2>5
  <1>4. ASSUME NEW c \in Callers, NEW n \in 1 .. MaxBytes, RecvResume(c, n) PROVE Types'
    <2> DEFINE s == call[c].sock
               left == RemoveFirst(sock[s].readers, c)
    <2>1. /\ call[c].op = "recv" /\ UNCHANGED <<live, last, listeners, files, pump, hostOpen>>
          /\ \/ sock' = [sock EXCEPT ![s].readers = left] /\ call' = [call EXCEPT ![c] = Idle]
             \/ ReadOrWait(c, s, left, n)
      BY <1>4 DEF RecvResume
    <2>2. s \in 1 .. last /\ s \in Ids
      BY <1>0, <2>1
    <2>3. left \in Seq(Callers)
      <3>1. sock[s].readers \in Seq(Callers)
        BY <1>0, <2>2 DEF Socks
      <3> QED
        BY <3>1, RemoveEffect
    <2> HIDE DEF left, s
    <2>4. CASE ReadOrWait(c, s, left, n)
      BY <2>1, <2>2, <2>3, <2>4, ReadTypes
    <2>5. CASE sock' = [sock EXCEPT ![s].readers = left] /\ call' = [call EXCEPT ![c] = Idle]
      <3>1. sock' \in [Ids -> Socks] /\ Keeps(sock, sock', {"backlog", "limit"})
        BY <2>2, <2>3, <2>5, QueueEffect DEF Only, Keeps, Fields
      <3>2. CallTypes'
        BY <1>f, <2>1, <2>5, CallKept
      <3> QED
        BY <1>0, <2>1, <3>1, <3>2, FieldTypes
    <2> QED
      BY <2>1, <2>4, <2>5
  <1>5. ASSUME NEW c \in Callers, ConnectUnixResume(c) PROVE Types'
    <2> DEFINE s == call[c].sock
               l == FindListener(call[c].addr)
    <2>1. /\ call[c].op = "connect" /\ l # None /\ Link(s, l) /\ files' = files
          /\ call' = [Settled(First(sock[l].acceptors), "socket") EXCEPT ![c] = Idle]
      BY <1>5 DEF ConnectUnixResume
    <2>2. s \in 1 .. last /\ l \in 1 .. last
      <3>1. call[c].addr \in Addrs
        BY <1>0, <2>1
      <3> QED
        BY <1>0, <2>1, <3>1, Names
    <2> HIDE DEF s, l
    <2>3. last' = last + 1
      BY <2>1 DEF Link
    <2>4. CallTypes'
      BY <2>1, <2>3, CallKept, Known DEF Types
    <2> QED
      BY <2>1, <2>2, <2>4, LinkTypes
  <1>6. ASSUME NEW s \in Ids, UNCHANGED <<live, last, listeners, files, pump>>, CallTypes',
               sock' = [sock EXCEPT ![s].state = "connected", ![s].host = "socket"],
               hostOpen' = [hostOpen EXCEPT ![s] = @ + 1]
        PROVE  Types'
    <2>1. Only(s, {"state", "host"})
      BY <1>6, HostEffect
    <2>2. sock' \in [Ids -> Socks] /\ Keeps(sock, sock', {"backlog", "limit"}) /\ hostOpen' \in [Ids -> Int]
      BY <1>0, <1>6, <2>1 DEF Only, Keeps, Fields
    <2> QED
      BY <1>6, <2>2, FieldTypes
  <1>7. ASSUME NEW c \in Callers, ConnectHostResume(c) PROVE Types'
    <2> DEFINE s == call[c].sock
    <2>1. /\ call[c].op = "connectHost" /\ UNCHANGED <<live, last, listeners, files, pump>>
          /\ sock' = [sock EXCEPT ![s].state = "connected", ![s].host = "socket"]
          /\ hostOpen' = [hostOpen EXCEPT ![s] = @ + 1] /\ call' = [call EXCEPT ![c] = Idle]
      BY <1>7 DEF ConnectHostResume
    <2>2. s \in Ids
      BY <1>0, <2>1
    <2>3. CallTypes'
      BY <1>f, <2>1, CallKept
    <2> HIDE DEF s
    <2> QED
      BY <1>6, <2>1, <2>2, <2>3
  <1>8. ASSUME NEW s \in Ids, ConnectDone(s) PROVE Types'
    <2>1. /\ UNCHANGED <<live, last, listeners, files, pump, call>>
          /\ \/ /\ sock' = [sock EXCEPT ![s].state = "connected", ![s].host = "socket"]
                /\ hostOpen' = [hostOpen EXCEPT ![s] = @ + 1]
             \/ sock' = [sock EXCEPT ![s].state = "created"] /\ hostOpen' = hostOpen
      BY <1>8 DEF ConnectDone
    <2>2. CallTypes'
      BY <1>f, <2>1, CallKept
    <2>3. CASE sock' = [sock EXCEPT ![s].state = "created"] /\ hostOpen' = hostOpen
      <3>1. "created" \in States
        BY DEF States
      <3>2. Only(s, {"state"})
        BY <2>3, <3>1, HostEffect
      <3>3. sock' \in [Ids -> Socks] /\ Keeps(sock, sock', {"backlog", "limit"})
        BY <3>2 DEF Only, Keeps, Fields
      <3> QED
        BY <1>0, <2>1, <2>2, <2>3, <3>3, FieldTypes
    <2> QED
      BY <1>6, <2>1, <2>2, <2>3
  <1>9. ASSUME NEW s \in Ids, HostConnects(s) PROVE Types'
    <2>1. /\ UNCHANGED <<sock, live, last, listeners, files, call, hostOpen>> /\ pump[s] = "waiting"
          /\ pump' = [pump EXCEPT ![s] = "got"]
      BY <1>9 DEF HostConnects
    <2>2. s \in 1 .. last
      BY <2>1 DEF Types, OtherTypes
    <2>3. CallTypes'
      BY <1>f, <2>1, CallKept
    <2> QED
      BY <1>0, <2>1, <2>2, <2>3, StillTypes
  <1>10. ASSUME NEW s \in Ids, PumpDrops(s) PROVE Types'
    <2> DEFINE v == IF Full(s) THEN PumpAgain(s) ELSE "off"
    <2>1. /\ UNCHANGED <<sock, live, last, listeners, files, call, hostOpen>> /\ pump[s] = "got"
          /\ pump' = [pump EXCEPT ![s] = v]
      BY <1>10 DEF PumpDrops
    <2>2. s \in 1 .. last /\ v \in {"off", "waiting", "got"}
      BY <2>1 DEF Types, OtherTypes, PumpAgain
    <2>3. CallTypes'
      BY <1>f, <2>1, CallKept
    <2> HIDE DEF v
    <2> QED
      BY <1>0, <2>1, <2>2, <2>3, StillTypes
  <1>11. ASSUME NEW s \in Ids, HostWriteFails(s) \/ HostEnds(s) PROVE Types'
    <2>1. /\ UNCHANGED <<live, last, listeners, files, pump, hostOpen>>
          /\ call' = Settled(Range(sock[s].readers), "socket")
          /\ \/ sock' = [sock EXCEPT ![s].state = "closed", ![s].readers = <<>>]
             \/ sock' = [sock EXCEPT ![s].peerWriteClosed = TRUE, ![s].readers = <<>>]
      BY <1>11 DEF HostWriteFails, HostEnds
    <2>2. Only(s, {"state", "readers"}) \/ Only(s, {"peerWriteClosed", "readers"})
      BY <2>1, HostEffect
    <2>3. CallTypes'
      BY <1>f, <2>1, CallKept
    <2>4. sock' \in [Ids -> Socks] /\ Keeps(sock, sock', {"backlog", "limit"})
      BY <2>2 DEF Only, Keeps, Fields
    <2> QED
      BY <1>0, <2>1, <2>3, <2>4, FieldTypes
  <1>12. ASSUME NEW s \in Ids, NEW n \in 1 .. MaxBytes, HostData(s, n) PROVE Types'
    <2>1. /\ UNCHANGED <<live, last, listeners, files, pump, hostOpen>>
          /\ sock' = [sock EXCEPT ![s].buf = @ + n, ![s].readers = Rest(@)]
          /\ call' = Settled(First(sock[s].readers), "socket")
      BY <1>12 DEF HostData
    <2>2. Only(s, {"buf", "readers"})
      <3>1. n \in Nat
        OBVIOUS
      <3> QED
        BY ONLY Types, s \in Ids, <2>1, <3>1, HostEffect
    <2>3. CallTypes'
      BY <1>f, <2>1, CallKept
    <2>4. sock' \in [Ids -> Socks] /\ Keeps(sock, sock', {"backlog", "limit"})
      BY <2>2 DEF Only, Keeps, Fields
    <2> QED
      BY <1>0, <2>1, <2>3, <2>4, FieldTypes
  <1>13. ASSUME NEW p \in Pids, Signal(p) PROVE Types'
    <2>1. UNCHANGED <<sock, live, last, listeners, files, pump, hostOpen>>
          /\ \E hit : call' = Settled(hit, "signal")
      BY <1>13 DEF Signal
    <2>2. CallTypes'
      BY <1>f, <2>1, CallKept
    <2> QED
      BY <1>0, <2>1, <2>2, StillTypes
  <1> QED
    BY <1>1, <1>2, <1>3, <1>4, <1>5, <1>7, <1>8, <1>9, <1>10, <1>11, <1>12, <1>13, PumpAcceptsTypes,
       ListenResumeTypes DEF Progress

\* The sockets a run starts with.
Starting(a) ==
    /\ live \subseteq 1 .. last /\ last \in Nat /\ sock \in [Ids -> Socks]
    /\ \A s \in Ids :
         /\ sock[s].peer = None /\ sock[s].host = "none" /\ sock[s].backlog = <<>>
         /\ sock[s].readers = <<>> /\ sock[s].acceptors = <<>> /\ sock[s].limit \in {0, BacklogSize}
         /\ s \in live => sock[s].given = TRUE
         /\ s \in live /\ s # 1 => sock[s].state = "created"
         /\ s \in live /\ s = 1 => sock[s].state = "listening" /\ sock[s].local = a
    /\ listeners = [x \in Addrs |-> IF x = a /\ live # {} THEN 1 ELSE None]
    /\ live # {} => 1 \in live /\ 1 \in Ids

LEMMA Start ==
    ASSUME Init
    PROVE  \E a \in Inet : Starting(a)
  <1>1. PICK a \in Inet :
          /\ sock = [s \in Ids |->
               IF s \notin live THEN NoSock
               ELSE LET new == [Created(Owners[s], "created") EXCEPT !.given = TRUE] IN
                    IF s = 1
                    THEN [new EXCEPT !.state = "listening", !.local = a, !.limit = BacklogSize]
                    ELSE new]
          /\ listeners = [x \in Addrs |-> IF x = a /\ live # {} THEN 1 ELSE None]
    BY DEF Init
  <1>2. last = Len(Owners) /\ live = 1 .. Len(Owners) /\ Owners \in Seq(Pids) /\ Len(Owners) \in Nat
        /\ Len(Owners) <= MaxSockets /\ MaxSockets <= MaxId /\ MaxSockets \in Nat /\ MaxId \in Nat
        /\ BacklogSize \in Nat
    <2>1. last = Len(Owners) /\ live = DOMAIN Owners /\ Owners \in Seq(Pids)
      BY SocketAssumption DEF Init
    <2>2. DOMAIN Owners = 1 .. Len(Owners) /\ Len(Owners) \in Nat
      BY <2>1
    <2> QED
      BY <2>1, <2>2, SocketAssumption
  <1>3. live \subseteq 1 .. last /\ last \in Nat /\ live \subseteq Ids /\ (live # {} => 1 \in live /\ 1 \in Ids)
    BY ONLY <1>2 DEF Ids
  <1> DEFINE new(s) == [Created(Owners[s], "created") EXCEPT !.given = TRUE]
             first(s) == [new(s) EXCEPT !.state = "listening", !.local = a, !.limit = BacklogSize]
  <1>4. NoSock \in Socks
    BY EmptySeq DEF NoSock, Socks, States
  <1>5. ASSUME NEW s \in live PROVE new(s) \in Socks
    <2>1. Owners[s] \in Pids
      BY <1>2
    <2>2. "created" \in States /\ None \in Addrs \cup {None} /\ s \in Ids
      BY <1>3 DEF States
    <2> QED
      BY <2>1, <2>2, NewSocks DEF IsNew
  <1>6. ASSUME NEW s \in live PROVE first(s) \in Socks
    <2>1. \A r \in Socks : [r EXCEPT !.state = "listening", !.local = a, !.limit = BacklogSize] \in Socks
      BY <1>2 DEF Socks, States, Addrs
    <2> HIDE DEF new
    <2> QED
      BY <1>5, <2>1
  <1>7. \A s \in Ids : sock[s] = IF s \notin live THEN NoSock ELSE IF s = 1 THEN first(s) ELSE new(s)
    BY <1>1
  <1>8. /\ NoSock.peer = None /\ NoSock.host = "none" /\ NoSock.backlog = <<>>
        /\ NoSock.readers = <<>> /\ NoSock.acceptors = <<>> /\ NoSock.limit = 0
    BY DEF NoSock
  <1>9. ASSUME NEW s \in live
        PROVE  /\ new(s).peer = None /\ new(s).host = "none" /\ new(s).backlog = <<>>
               /\ new(s).readers = <<>> /\ new(s).acceptors = <<>> /\ new(s).limit = 0
               /\ new(s).given = TRUE /\ new(s).state = "created"
    BY DEF Created, NoSock
  <1>10. ASSUME NEW s \in live
         PROVE  /\ first(s).peer = None /\ first(s).host = "none" /\ first(s).backlog = <<>>
                /\ first(s).readers = <<>> /\ first(s).acceptors = <<>> /\ first(s).limit = BacklogSize
                /\ first(s).given = TRUE /\ first(s).state = "listening" /\ first(s).local = a
    BY DEF Created, NoSock
  <1>s. sock = [s \in Ids |-> sock[s]]
    BY <1>1
  <1> HIDE DEF new, first
  <1>11. sock \in [Ids -> Socks]
    <2>1. \A s \in Ids : sock[s] \in Socks
      BY <1>4, <1>5, <1>6, <1>7
    <2> QED
      BY <1>s, <2>1
  <1>12. ASSUME NEW s \in Ids
         PROVE  /\ sock[s].peer = None /\ sock[s].host = "none" /\ sock[s].backlog = <<>>
                /\ sock[s].readers = <<>> /\ sock[s].acceptors = <<>> /\ sock[s].limit \in {0, BacklogSize}
                /\ s \in live => sock[s].given = TRUE
                /\ s \in live /\ s # 1 => sock[s].state = "created"
                /\ s \in live /\ s = 1 => sock[s].state = "listening" /\ sock[s].local = a
    <2>1. CASE s \notin live
      BY <1>7, <1>8, <2>1
    <2>2. CASE s \in live /\ s = 1
      BY <1>7, <1>10, <2>2
    <2>3. CASE s \in live /\ s # 1
      BY <1>7, <1>9, <2>3
    <2> QED
      BY <2>1, <2>2, <2>3
  <1> QED
    <2>1. Starting(a)
      BY ONLY <1>1, <1>3, <1>11, <1>12 DEF Starting
    <2> QED
      BY <2>1

LEMMA StartTypes ==
    ASSUME Init
    PROVE  Types
  <1>1. PICK a \in Inet : Starting(a)
    BY Start
  <1>2. SocketAssumption
    BY SocketAssumption
  <1>3. TableTypes
    <2>1. last = Len(Owners) /\ live = 1 .. Len(Owners) /\ Len(Owners) \in Nat
      <3>1. Owners \in Seq(Pids) /\ last = Len(Owners) /\ live = DOMAIN Owners
        BY SocketAssumption DEF Init
      <3> QED
        BY <3>1
    <2>2. Cardinality(1 .. Len(Owners)) = Len(Owners)
      <3> DEFINE n == Len(Owners)
      <3>1. n \in Nat /\ 1 \in Int /\ n \in Int
        BY <2>1
      <3> HIDE DEF n
      <3>2. Cardinality(1 .. n) = IF 1 > n THEN 0 ELSE n - 1 + 1
        BY ONLY <3>1, FS_Interval
      <3>3. Cardinality(1 .. n) = n
        BY ONLY <3>1, <3>2
      <3> QED
        BY <3>3 DEF n
    <2> QED
      BY <2>1, <2>2, SocketAssumption DEF TableTypes
  <1>4. SockTypes
    <2>1. /\ sock \in [Ids -> Socks] /\ BacklogSize \in Nat
          /\ \A s \in Ids : sock[s].backlog = <<>> /\ sock[s].limit \in {0, BacklogSize}
      BY <1>1, SocketAssumption DEF Starting
    <2>2. Len(<<>>) = 0 /\ Range(<<>>) = {}
      BY DEF Range
    <2> QED
      BY <2>1, <2>2 DEF SockTypes
  <1>5. CallTypes
    <2>1. call = [c \in Callers |-> Idle] /\ Idle \in CallRecs /\ Idle.op = "idle"
      BY DEF Init, Idle, CallRecs, Ops, Wins
    <2> QED
      BY <2>1 DEF CallTypes
  <1>6. OtherTypes
    <2>1. listeners \in [Addrs -> Ids \cup {None}]
      BY <1>1 DEF Starting
    <2>2. files = {} /\ pump = [s \in Ids |-> "off"] /\ hostOpen = [s \in Ids |-> 0]
      BY DEF Init
    <2> QED
      BY <2>1, <2>2 DEF OtherTypes
  <1> QED
    BY <1>3, <1>4, <1>5, <1>6 DEF Types

LEMMA TypesKept ==
    ASSUME Types, [Next]_vars
    PROVE  Types'
  <1>1. CASE Next
    BY <1>1, CallStepTypes, ProgressTypes DEF Next
  <1>2. CASE UNCHANGED vars
    BY <1>2 DEF vars, Types, TableTypes, SockTypes, CallTypes, OtherTypes
  <1> QED
    BY <1>1, <1>2

LEMMA TypesHold == Spec => []Types
  <1>1. Init => Types
    BY StartTypes
  <1>2. Types /\ [Next]_vars => Types'
    BY TypesKept
  <1> QED
    BY <1>1, <1>2, PTL DEF Spec

\* The limits of the table hold always, after whatever a resumed call does: no
\* backlog outgrows the argument of listen(), whether connect() or the accept
\* pump fills it, and create() never lets the table grow past maxSockets.
THEOREM LimitsKept == Spec => []TypeOK
  <1>1. Types => TypeOK
    <2> SUFFICES ASSUME Types PROVE TypeOK
      OBVIOUS
    <2>1. live \subseteq 1 .. last /\ last \in 0 .. MaxId /\ Cardinality(live) <= MaxSockets
      BY DEF Types, TableTypes
    <2>2. ASSUME NEW s \in Ids
          PROVE  /\ sock[s].state \in States
                 /\ sock[s].local \in Addrs \cup {None} /\ sock[s].peer \in Ids \cup {None}
                 /\ Len(sock[s].backlog) <= sock[s].limit
                 /\ Range(sock[s].readers) \cup Range(sock[s].acceptors) \subseteq Callers
      <3>1. sock[s] \in Socks /\ Len(sock[s].backlog) <= sock[s].limit
        BY DEF Types, SockTypes
      <3>2. sock[s].readers \in Seq(Callers) /\ sock[s].acceptors \in Seq(Callers)
        BY <3>1 DEF Socks
      <3>3. \A q \in Seq(Callers) : Range(q) \subseteq Callers
        BY DEF Range
      <3>4. sock[s].state \in States /\ sock[s].local \in Addrs \cup {None} /\ sock[s].peer \in Ids \cup {None}
        BY <3>1 DEF Socks
      <3> QED
        BY <3>1, <3>2, <3>3, <3>4
    <2>3. \A c \in Callers : call[c].win \in {"none", "socket", "signal"}
      BY DEF Types, CallTypes, CallRecs, Wins
    <2>4. /\ listeners \in [Addrs -> Ids \cup {None}] /\ files \subseteq Paths
          /\ pump \in [Ids -> {"off", "waiting", "got"}]
      BY DEF Types, OtherTypes
    <2> QED
      BY <2>1, <2>2, <2>3, <2>4 DEF TypeOK
  <1> QED
    BY <1>1, TypesHold, PTL

----------------------------------------------------------------------------
(* Kinds of steps, until one goes astray *)

\* States in which a socket has no connection yet.
Early == {"created", "bound", "listening", "connecting"}

\* What links, registrations, connections and host handles depend on.
Core == {"state", "local", "peer", "backlog", "host", "given"}

\* No socket is created or dropped, and T says which fields of which sockets change.
Within(T, F) ==
    /\ T \in [Ids -> Socks] /\ Keeps(sock, T, Core \ F) /\ live' = live

\* Buffers, queues, calls and files change, or a pump stops.
Calm ==
    /\ Within(sock', {}) /\ UNCHANGED <<listeners, hostOpen, displaced, stale>>
    /\ \A s \in Ids : pump'[s] # "off" => pump[s] # "off"

\* Not what a failed socketpair left in the table.
Owns(s) == sock[s].given \/ sock[s].state # "created"

\* create and socketpair, which may fail at its second socket
Creates(n) ==
    /\ n \in Ids /\ n = last + 1 /\ live' = live \cup {n}
    /\ sock' \in [Ids -> Socks] /\ \A x \in Ids \ {n} : sock'[x] = sock[x]
    /\ IsNew(sock'[n], "created") /\ sock'[n].peer = None /\ sock'[n].host = "none"
    /\ UNCHANGED <<listeners, pump, hostOpen, displaced, stale>>

Pairs(a, b) ==
    /\ a \in Ids /\ b \in Ids /\ a = last + 1 /\ b = last + 2 /\ a # b /\ live' = live \cup {a, b}
    /\ sock' \in [Ids -> Socks] /\ \A x \in Ids \ {a, b} : sock'[x] = sock[x]
    /\ IsNew(sock'[a], "connected") /\ sock'[a].peer = b /\ sock'[a].host = "none" /\ sock'[a].given
    /\ IsNew(sock'[b], "connected") /\ sock'[b].peer = a /\ sock'[b].host = "none" /\ sock'[b].given
    /\ UNCHANGED <<listeners, pump, hostOpen, displaced, stale>>

\* bind of a socket that is in the table and unbound
Registers(s, a) ==
    /\ s \in live /\ s \in Ids /\ a \in Addrs /\ sock[s].state = "created" /\ Owns(s)
    /\ stale' = stale \cup {k \in Addrs \ {a} : listeners[k] = s}
    /\ Within(sock', {"state", "local"}) /\ \A x \in Ids \ {s} : sock'[x] = sock[x]
    /\ sock'[s].state = "bound" /\ sock'[s].local = a
    /\ listeners' = [listeners EXCEPT ![a] = s] /\ displaced' = displaced \cup ({listeners[a]} \ {None, s})
    /\ UNCHANGED <<pump, hostOpen>>

\* listen without the host, or its first half
Listens(s) ==
    /\ s \in live /\ s \in Ids /\ sock[s].state = "bound" /\ sock'[s].state \in {"bound", "listening"}
    /\ Within(sock', {"state"}) /\ \A x \in Ids \ {s} : sock'[x] = sock[x]
    /\ UNCHANGED <<listeners, pump, hostOpen, displaced, stale>>

\* listen through the host after its await
Relistens(s) ==
    /\ s \in live /\ s \in Ids /\ sock[s].state = "bound"
    /\ sock'[s].state = "listening" /\ sock'[s].host = "listener"
    /\ Within(sock', {"state", "local", "host"}) /\ \A x \in Ids \ {s} : sock'[x] = sock[x]
    /\ hostOpen' = [hostOpen EXCEPT ![s] = @ + 1] /\ pump' = [pump EXCEPT ![s] = "waiting"] /\ stale' = stale
    /\ \/ /\ sock'[s].local = sock[s].local /\ listeners' = listeners
          /\ displaced' = displaced \cup ({listeners[sock[s].local]} \ {None, s})
       \/ /\ sock[s].local \in Addrs /\ sock'[s].local \in Addrs
          /\ listeners' = [listeners EXCEPT ![sock[s].local] = None, ![sock'[s].local] = s]
          /\ displaced' = displaced \cup ({listeners[sock[s].local], listeners[sock'[s].local]} \ {None, s})

\* connect to a kernel listener
Links(s, l) ==
    /\ Linked(s, l, last + 1) /\ live' = live \cup {last + 1}
    /\ s \in live /\ sock[s].state \in {"created", "bound"} /\ Owns(s) /\ l \in live /\ sock[l].state = "listening"
    /\ UNCHANGED <<listeners, pump, hostOpen, displaced, stale>>

\* the accept pump queues a connection
Pumps(s) ==
    /\ Pumped(s, last + 1) /\ live' = live \cup {last + 1} /\ s \in live
    /\ hostOpen' = [hostOpen EXCEPT ![last + 1] = 1] /\ UNCHANGED <<listeners, displaced, stale>>
    /\ \A x \in Ids : pump'[x] # "off" => pump[x] # "off"

\* accept takes the first connection of a backlog
Takes(s) ==
    /\ s \in Ids /\ sock[s].backlog # <<>> /\ Head(sock[s].backlog) \in Ids
    /\ Within(sock', {"backlog", "given"})
    /\ \A x \in Ids : /\ x # s => sock'[x].backlog = sock[x].backlog
                      /\ x # Head(sock[s].backlog) => sock'[x].given = sock[x].given
    /\ sock'[s].backlog = Tail(sock[s].backlog) /\ sock'[Head(sock[s].backlog)].given = TRUE
    /\ UNCHANGED <<listeners, pump, hostOpen, displaced, stale>>

\* a non-blocking connect through the host starts, or fails
Switches(s) ==
    /\ s \in live /\ s \in Ids /\ sock[s].state \in {"created", "bound", "connecting"} /\ Owns(s)
    /\ Within(sock', {"state"}) /\ \A x \in Ids \ {s} : sock'[x] = sock[x]
    /\ sock'[s].state \in {"created", "connecting"}
    /\ UNCHANGED <<listeners, pump, hostOpen, displaced, stale>>

\* a connect through the host succeeds
Attaches(s) ==
    /\ s \in live /\ s \in Ids /\ sock[s].state \in {"created", "bound", "connecting"} /\ Owns(s)
    /\ Within(sock', {"state", "host"}) /\ \A x \in Ids \ {s} : sock'[x] = sock[x]
    /\ sock'[s].state = "connected" /\ sock'[s].host = "socket"
    /\ hostOpen' = [hostOpen EXCEPT ![s] = @ + 1] /\ UNCHANGED <<listeners, pump, displaced, stale>>

\* shutdown, or a failed write to the host
Closes(s) ==
    /\ s \in live /\ s \in Ids /\ (sock[s].host = "socket" \/ sock[s].state \notin Early)
    /\ Within(sock', {"state"}) /\ \A x \in Ids \ {s} : sock'[x].state = sock[x].state
    /\ sock'[s].state \in {"read-closed", "write-closed", "closed"}
    /\ UNCHANGED <<listeners, pump, hostOpen, displaced, stale>>

Destroys(closing) == closing \in SUBSET live /\ Destroy(closing)

Kinds ==
    \/ Calm \/ DisposeAll
    \/ \E n \in Ids : Creates(n)
    \/ \E a, b \in Ids : Pairs(a, b)
    \/ \E s \in Ids : \E a \in Addrs : Registers(s, a)
    \/ \E s \in Ids : \/ Listens(s) \/ Relistens(s) \/ Pumps(s) \/ Takes(s) \/ Switches(s) \/ Attaches(s)
                      \/ Closes(s)
    \/ \E s, l \in Ids : Links(s, l)
    \/ \E closing \in SUBSET live : Destroys(closing)

\* Fields of a socket, by name.
LEMMA Within1 ==
    ASSUME NEW s \in Ids, NEW F, Only(s, F), live' = live
    PROVE  Within(sock', F) /\ \A x \in Ids \ {s} : sock'[x] = sock[x]
  BY DEF Only, Within, Keeps, Fields, Core

LEMMA StillCalm ==
    ASSUME Types, UNCHANGED <<sock, live, listeners, hostOpen, displaced, stale>>,
           \A s \in Ids : pump'[s] # "off" => pump[s] # "off"
    PROVE  Calm
  BY DEF Types, SockTypes, Calm, Within, Keeps

\* Steps that change buffers and queues.
LEMMA QueueCalm ==
    ASSUME Types, sock' \in [Ids -> Socks], UNCHANGED <<live, listeners, hostOpen, displaced, stale, pump>>,
           Keeps(sock, sock', Fields \ {"buf", "readers", "acceptors", "peerWriteClosed"})
    PROVE  Calm
  BY DEF Calm, Within, Keeps, Core, Fields

LEMMA ReadCalm ==
    ASSUME Types, NEW c \in Callers, NEW s \in Ids, NEW queue \in Seq(Callers), NEW n \in Nat,
           ReadOrWait(c, s, queue, n), UNCHANGED <<live, listeners, pump, hostOpen, displaced, stale>>
    PROVE  Calm
  <1>1. Only(s, {"buf", "readers"})
    BY ReadOrWaitEffect
  <1> QED
    BY <1>1, QueueCalm DEF Only, Keeps

LEMMA TakeKind ==
    ASSUME Types, NEW c \in Callers, NEW s \in Ids, NEW queue \in Seq(Callers),
           TakeOrWait(c, s, queue), UNCHANGED <<live, listeners, pump, hostOpen, displaced, stale>>
    PROVE  Calm \/ Takes(s)
  <1>1. CASE sock[s].backlog # <<>>
    <2>1. /\ Head(sock[s].backlog) \in Ids
          /\ sock' \in [Ids -> Socks] /\ Keeps(sock, sock', Fields \ {"backlog", "acceptors", "given"})
          /\ \A x \in Ids : /\ x # s => sock'[x].backlog = sock[x].backlog
                            /\ x # Head(sock[s].backlog) => sock'[x].given = sock[x].given
          /\ sock'[s].backlog = Tail(sock[s].backlog) /\ sock'[Head(sock[s].backlog)].given = TRUE
      BY <1>1, TakeOrWaitEffect
    <2>2. Within(sock', {"backlog", "given"})
      BY <2>1 DEF Within, Keeps, Core, Fields
    <2> QED
      BY <1>1, <2>1, <2>2 DEF Takes
  <1>2. CASE sock[s].backlog = <<>>
    <2>1. Only(s, {"acceptors"})
      BY <1>2, TakeOrWaitEffect
    <2> QED
      BY <2>1, QueueCalm DEF Only, Keeps
  <1> QED
    BY <1>1, <1>2

LEMMA RegisterKind ==
    ASSUME Types, NEW s \in Ids, NEW a \in Addrs, NEW e \in BOOLEAN, Register(s, a, e), ~astray',
           s \in live => Owns(s)
    PROVE  ~astray /\ Registers(s, a)
  <1>1. Only(s, {"local", "state", "ephemeral"}) /\ sock'[s].state = "bound" /\ sock'[s].local = a
    BY RegisterEffect
  <1>2. /\ listeners' = [listeners EXCEPT ![a] = s] /\ displaced' = displaced \cup ({listeners[a]} \ {None, s})
        /\ UNCHANGED <<live, pump, hostOpen>> /\ stale' = stale \cup {k \in Addrs \ {a} : listeners[k] = s}
        /\ astray' = (astray \/ s \notin live \/ sock[s].state # "created")
    BY DEF Register
  <1>3. ~astray /\ s \in live /\ sock[s].state = "created" /\ Owns(s)
    BY <1>2
  <1>4. Within(sock', {"state", "local"}) /\ \A x \in Ids \ {s} : sock'[x] = sock[x]
    BY <1>1, <1>2 DEF Only, Within, Keeps, Fields, Core
  <1> QED
    BY <1>1, <1>2, <1>3, <1>4 DEF Registers

LEMMA LinkKind ==
    ASSUME Types, NEW s \in 1 .. last, NEW l \in live, sock[l].state = "listening", Link(s, l), ~astray',
           s \in live => Owns(s)
    PROVE  ~astray /\ Links(s, l)
  <1>1. l \in 1 .. last
    BY DEF Types, TableTypes
  <1>2. Linked(s, l, last + 1)
    BY <1>1, LinkEffect
  <1>3. /\ live' = live \cup {last + 1} /\ UNCHANGED <<listeners, pump, hostOpen, displaced, stale>>
        /\ astray' = (astray \/ s \notin live \/ sock[s].state \notin {"created", "bound"})
    BY DEF Link
  <1> QED
    BY <1>2, <1>3 DEF Links

\* Calls are made on sockets whose id somebody has: what a failed socketpair left gets none.
Asked == \A c \in Callers : call[c].op # "idle" /\ call[c].sock \in live => sock[call[c].sock].given

LEMMA CallKinds ==
    ASSUME Types, Call, ~astray'
    PROVE  ~astray /\ Kinds
  <1> USE DEF history
  <1>0. /\ \A s \in live : s \in 1 .. last /\ s \in Ids
        /\ sock \in [Ids -> Socks] /\ Inet \subseteq Addrs
    BY Names DEF Types, SockTypes, Addrs
  <1>1. ASSUME NEW p \in Pids, Create(p) PROVE ~astray /\ Kinds
    <2>1. last' = last + 1 /\ live' = live \cup {last + 1} /\ astray' = astray
          /\ UNCHANGED <<listeners, pump, hostOpen, displaced, stale>>
      BY <1>1 DEF Create
    <2>2. Creates(last')
      BY <1>1, <2>1, CreateEffect DEF Creates
    <2> QED
      BY <2>1, <2>2 DEF Kinds, Creates
  <1>a. ASSUME NEW p \in Pids, SocketpairFails(p) PROVE ~astray /\ Kinds
    <2>1. last' = last + 1 /\ live' = live \cup {last + 1} /\ astray' = astray
          /\ UNCHANGED <<listeners, pump, hostOpen, displaced, stale>>
      BY <1>a DEF SocketpairFails
    <2>2. Creates(last')
      BY <1>a, <2>1, SocketpairFailsEffect DEF Creates
    <2> QED
      BY <2>1, <2>2 DEF Kinds, Creates
  <1>2. ASSUME NEW p \in Pids, Socketpair(p) PROVE ~astray /\ Kinds
    <2> DEFINE a == last + 1   b == last + 2
    <2>1. live' = live \cup {a, b} /\ astray' = astray /\ UNCHANGED <<listeners, pump, hostOpen, displaced, stale>>
      BY <1>2 DEF Socketpair
    <2>2. a = last + 1 /\ b = last + 2
      OBVIOUS
    <2> HIDE DEF a, b
    <2>3. Pairs(a, b)
      BY <1>2, <2>1, <2>2, SocketpairEffect DEF Pairs
    <2> QED
      BY <2>1, <2>3 DEF Kinds, Pairs
  <1>3. ASSUME NEW closing \in SUBSET live, Destroy(closing) PROVE ~astray /\ Kinds
    <2>1. astray' = astray
      BY <1>3 DEF Destroy
    <2> QED
      BY <1>3, <2>1 DEF Kinds, Destroys
  <1>4. ASSUME DisposeAll PROVE ~astray /\ Kinds
    <2>1. astray' = astray
      BY <1>4 DEF DisposeAll
    <2> QED
      BY <1>4, <2>1 DEF Kinds
  <1>5. ASSUME NEW s \in live, Listen(s) \/ \E c \in Callers : ListenHost(c, s) PROVE ~astray /\ Kinds
    <2>1. UNCHANGED <<live, listeners, pump, hostOpen, displaced, stale>> /\ astray' = astray /\ sock[s].state = "bound"
      BY <1>5 DEF Listen, ListenHost
    <2>2. \/ Only(s, {"state", "limit"}) /\ sock'[s].state = "listening"
          \/ Only(s, {"limit"})
      BY <1>0, <1>5, ListenEffect
    <2>3. Within(sock', {"state"}) /\ \A x \in Ids \ {s} : sock'[x] = sock[x]
      BY <2>1, <2>2 DEF Only, Within, Keeps, Core, Fields
    <2>4. sock'[s].state \in {"bound", "listening"}
      BY <1>0, <2>1, <2>2 DEF Only, Keeps, Fields
    <2>5. Listens(s)
      BY <1>0, <2>1, <2>3, <2>4 DEF Listens
    <2> QED
      BY <1>0, <2>1, <2>5 DEF Kinds
  <1>6. ASSUME NEW s \in live, NEW n \in 1 .. MaxBytes, Send(s, n) PROVE ~astray /\ Kinds
    <2> DEFINE p == sock[s].peer
    <2>1. /\ UNCHANGED <<live, listeners, pump, hostOpen, displaced, stale>> /\ astray' = astray /\ p \in live
          /\ sock' = [sock EXCEPT ![p].buf = @ + n, ![p].readers = Rest(@)]
      BY <1>6 DEF Send
    <2> HIDE DEF p
    <2>2. Only(p, {"buf", "readers"})
      <3>1. n \in Nat /\ p \in Ids
        BY <1>0, <2>1
      <3> QED
        BY ONLY Types, <2>1, <3>1, HostEffect
    <2>3. Calm
      BY <2>1, <2>2, QueueCalm DEF Only, Keeps
    <2> QED
      BY <2>1, <2>3 DEF Kinds
  <1>7. ASSUME NEW s \in live, NEW how \in {"read", "write", "both"}, Shutdown(s, how) PROVE ~astray /\ Kinds
    <2>1. UNCHANGED <<live, listeners, pump, hostOpen, displaced, stale>> /\ astray' = astray
      BY <1>7 DEF Shutdown
    <2>2. /\ sock' \in [Ids -> Socks]
          /\ Keeps(sock, sock', Fields \ {"state", "buf", "readers", "peerWriteClosed"})
          /\ sock[s].state \in {"connected", "write-closed", "read-closed"}
          /\ sock'[s].state \in {"read-closed", "write-closed", "closed"}
          /\ \A x \in Ids \ {s} : sock'[x].state = sock[x].state
      BY <1>7, ShutdownEffect
    <2>3. Within(sock', {"state"})
      BY <2>1, <2>2 DEF Within, Keeps, Core, Fields
    <2>4. sock[s].state \notin Early
      BY <2>2 DEF Early
    <2>5. Closes(s)
      BY <1>0, <2>1, <2>2, <2>3, <2>4 DEF Closes
    <2> QED
      BY <1>0, <2>1, <2>5 DEF Kinds
  <1>8. ASSUME NEW s \in live, NEW a \in Inet, ConnectInet(s, a) PROVE ~astray /\ Kinds
    <2> DEFINE l == FindListener(a)
    <2>1. l # None /\ Link(s, l) /\ Owns(s)
      BY <1>8 DEF ConnectInet, CanConnect, Usable, Owns
    <2>2. l \in live /\ sock[l].state = "listening"
      BY <1>0, <2>1, Names
    <2> HIDE DEF l
    <2>3. ~astray /\ Links(s, l)
      BY <1>0, <2>1, <2>2, LinkKind
    <2> QED
      BY <1>0, <2>2, <2>3 DEF Kinds
  <1>9. ASSUME NEW s \in live, NEW a \in Inet, ConnectStart(s, a) PROVE ~astray /\ Kinds
    <2>1. /\ UNCHANGED <<live, listeners, pump, hostOpen, displaced, stale>> /\ astray' = astray
          /\ sock' = [sock EXCEPT ![s].state = "connecting"] /\ "connecting" \in States
          /\ sock[s].state \in {"created", "bound"} /\ Owns(s)
      BY <1>9 DEF ConnectStart, CanConnect, States, Usable, Owns
    <2>2. Only(s, {"state"}) /\ sock'[s].state = "connecting"
      BY ONLY Types, <1>0, <2>1, HostEffect
    <2>3. Within(sock', {"state"}) /\ \A x \in Ids \ {s} : sock'[x] = sock[x]
      BY <1>0, <2>1, <2>2, Within1
    <2>4. Switches(s)
      BY <1>0, <2>1, <2>2, <2>3 DEF Switches
    <2> QED
      BY <1>0, <2>1, <2>4 DEF Kinds
  <1>10. ASSUME NEW s \in live, NEW reuse \in BOOLEAN,
                (\E a \in Inet : BindInet(s, a, reuse)) \/ (\E h \in Hosts : BindEphemeral(s, h, reuse))
         PROVE  ~astray /\ Kinds
    <2>1. ASSUME NEW h \in Hosts, NEW p \in Ports PROVE [host |-> h, port |-> p] \in Inet
      BY DEF Inet
    <2>2. Owns(s) /\ \E a \in Inet : \E e \in BOOLEAN : Register(s, a, e)
      BY <1>10, <2>1 DEF BindInet, BindEphemeral, Ephemeral, Usable, Owns
    <2>3. ~astray /\ \E a \in Addrs : Registers(s, a)
      BY <1>0, <2>2, RegisterKind
    <2> QED
      BY <1>0, <2>3 DEF Kinds
  <1>11. ASSUME NEW c \in Callers, NEW s \in live, Accept(c, s) PROVE ~astray /\ Kinds
    <2>1. /\ TakeOrWait(c, s, sock[s].acceptors) /\ astray' = astray
          /\ UNCHANGED <<live, listeners, pump, hostOpen, displaced, stale>>
      BY <1>11 DEF Accept
    <2>2. sock[s].acceptors \in Seq(Callers)
      BY <1>0 DEF Socks
    <2>3. Calm \/ Takes(s)
      BY <1>0, <2>1, <2>2, TakeKind
    <2> QED
      BY <1>0, <2>1, <2>3 DEF Kinds
  <1>12. ASSUME NEW c \in Callers, NEW s \in live, NEW n \in 1 .. MaxBytes, Recv(c, s, n) PROVE ~astray /\ Kinds
    <2>1. /\ ReadOrWait(c, s, sock[s].readers, n) /\ astray' = astray
          /\ UNCHANGED <<live, listeners, pump, hostOpen, displaced, stale>>
      BY <1>12 DEF Recv
    <2>2. sock[s].readers \in Seq(Callers) /\ n \in Nat
      BY <1>0 DEF Socks
    <2>3. Calm
      BY <1>0, <2>1, <2>2, ReadCalm
    <2> QED
      BY <2>1, <2>3 DEF Kinds
  <1>13. ASSUME NEW c \in Callers, NEW s \in live,
                \/ \E a \in Unix : BindUnix(c, s, a) \/ ConnectUnix(c, s, a)
                \/ \E a \in Inet : ConnectHost(c, s, a)
         PROVE  ~astray /\ Kinds
    <2>1. UNCHANGED <<sock, live, listeners, pump, hostOpen, displaced, stale>> /\ astray' = astray
      BY <1>13 DEF BindUnix, ConnectUnix, ConnectHost
    <2> QED
      BY <2>1, StillCalm DEF Kinds
  <1>14. ASSUME NEW p \in Pids, CloseAllForProcess(p) PROVE ~astray /\ Kinds
    BY <1>3, <1>14 DEF CloseAllForProcess
  <1>15. ASSUME NEW s \in live, Close(s) PROVE ~astray /\ Kinds
    BY <1>3, <1>15 DEF Close
  <1> QED
    BY <1>1, <1>a, <1>2, <1>4, <1>5, <1>6, <1>7, <1>8, <1>9, <1>10, <1>11, <1>12, <1>13, <1>14, <1>15 DEF Call

LEMMA ProgressKinds ==
    ASSUME Types, ~astray => Asked, Progress, ~astray'
    PROVE  ~astray /\ Kinds
  <1> USE DEF history
  <1>0. /\ \A s \in live : s \in 1 .. last /\ s \in Ids
        /\ sock \in [Ids -> Socks] /\ Unix \subseteq Addrs /\ pump \in [Ids -> {"off", "waiting", "got"}]
        /\ \A c \in Callers : call[c].op # "idle" => call[c].sock \in 1 .. last /\ call[c].sock \in Ids
        /\ \A c \in Callers : call[c].op \in {"bind", "mkfile", "connect"} => call[c].addr \in Unix
    BY Names DEF Types, SockTypes, Addrs, CallTypes, OtherTypes
  <1>1. ASSUME NEW c \in Callers, BindUnixFails(c) \/ HostRefuses(c) \/ ConnectUnixFails(c) \/ CreateSocketFile(c)
        PROVE  ~astray /\ Kinds
    <2>1. UNCHANGED <<sock, live, listeners, pump, hostOpen, displaced, stale>> /\ astray' = astray
      BY <1>1 DEF BindUnixFails, HostRefuses, ConnectUnixFails, CreateSocketFile
    <2> QED
      BY <2>1, StillCalm DEF Kinds
  <1>2. ASSUME NEW c \in Callers, BindUnixResume(c) PROVE ~astray /\ Kinds
    <2> DEFINE s == call[c].sock   a == call[c].addr
    <2>1. Register(s, a, FALSE) /\ call[c].op = "bind"
      BY <1>2 DEF BindUnixResume
    <2>a. s \in live => Owns(s)
      BY <2>1 DEF Register, Asked, Owns
    <2>2. s \in Ids /\ a \in Addrs
      BY <1>0, <2>1
    <2> HIDE DEF s, a
    <2>3. ~astray /\ Registers(s, a)
      BY <2>1, <2>a, <2>2, RegisterKind
    <2> QED
      BY <2>2, <2>3 DEF Kinds
  <1>3. ASSUME NEW c \in Callers, AcceptResume(c) PROVE ~astray /\ Kinds
    <2> DEFINE s == call[c].sock
               left == RemoveFirst(sock[s].acceptors, c)
    <2>1. /\ call[c].op = "accept" /\ UNCHANGED <<live, listeners, pump, hostOpen, displaced, stale>>
          /\ \/ sock' = [sock EXCEPT ![s].acceptors = left]
             \/ TakeOrWait(c, s, left)
      BY <1>3 DEF AcceptResume
    <2>a. ~astray
      <3>1. astray' = (astray \/ (s \notin live /\ sock'[s].acceptors # left))
        BY <1>3 DEF AcceptResume
      <3> QED
        BY <3>1
    <2>2. s \in Ids
      BY <1>0, <2>1
    <2>3. left \in Seq(Callers)
      <3>1. sock[s].acceptors \in Seq(Callers)
        BY <1>0, <2>2 DEF Socks
      <3> QED
        BY <3>1, RemoveEffect
    <2> HIDE DEF left, s
    <2>4. CASE TakeOrWait(c, s, left)
      <3>1. Calm \/ Takes(s)
        BY <2>1, <2>2, <2>3, <2>4, TakeKind
      <3> QED
        BY <2>a, <2>2, <3>1 DEF Kinds
    <2>5. CASE sock' = [sock EXCEPT ![s].acceptors = left]
      <3>1. Only(s, {"acceptors"})
        BY <2>2, <2>3, <2>5, QueueEffect
      <3>2. Calm
        BY <2>1, <3>1, QueueCalm DEF Only, Keeps
      <3> QED
        BY <2>a, <3>2 DEF Kinds
    <2> QED
      BY <2>1, <2>4, <2>5
  <1>4. ASSUME NEW c \in Callers, NEW n \in 1 .. MaxBytes, RecvResume(c, n) PROVE ~astray /\ Kinds
    <2> DEFINE s == call[c].sock
               left == RemoveFirst(sock[s].readers, c)
    <2>1. /\ call[c].op = "recv" /\ UNCHANGED <<live, listeners, pump, hostOpen, displaced, stale>> /\ astray' = astray
          /\ \/ sock' = [sock EXCEPT ![s].readers = left]
             \/ ReadOrWait(c, s, left, n)
      BY <1>4 DEF RecvResume
    <2>2. s \in Ids /\ n \in Nat
      BY <1>0, <2>1
    <2>3. left \in Seq(Callers)
      <3>1. sock[s].readers \in Seq(Callers)
        BY <1>0, <2>2 DEF Socks
      <3> QED
        BY <3>1, RemoveEffect
    <2> HIDE DEF left, s
    <2>4. CASE ReadOrWait(c, s, left, n)
      BY <2>1, <2>2, <2>3, <2>4, ReadCalm DEF Kinds
    <2>5. CASE sock' = [sock EXCEPT ![s].readers = left]
      <3>1. Only(s, {"readers"})
        BY <2>2, <2>3, <2>5, QueueEffect
      <3>2. Calm
        BY <2>1, <3>1, QueueCalm DEF Only, Keeps
      <3> QED
        BY <2>1, <3>2 DEF Kinds
    <2> QED
      BY <2>1, <2>4, <2>5
  <1>5. ASSUME NEW c \in Callers, ConnectUnixResume(c) PROVE ~astray /\ Kinds
    <2> DEFINE s == call[c].sock
               l == FindListener(call[c].addr)
    <2>1. call[c].op = "connect" /\ l # None /\ Link(s, l)
      BY <1>5 DEF ConnectUnixResume
    <2>a. s \in live => Owns(s)
      BY <2>1 DEF Link, Asked, Owns
    <2>2. s \in 1 .. last /\ s \in Ids /\ l \in live /\ sock[l].state = "listening"
      <3>1. call[c].addr \in Addrs
        BY <1>0, <2>1
      <3> QED
        BY <1>0, <2>1, <3>1, Names
    <2> HIDE DEF s, l
    <2>3. ~astray /\ Links(s, l)
      BY <2>1, <2>a, <2>2, LinkKind
    <2> QED
      BY <1>0, <2>2, <2>3 DEF Kinds
  <1>6. ASSUME NEW s \in live, UNCHANGED <<live, listeners, pump, displaced, stale>>,
               sock[s].state \in {"created", "bound", "connecting"}, Owns(s),
               sock' = [sock EXCEPT ![s].state = "connected", ![s].host = "socket"],
               hostOpen' = [hostOpen EXCEPT ![s] = @ + 1]
        PROVE  Kinds
    <2>1. Only(s, {"state", "host"}) /\ sock'[s].state = "connected" /\ sock'[s].host = "socket"
      BY <1>0, <1>6, HostEffect
    <2>2. Within(sock', {"state", "host"}) /\ \A x \in Ids \ {s} : sock'[x] = sock[x]
      BY <1>0, <1>6, <2>1, Within1
    <2>3. Attaches(s)
      BY <1>0, <1>6, <2>1, <2>2 DEF Attaches
    <2> QED
      BY <1>0, <2>3 DEF Kinds
  <1>7. ASSUME NEW c \in Callers, ConnectHostResume(c) PROVE ~astray /\ Kinds
    <2> DEFINE s == call[c].sock
    <2>1. /\ UNCHANGED <<live, listeners, pump, displaced, stale>>
          /\ sock' = [sock EXCEPT ![s].state = "connected", ![s].host = "socket"]
          /\ hostOpen' = [hostOpen EXCEPT ![s] = @ + 1]
          /\ astray' = (astray \/ s \notin live \/ sock[s].state \notin {"created", "bound"})
          /\ call[c].op = "connectHost"
      BY <1>7 DEF ConnectHostResume
    <2>2. ~astray /\ s \in live /\ sock[s].state \in {"created", "bound", "connecting"} /\ Owns(s)
      BY <2>1 DEF Asked, Owns
    <2> HIDE DEF s
    <2> QED
      BY <1>6, <2>1, <2>2
  <1>8. ASSUME NEW s \in Ids, ConnectDone(s) PROVE ~astray /\ Kinds
    <2>1. /\ UNCHANGED <<live, listeners, pump, displaced, stale>> /\ astray' = astray
          /\ s \in live /\ sock[s].state = "connecting" /\ Owns(s)
          /\ \/ /\ sock' = [sock EXCEPT ![s].state = "connected", ![s].host = "socket"]
                /\ hostOpen' = [hostOpen EXCEPT ![s] = @ + 1]
             \/ sock' = [sock EXCEPT ![s].state = "created"] /\ hostOpen' = hostOpen
      BY <1>8 DEF ConnectDone, Owns
    <2>2. CASE sock' = [sock EXCEPT ![s].state = "created"] /\ hostOpen' = hostOpen
      <3>1. "created" \in States
        BY DEF States
      <3>2. Only(s, {"state"}) /\ sock'[s].state = "created"
        BY <2>2, <3>1, HostEffect
      <3>3. Within(sock', {"state"}) /\ \A x \in Ids \ {s} : sock'[x] = sock[x]
        BY <2>1, <3>2, Within1
      <3>4. Switches(s)
        BY <2>1, <2>2, <3>2, <3>3 DEF Switches
      <3> QED
        BY <2>1, <3>4 DEF Kinds
    <2> QED
      BY <1>6, <2>1, <2>2
  <1>9. ASSUME NEW s \in Ids, HostConnects(s) \/ PumpDrops(s) PROVE ~astray /\ Kinds
    <2>1. /\ UNCHANGED <<sock, live, listeners, hostOpen, displaced, stale>> /\ astray' = astray
          /\ pump[s] # "off" /\ \E v : pump' = [pump EXCEPT ![s] = v]
      BY <1>9 DEF HostConnects, PumpDrops
    <2>2. \A x \in Ids : pump'[x] # "off" => pump[x] # "off"
      BY <1>0, <2>1
    <2> QED
      BY <2>1, <2>2, StillCalm DEF Kinds
  <1>10. ASSUME NEW s \in Ids, PumpAccepts(s) PROVE ~astray /\ Kinds
    <2>1. Pumped(s, last + 1)
      BY <1>10, PumpAcceptsEffect
    <2>2. /\ live' = live \cup {last + 1} /\ UNCHANGED <<listeners, displaced, stale>> /\ pump[s] = "got"
          /\ astray' = (astray \/ s \notin live) /\ hostOpen' = [hostOpen EXCEPT ![last + 1] = 1]
          /\ pump' = [pump EXCEPT ![s] = PumpAgain(s)]
      BY <1>10 DEF PumpAccepts
    <2>3. \A x \in Ids : pump'[x] # "off" => pump[x] # "off"
      BY <1>0, <2>2
    <2>4. ~astray /\ Pumps(s)
      BY <2>1, <2>2, <2>3 DEF Pumps
    <2> QED
      BY <2>4 DEF Kinds
  <1>11. ASSUME NEW s \in Ids, HostWriteFails(s) PROVE ~astray /\ Kinds
    <2>1. /\ UNCHANGED <<live, listeners, pump, hostOpen, displaced, stale>> /\ astray' = astray
          /\ s \in live /\ sock[s].host = "socket"
          /\ sock' = [sock EXCEPT ![s].state = "closed", ![s].readers = <<>>]
      BY <1>11 DEF HostWriteFails
    <2>2. Only(s, {"state", "readers"}) /\ sock'[s].state = "closed"
      BY <2>1, HostEffect
    <2>3. Within(sock', {"state"}) /\ \A x \in Ids \ {s} : sock'[x] = sock[x]
      BY <2>1, <2>2 DEF Only, Within, Keeps, Core, Fields
    <2>4. Closes(s)
      BY <2>1, <2>2, <2>3 DEF Closes
    <2> QED
      BY <2>1, <2>4 DEF Kinds
  <1>12. ASSUME NEW s \in Ids, HostEnds(s) PROVE ~astray /\ Kinds
    <2>1. /\ UNCHANGED <<live, listeners, pump, hostOpen, displaced, stale>> /\ astray' = astray
          /\ sock' = [sock EXCEPT ![s].peerWriteClosed = TRUE, ![s].readers = <<>>]
      BY <1>12 DEF HostEnds
    <2>2. Only(s, {"peerWriteClosed", "readers"})
      BY <2>1, HostEffect
    <2>3. Calm
      BY <2>1, <2>2, QueueCalm DEF Only, Keeps
    <2> QED
      BY <2>1, <2>3 DEF Kinds
  <1>13. ASSUME NEW s \in Ids, NEW n \in 1 .. MaxBytes, HostData(s, n) PROVE ~astray /\ Kinds
    <2>1. /\ UNCHANGED <<live, listeners, pump, hostOpen, displaced, stale>> /\ astray' = astray
          /\ sock' = [sock EXCEPT ![s].buf = @ + n, ![s].readers = Rest(@)]
      BY <1>13 DEF HostData
    <2>2. Only(s, {"buf", "readers"})
      <3>1. n \in Nat
        OBVIOUS
      <3> QED
        BY ONLY Types, s \in Ids, <2>1, <3>1, HostEffect
    <2>3. Calm
      BY <2>1, <2>2, QueueCalm DEF Only, Keeps
    <2> QED
      BY <2>1, <2>3 DEF Kinds
  <1>14. ASSUME NEW p \in Pids, Signal(p) PROVE ~astray /\ Kinds
    <2>1. UNCHANGED <<sock, live, listeners, pump, hostOpen, displaced, stale>> /\ astray' = astray
      BY <1>14 DEF Signal
    <2> QED
      BY <2>1, StillCalm DEF Kinds
  <1>15. ASSUME NEW c \in Callers, NEW port \in Ports, ListenResume(c, port) PROVE ~astray /\ Kinds
    <2> DEFINE s == call[c].sock
    <2>1. s = call[c].sock
      OBVIOUS
    <2>2. /\ live' = live /\ pump' = [pump EXCEPT ![s] = "waiting"] /\ hostOpen' = [hostOpen EXCEPT ![s] = @ + 1]
          /\ stale' = stale /\ astray' = (astray \/ s \notin live \/ sock[s].state # "bound")
      BY <1>15 DEF ListenResume
    <2> HIDE DEF s
    <2>3. /\ s \in Ids
          /\ Only(s, {"state", "local", "host"}) /\ sock'[s].state = "listening" /\ sock'[s].host = "listener"
          /\ \/ /\ sock'[s].local = sock[s].local /\ listeners' = listeners
                /\ displaced' = displaced \cup ({listeners[sock[s].local]} \ {None, s})
             \/ /\ sock[s].local \in Inet /\ sock'[s].local \in Inet
                /\ listeners' = [listeners EXCEPT ![sock[s].local] = None, ![sock'[s].local] = s]
                /\ displaced' = displaced \cup ({listeners[sock[s].local], listeners[sock'[s].local]} \ {None, s})
      BY <1>15, <2>1, ListenResumeEffect
    <2>4. ~astray /\ s \in live /\ sock[s].state = "bound"
      BY <2>2
    <2>5. Within(sock', {"state", "local", "host"}) /\ \A x \in Ids \ {s} : sock'[x] = sock[x]
      BY <2>2, <2>3, Within1
    <2>6. Relistens(s)
      BY <2>2, <2>3, <2>4, <2>5 DEF Relistens, Addrs
    <2> QED
      BY <2>3, <2>4, <2>6 DEF Kinds
  <1> QED
    BY <1>1, <1>2, <1>3, <1>4, <1>5, <1>7, <1>8, <1>9, <1>10, <1>11, <1>12, <1>13, <1>14, <1>15 DEF Progress

\* Until a step goes astray, every step is of one of the kinds.
LEMMA StepKinds ==
    ASSUME Types, ~astray => Asked, Next, ~astray'
    PROVE  ~astray /\ Kinds
  BY CallKinds, ProgressKinds DEF Next

\* Whom a caller asks after a step: the socket it asked before, or one it had the id of.
Asks ==
    \A c \in Callers : call'[c].op # "idle" => \/ call[c].op # "idle" /\ call'[c].sock = call[c].sock
                                              \/ Usable(call'[c].sock)

LEMMA AsksForms ==
    ASSUME Types
    PROVE  /\ call' = call => Asks
           /\ \A c \in Callers : call' = [call EXCEPT ![c] = Idle] => Asks
           /\ \A cs : \A why \in {"socket", "signal"} : call' = Settled(cs, why) => Asks
           /\ \A cs : \A c \in Callers : call' = [Settled(cs, "socket") EXCEPT ![c] = Idle] => Asks
           /\ \A c \in Callers : \A op \in Ops : \A s \in Ids : \A a \in Addrs \cup {None} :
                 /\ Usable(s) \/ (call[c].op # "idle" /\ s = call[c].sock)
                 /\ call' = [call EXCEPT ![c] = Suspend(op, s, a)]
                 => Asks
  <1>0. call \in [Callers -> CallRecs] /\ CallTypes /\ Idle.op = "idle"
    BY DEF Types, CallTypes, Idle
  <1>1. call' = call => Asks
    BY DEF Asks
  <1>2. ASSUME NEW c \in Callers, call' = [call EXCEPT ![c] = Idle] PROVE Asks
    BY <1>0, <1>2 DEF Asks
  <1>3. ASSUME NEW cs, NEW why \in {"socket", "signal"}, call' = Settled(cs, why) PROVE Asks
    BY <1>0, <1>3, SettledEffect DEF Asks
  <1>4. ASSUME NEW cs, NEW c \in Callers PROVE call' = [Settled(cs, "socket") EXCEPT ![c] = Idle] => Asks
    <2> DEFINE d == Settled(cs, "socket")
    <2>1. /\ d \in [Callers -> CallRecs]
          /\ \A e \in Callers : d[e].op = call[e].op /\ d[e].sock = call[e].sock
      BY <1>0, SettledEffect
    <2> HIDE DEF d
    <2>2. call' = [d EXCEPT ![c] = Idle] => Asks
      BY <1>0, <2>1 DEF Asks
    <2> QED
      BY <2>2 DEF d
  <1>5. ASSUME NEW c \in Callers, NEW op \in Ops, NEW s \in Ids, NEW a \in Addrs \cup {None},
               Usable(s) \/ (call[c].op # "idle" /\ s = call[c].sock),
               call' = [call EXCEPT ![c] = Suspend(op, s, a)]
        PROVE  Asks
    <2> DEFINE r == Suspend(op, s, a)
    <2>1. r.sock = s /\ call' = [call EXCEPT ![c] = r]
      BY <1>5, SuspendType
    <2> HIDE DEF r
    <2> QED
      BY <1>0, <1>5, <2>1 DEF Asks
  <1> QED
    BY <1>1, <1>2, <1>3, <1>4, <1>5

LEMMA StepAsks ==
    ASSUME Types, Next
    PROVE  Asks
  <1>0. /\ \A s \in live : s \in Ids
        /\ \A c \in Callers : call[c].op # "idle" => call[c].sock \in Ids
        /\ \A c \in Callers : call[c].op \in {"bind", "mkfile", "connect"} => call[c].addr \in Unix
        /\ Inet \subseteq Addrs /\ Unix \subseteq Addrs
        /\ Ops = {"idle", "bind", "mkfile", "listen", "connect", "connectHost", "accept", "recv"}
    BY Names DEF Types, CallTypes, Addrs, Ops
  <1>1. ASSUME NEW c \in Callers, NEW s \in Ids, NEW queue, Usable(s) \/ (call[c].op # "idle" /\ s = call[c].sock),
               TakeOrWait(c, s, queue)
        PROVE  Asks
    <2>1. \/ call' = [call EXCEPT ![c] = Idle]
          \/ call' = [call EXCEPT ![c] = Suspend("accept", s, None)]
      BY <1>1 DEF TakeOrWait
    <2> QED
      BY <1>0, <1>1, <2>1, AsksForms
  <1>2. ASSUME NEW c \in Callers, NEW s \in Ids, NEW queue, NEW n, Usable(s) \/ (call[c].op # "idle" /\ s = call[c].sock),
               ReadOrWait(c, s, queue, n)
        PROVE  Asks
    <2>1. \/ call' = [call EXCEPT ![c] = Idle]
          \/ call' = [call EXCEPT ![c] = Suspend("recv", s, None)]
      BY <1>2 DEF ReadOrWait
    <2> QED
      BY <1>0, <1>2, <2>1, AsksForms
  <1>3. ASSUME NEW closing \in SUBSET live, Destroy(closing) PROVE Asks
    <2>1. \E cs : call' = Settled(cs, "socket")
      BY <1>3 DEF Destroy
    <2> QED
      BY <2>1, AsksForms
  <1>4. CASE Call
    <2>1. ASSUME NEW p \in Pids, Create(p) \/ Socketpair(p) \/ SocketpairFails(p) PROVE Asks
      BY <2>1, AsksForms DEF Create, Socketpair, SocketpairFails
    <2>2. ASSUME NEW p \in Pids, CloseAllForProcess(p) PROVE Asks
      BY <1>3, <2>2 DEF CloseAllForProcess
    <2>3. ASSUME DisposeAll PROVE Asks
      <3>1. \E cs : call' = Settled(cs, "socket")
        BY <2>3 DEF DisposeAll
      <3> QED
        BY <3>1, AsksForms
    <2>4. ASSUME NEW s \in live, Listen(s) \/ \E a \in Inet : ConnectStart(s, a) PROVE Asks
      BY <2>4, AsksForms DEF Listen, ConnectStart
    <2>5. ASSUME NEW s \in live, Close(s) PROVE Asks
      BY <1>3, <2>5 DEF Close
    <2>6. ASSUME NEW s \in live, \/ \E n \in 1 .. MaxBytes : Send(s, n)
                                 \/ \E how \in {"read", "write", "both"} : Shutdown(s, how)
                                 \/ \E a \in Inet : ConnectInet(s, a)
          PROVE  Asks
      <3>1. \E cs : call' = Settled(cs, "socket")
        BY <2>6 DEF Send, Shutdown, ConnectInet
      <3> QED
        BY <3>1, AsksForms
    <2>7. ASSUME NEW s \in live, NEW reuse \in BOOLEAN,
                 (\E a \in Inet : BindInet(s, a, reuse)) \/ (\E h \in Hosts : BindEphemeral(s, h, reuse))
          PROVE  Asks
      <3>1. call' = call
        BY <2>7 DEF BindInet, BindEphemeral
      <3> QED
        BY <3>1, AsksForms
    <2>8. ASSUME NEW c \in Callers, NEW s \in live,
                 \/ ListenHost(c, s)
                 \/ \E a \in Unix : BindUnix(c, s, a) \/ ConnectUnix(c, s, a)
                 \/ \E a \in Inet : ConnectHost(c, s, a)
          PROVE  Asks
      <3>1. /\ Usable(s)
            /\ \/ call' = [call EXCEPT ![c] = Suspend("listen", s, None)]
               \/ \E a \in Unix : \/ call' = [call EXCEPT ![c] = Suspend("bind", s, a)]
                                  \/ call' = [call EXCEPT ![c] = Suspend("connect", s, a)]
               \/ \E a \in Inet : call' = [call EXCEPT ![c] = Suspend("connectHost", s, a)]
        BY <2>8 DEF ListenHost, BindUnix, ConnectUnix, ConnectHost, CanConnect
      <3> QED
        BY <1>0, <3>1, AsksForms
    <2>9. ASSUME NEW c \in Callers, NEW s \in live, Accept(c, s) PROVE Asks
      BY <1>0, <1>1, <2>9 DEF Accept
    <2>10. ASSUME NEW c \in Callers, NEW s \in live, NEW n \in 1 .. MaxBytes, Recv(c, s, n) PROVE Asks
      BY <1>0, <1>2, <2>10 DEF Recv
    <2> QED
      BY <1>4, <2>1, <2>2, <2>3, <2>4, <2>5, <2>6, <2>7, <2>8, <2>9, <2>10 DEF Call
  <1>5. CASE Progress
    <2>1. ASSUME NEW c \in Callers,
                 \/ BindUnixFails(c) \/ CreateSocketFile(c) \/ HostRefuses(c) \/ ConnectUnixFails(c)
                 \/ ConnectHostResume(c) \/ \E port \in Ports : ListenResume(c, port)
          PROVE  Asks
      <3>1. call' = [call EXCEPT ![c] = Idle]
        BY <2>1 DEF BindUnixFails, CreateSocketFile, HostRefuses, ConnectUnixFails, ConnectHostResume, ListenResume
      <3> QED
        BY <3>1, AsksForms
    <2>2. ASSUME NEW c \in Callers, BindUnixResume(c) PROVE Asks
      <3>1. call[c].op = "bind" /\ call' = [call EXCEPT ![c] = Suspend("mkfile", call[c].sock, call[c].addr)]
        BY <2>2 DEF BindUnixResume
      <3> QED
        BY <1>0, <3>1, AsksForms
    <2>3. ASSUME NEW c \in Callers, ConnectUnixResume(c) PROVE Asks
      <3>1. \E cs : call' = [Settled(cs, "socket") EXCEPT ![c] = Idle]
        BY <2>3 DEF ConnectUnixResume
      <3> QED
        BY <3>1, AsksForms
    <2>4. ASSUME NEW c \in Callers, AcceptResume(c) PROVE Asks
      <3>1. /\ call[c].op = "accept"
            /\ call' = [call EXCEPT ![c] = Idle] \/ \E q : TakeOrWait(c, call[c].sock, q)
        BY <2>4 DEF AcceptResume
      <3> QED
        BY <1>0, <1>1, <3>1, AsksForms
    <2>5. ASSUME NEW c \in Callers, NEW n \in 1 .. MaxBytes, RecvResume(c, n) PROVE Asks
      <3>1. /\ call[c].op = "recv"
            /\ call' = [call EXCEPT ![c] = Idle] \/ \E q : ReadOrWait(c, call[c].sock, q, n)
        BY <2>5 DEF RecvResume
      <3> QED
        BY <1>0, <1>2, <3>1, AsksForms
    <2>6. ASSUME NEW s \in Ids, HostConnects(s) \/ PumpDrops(s) \/ ConnectDone(s) PROVE Asks
      BY <2>6, AsksForms DEF HostConnects, PumpDrops, ConnectDone
    <2>7. ASSUME NEW s \in Ids, \/ PumpAccepts(s) \/ HostWriteFails(s) \/ HostEnds(s)
                                \/ \E n \in 1 .. MaxBytes : HostData(s, n)
          PROVE  Asks
      <3>1. \E cs : call' = Settled(cs, "socket")
        BY <2>7 DEF PumpAccepts, HostWriteFails, HostEnds, HostData
      <3> QED
        BY <3>1, AsksForms
    <2>8. ASSUME NEW p \in Pids, Signal(p) PROVE Asks
      <3>1. \E cs : call' = Settled(cs, "signal")
        BY <2>8 DEF Signal
      <3> QED
        BY <3>1, AsksForms
    <2> QED
      BY <1>5, <2>1, <2>2, <2>3, <2>4, <2>5, <2>6, <2>7, <2>8 DEF Progress
  <1> QED
    BY <1>4, <1>5 DEF Next

\* Until a step goes astray, no id is taken back from who has it, but by closing the socket.
LEMMA GivenKept ==
    ASSUME Types, Kinds, NEW x \in 1 .. last, x \in live'
    PROVE  x \in live /\ (sock[x].given => sock'[x].given)
  <1> DEFINE Kept == x \in live /\ (sock[x].given => sock'[x].given)
  <1>0. last \in Nat /\ x \in Ids /\ x # last + 1 /\ x # last + 2
    BY Known DEF Types
  <1>1. ASSUME Calm PROVE Kept
    BY <1>0, <1>1 DEF Calm, Within, Keeps, Core
  <1>a. ASSUME NEW s \in Ids, NEW a \in Addrs, Registers(s, a) PROVE Kept
    BY <1>0, <1>a DEF Registers, Within, Keeps, Core
  <1>b. ASSUME NEW s \in Ids, Listens(s) \/ Relistens(s) \/ Switches(s) \/ Attaches(s) \/ Closes(s)
        PROVE  Kept
    BY <1>0, <1>b DEF Listens, Relistens, Switches, Attaches, Closes, Within, Keeps, Core
  <1>2. ASSUME NEW s \in Ids, Takes(s) PROVE Kept
    <2>1. /\ live' = live /\ sock'[Head(sock[s].backlog)].given = TRUE
          /\ \A y \in Ids : y # Head(sock[s].backlog) => sock'[y].given = sock[y].given
      BY <1>2 DEF Takes, Within
    <2> QED
      BY <1>0, <2>1
  <1>3. ASSUME DisposeAll PROVE FALSE
    BY <1>3 DEF DisposeAll
  <1>4. ASSUME NEW n \in Ids, Creates(n) PROVE Kept
    BY <1>0, <1>4 DEF Creates
  <1>5. ASSUME NEW a \in Ids, NEW b \in Ids, Pairs(a, b) PROVE Kept
    BY <1>0, <1>5 DEF Pairs
  <1>6. ASSUME NEW s \in Ids, Pumps(s) PROVE Kept
    BY <1>0, <1>6 DEF Pumps, Pumped, Fields
  <1>7. ASSUME NEW s \in Ids, NEW l \in Ids, Links(s, l) PROVE Kept
    BY <1>0, <1>7 DEF Links, Linked, Fields
  <1>8. ASSUME NEW closing \in SUBSET live, Destroys(closing) PROVE Kept
    <2> DEFINE D == Doomed(closing)
    <2>1. Destroy(closing) /\ live' = live \ D
      BY <1>8 DEF Destroys, Destroy
    <2>2. \A y \in Ids \ D : \A f \in Fields \ {"peer", "readers"} : sock'[y][f] = sock[y][f]
      BY <2>1, DestroyEffect
    <2> HIDE DEF D
    <2> QED
      BY <1>0, <2>1, <2>2 DEF Fields
  <1> QED
    <2> HIDE DEF Kept
    <2>1. Kept
      BY <1>1, <1>a, <1>b, <1>2, <1>3, <1>4, <1>5, <1>6, <1>7, <1>8 DEF Kinds
    <2> QED
      BY <2>1 DEF Kept

LEMMA AskedHolds == Spec => [](~astray => Asked)
  <1>1. ASSUME Init PROVE Asked
    BY <1>1 DEF Init, Asked, Idle
  <1>2. ASSUME Types, ~astray => Asked, [Next]_vars, ~astray' PROVE Asked'
    <2>1. CASE Next
      <3>1. ~astray /\ Kinds /\ Asks
        BY <1>2, <2>1, StepKinds, StepAsks
      <3>2. ASSUME NEW c \in Callers, call'[c].op # "idle", call'[c].sock \in live'
            PROVE  sock'[call'[c].sock].given
        <4>1. call'[c].sock \in 1 .. last /\ (call'[c].sock \in live => sock[call'[c].sock].given)
          BY <1>2, <3>1, <3>2, Known DEF Asks, Asked, Usable, Types, CallTypes, TableTypes
        <4> QED
          BY <1>2, <3>1, <3>2, <4>1, GivenKept
      <3> QED
        BY <3>2 DEF Asked
    <2>2. CASE UNCHANGED vars
      BY <1>2, <2>2 DEF vars, Asked
    <2> QED
      BY <1>2, <2>1, <2>2
  <1>3. Init => (~astray => Asked)
    BY <1>1
  <1>4. Types /\ (~astray => Asked) /\ [Next]_vars => (~astray => Asked)'
    BY <1>2
  <1> QED
    BY <1>3, <1>4, TypesHold, PTL DEF Spec

----------------------------------------------------------------------------
(* Links *)

\* A socket that is not connected yet has no peer.
EarlyAlone == \A s \in live : sock[s].state \in Early => sock[s].peer = None

Mutual ==
    \A s \in live : sock[s].peer # None => sock[s].peer \in live /\ sock[sock[s].peer].peer = s

Paired == EarlyAlone /\ Mutual

\* Steps that change no link and take no socket back to an early state.
LEMMA PairedKept ==
    ASSUME Types, Paired, live' = live, \A x \in Ids : sock'[x].peer = sock[x].peer,
           \A x \in live : sock'[x].state \in Early => sock[x].state \in Early
    PROVE  Paired'
  <1>1. live \subseteq Ids
    BY Known DEF Types
  <1> QED
    BY <1>1 DEF Paired, EarlyAlone, Mutual

LEMMA PairedStep ==
    ASSUME Types, Paired, Kinds
    PROVE  Paired'
  <1>0. live \subseteq Ids /\ last + 1 \notin live /\ last + 2 \notin live /\ None \notin Ids
        /\ sock \in [Ids -> Socks] /\ \A x \in Ids : sock[x].peer \in Ids \cup {None}
    <2>1. live \subseteq Ids /\ last + 1 \notin live /\ last + 2 \notin live /\ sock \in [Ids -> Socks]
      BY Known DEF Types, SockTypes
    <2>2. None \notin Ids
      BY NoneAssumption DEF Ids
    <2>3. \A x \in Ids : sock[x].peer \in Ids \cup {None}
      BY <2>1 DEF Socks
    <2> QED
      BY <2>1, <2>2, <2>3
  <1>1. ASSUME Calm PROVE Paired'
    <2>1. live' = live /\ \A x \in Ids : sock'[x].peer = sock[x].peer /\ sock'[x].state = sock[x].state
      BY <1>1 DEF Calm, Within, Keeps, Core
    <2> QED
      BY <1>0, <2>1, PairedKept
  <1>2. ASSUME DisposeAll PROVE Paired'
    BY <1>2 DEF DisposeAll, Paired, EarlyAlone, Mutual
  <1>3. ASSUME NEW n \in Ids, Creates(n) PROVE Paired'
    <2>1. live' = live \cup {n} /\ n \notin live /\ sock'[n].peer = None /\ \A x \in Ids \ {n} : sock'[x] = sock[x]
      BY <1>0, <1>3 DEF Creates
    <2> QED
      BY <1>0, <2>1 DEF Paired, EarlyAlone, Mutual
  <1>4. ASSUME NEW a \in Ids, NEW b \in Ids, Pairs(a, b) PROVE Paired'
    <2>1. live' = live \cup {a, b} /\ a \notin live /\ b \notin live /\ a # b
          /\ sock'[a].peer = b /\ sock'[b].peer = a /\ sock'[a].state = "connected" /\ sock'[b].state = "connected"
          /\ \A x \in Ids \ {a, b} : sock'[x] = sock[x]
      BY <1>0, <1>4 DEF Pairs, IsNew
    <2> QED
      BY <1>0, <2>1 DEF Paired, EarlyAlone, Mutual, Early
  <1>5. ASSUME NEW s \in Ids, NEW a \in Addrs, Registers(s, a) PROVE Paired'
    <2>1. live' = live /\ \A x \in Ids : sock'[x].peer = sock[x].peer
      BY <1>5 DEF Registers, Within, Keeps, Core
    <2>2. sock[s].state \in Early /\ \A x \in Ids \ {s} : sock'[x] = sock[x]
      BY <1>5 DEF Registers, Early
    <2> QED
      BY <1>0, <2>1, <2>2, PairedKept
  <1>6. ASSUME NEW s \in Ids, Listens(s) \/ Relistens(s) \/ Switches(s) \/ Attaches(s) PROVE Paired'
    <2>1. live' = live /\ \A x \in Ids : sock'[x].peer = sock[x].peer
      BY <1>6 DEF Listens, Relistens, Switches, Attaches, Within, Keeps, Core
    <2>2. sock[s].state \in Early /\ \A x \in Ids \ {s} : sock'[x] = sock[x]
      BY <1>6 DEF Listens, Relistens, Switches, Attaches, Early
    <2> QED
      BY <1>0, <2>1, <2>2, PairedKept
  <1>7. ASSUME NEW s \in Ids, Takes(s) PROVE Paired'
    <2>1. live' = live /\ \A x \in Ids : sock'[x].peer = sock[x].peer /\ sock'[x].state = sock[x].state
      BY <1>7 DEF Takes, Within, Keeps, Core
    <2> QED
      BY <1>0, <2>1, PairedKept
  <1>8. ASSUME NEW s \in Ids, Closes(s) PROVE Paired'
    <2>1. live' = live /\ \A x \in Ids : sock'[x].peer = sock[x].peer
      BY <1>8 DEF Closes, Within, Keeps, Core
    <2>2. sock'[s].state \notin Early /\ \A x \in Ids \ {s} : sock'[x].state = sock[x].state
      BY <1>8 DEF Closes, Early
    <2> QED
      BY <1>0, <2>1, <2>2, PairedKept
  <1>9. ASSUME NEW s \in Ids, Pumps(s) PROVE Paired'
    <2> DEFINE n == last + 1
    <2>1. live' = live \cup {n} /\ n \notin live /\ n \in Ids /\ sock'[n].peer = None
          /\ \A x \in Ids \ {n} : sock'[x].peer = sock[x].peer /\ sock'[x].state = sock[x].state
      BY <1>0, <1>9 DEF Pumps, Pumped, Fields
    <2> HIDE DEF n
    <2> QED
      BY <1>0, <2>1 DEF Paired, EarlyAlone, Mutual
  <1>10. ASSUME NEW s \in Ids, NEW l \in Ids, Links(s, l) PROVE Paired'
    <2> DEFINE n == last + 1
    <2>1. live' = live \cup {n} /\ n \notin live /\ n \in Ids /\ sock'[n].peer = s /\ sock'[s].peer = n
          /\ sock'[n].state = "connected" /\ sock'[s].state = "connected" /\ s \in live
          /\ \A x \in Ids \ {n, s} : sock'[x].peer = sock[x].peer /\ sock'[x].state = sock[x].state
      BY <1>0, <1>10 DEF Links, Linked, IsNew
    <2> HIDE DEF n
    <2>2. sock[s].peer = None
      BY <1>10 DEF Links, Paired, EarlyAlone, Early
    <2>3. \A x \in live : sock[x].peer # s
      BY <1>0, <2>1, <2>2 DEF Paired, Mutual
    <2>4. EarlyAlone'
      BY <1>0, <2>1 DEF Paired, EarlyAlone, Early
    <2>5. Mutual'
      BY <1>0, <2>1, <2>3 DEF Paired, Mutual
    <2> QED
      BY <2>4, <2>5 DEF Paired
  <1>11. ASSUME NEW closing \in SUBSET live, Destroys(closing) PROVE Paired'
    <2> DEFINE D == Doomed(closing)
    <2>1. /\ live' = live \ D /\ D \subseteq live
          /\ \A x \in Ids \ D :
               /\ sock'[x].state = sock[x].state
               /\ x \in Unlinked(D) => sock'[x].peer = None
               /\ x \notin Unlinked(D) => sock'[x].peer = sock[x].peer
      <3>1. Destroy(closing)
        BY <1>11 DEF Destroys
      <3>2. /\ D \subseteq live
            /\ \A x \in Ids \ D :
                 /\ \A f \in Fields \ {"peer", "readers"} : sock'[x][f] = sock[x][f]
                 /\ x \in Unlinked(D) => sock'[x].peer = None /\ sock'[x].readers = <<>>
                 /\ x \notin Unlinked(D) => sock'[x] = sock[x]
        BY <3>1, DestroyEffect
      <3> QED
        BY <3>1, <3>2 DEF Destroy, Fields
    <2> HIDE DEF D
    <2>2. EarlyAlone'
      BY <1>0, <2>1 DEF Paired, EarlyAlone
    <2>3. ASSUME NEW x \in live \ D, x \notin Unlinked(D), sock[x].peer # None
          PROVE  /\ sock[x].peer \in live \ D /\ sock[x].peer \notin Unlinked(D)
                 /\ sock[sock[x].peer].peer = x
      <3> DEFINE y == sock[x].peer
      <3>1. y \in live /\ sock[y].peer = x
        BY <2>3 DEF Paired, Mutual
      <3> HIDE DEF y
      <3>2. y \notin D
        BY <2>1, <2>3, <3>1 DEF Unlinked
      <3>3. ASSUME y \in Unlinked(D) PROVE FALSE
        <4>1. PICK d \in D : sock[d].peer = y
          BY <3>3 DEF Unlinked
        <4>2. sock[y].peer = d
          BY <1>0, <2>1, <3>1, <4>1 DEF Paired, Mutual
        <4> QED
          BY <2>3, <3>1, <4>1, <4>2
      <3> QED
        BY <3>1, <3>2, <3>3 DEF y
    <2>4. Mutual'
      BY <1>0, <2>1, <2>3 DEF Mutual
    <2> QED
      BY <2>2, <2>4 DEF Paired
  <1> QED
    BY <1>1, <1>2, <1>3, <1>4, <1>5, <1>6, <1>7, <1>8, <1>9, <1>10, <1>11 DEF Kinds

LEMMA PairedHolds == Spec => [](~astray => Paired)
  <1>1. ASSUME Init PROVE Paired
    <2>1. PICK a \in Inet : Starting(a)
      BY <1>1, Start
    <2>2. live \subseteq Ids
      BY <1>1, StartTypes, Known DEF Types
    <2> QED
      BY <2>1, <2>2 DEF Starting, Paired, EarlyAlone, Mutual
  <1>2. ASSUME Types, ~astray => Asked, ~astray => Paired, [Next]_vars, ~astray' PROVE Paired'
    <2>1. CASE Next
      BY <1>2, <2>1, StepKinds, PairedStep
    <2>2. CASE UNCHANGED vars
      BY <1>2, <2>2 DEF vars, Paired, EarlyAlone, Mutual
    <2> QED
      BY <1>2, <2>1, <2>2
  <1>3. Init => (~astray => Paired)
    BY <1>1
  <1>4. Types /\ (~astray => Asked) /\ (~astray => Paired) /\ [Next]_vars => (~astray => Paired)'
    BY <1>2
  <1> QED
    BY <1>3, <1>4, TypesHold, AskedHolds, PTL DEF Spec

\* Until a resumed call goes astray, connected sockets point at each other and
\* at nobody who is gone, whatever the order of socketpair, connect, shutdown,
\* close and exit: destroySocket finds every link it has to cut.
THEOREM LinksAreMutual == Spec => []PeersSymmetric
  <1>1. (~astray => Paired) => PeersSymmetric
    BY DEF Paired, Mutual, PeersSymmetric
  <1> QED
    BY <1>1, PairedHolds, PTL

----------------------------------------------------------------------------
(* Host handles *)

\* A host listener and an accept pump belong to a listening socket, a host socket to a connected one.
HostStates ==
    \A s \in live : /\ sock[s].host = "listener" => sock[s].state = "listening"
                    /\ sock[s].host = "socket" => sock[s].state \notin Early
                    /\ pump[s] # "off" => sock[s].state = "listening"

Handles(s) == IF s \in live /\ sock[s].host # "none" THEN 1 ELSE 0

Owned == HostStates /\ \A s \in Ids : hostOpen[s] = Handles(s)

\* Steps that change the state of one socket and no host handle.
LEMMA OwnedKept ==
    ASSUME Types, Owned, live' = live, hostOpen' = hostOpen, \A x \in Ids : sock'[x].host = sock[x].host,
           NEW s, \A x \in live \ {s} : sock'[x].state = sock[x].state,
           s \in live => \/ sock'[s].state = sock[s].state
                         \/ sock[s].state \in Early \ {"listening"}
                         \/ sock'[s].state \notin Early /\ sock[s].state \notin Early,
           \A x \in Ids : pump'[x] # "off" => pump[x] # "off"
    PROVE  Owned'
  <1>1. live \subseteq Ids
    BY Known DEF Types
  <1>2. HostStates'
    <2> SUFFICES ASSUME NEW x \in live
                 PROVE  /\ sock[x].host = "listener" => sock'[x].state = "listening"
                        /\ sock[x].host = "socket" => sock'[x].state \notin Early
                        /\ pump[x] # "off" => sock'[x].state = "listening"
      BY <1>1 DEF HostStates
    <2> QED
      BY DEF Owned, HostStates, Early
  <1>3. \A x \in Ids : hostOpen'[x] = Handles(x)'
    BY DEF Owned, Handles
  <1> QED
    BY <1>2, <1>3 DEF Owned

LEMMA OwnedStep ==
    ASSUME Types, Owned, Kinds
    PROVE  Owned'
  <1>0. live \subseteq Ids /\ last + 1 \notin live /\ last + 2 \notin live /\ last \in Nat
        /\ sock \in [Ids -> Socks] /\ hostOpen \in [Ids -> Int] /\ pump \in [Ids -> {"off", "waiting", "got"}]
        /\ \A x \in Ids : sock[x].host \in {"none", "socket", "listener"}
    BY Known DEF Types, SockTypes, Socks, OtherTypes
  <1>p. \A x \in Ids : x = last + 1 \/ x = last + 2 => pump[x] = "off"
    BY <1>0 DEF Types, OtherTypes
  <1>1. ASSUME Calm PROVE Owned'
    <2>1. /\ live' = live /\ \A x \in Ids : sock'[x].host = sock[x].host /\ sock'[x].state = sock[x].state
          /\ hostOpen' = hostOpen /\ \A x \in Ids : pump'[x] # "off" => pump[x] # "off"
      BY <1>1 DEF Calm, Within, Keeps, Core
    <2> QED
      BY <1>0, <2>1, OwnedKept
  <1>2. ASSUME DisposeAll PROVE Owned'
    <2>1. live' = {} /\ hostOpen' = [s \in Ids |-> IF s \in live THEN HostClosed(s) ELSE hostOpen[s]]
      BY <1>2 DEF DisposeAll
    <2>2. \A s \in Ids : hostOpen'[s] = 0
      BY <2>1 DEF Owned, Handles, HostClosed
    <2> QED
      BY <2>1, <2>2 DEF Owned, HostStates, Handles
  <1>3. ASSUME NEW n \in Ids, Creates(n) PROVE Owned'
    <2>1. /\ live' = live \cup {n} /\ n \notin live /\ sock'[n].host = "none"
          /\ \A x \in Ids \ {n} : sock'[x] = sock[x]
          /\ hostOpen' = hostOpen /\ pump' = pump /\ pump[n] = "off"
      BY <1>0, <1>p, <1>3 DEF Creates
    <2> QED
      BY <1>0, <2>1 DEF Owned, HostStates, Handles
  <1>4. ASSUME NEW a \in Ids, NEW b \in Ids, Pairs(a, b) PROVE Owned'
    <2>1. /\ live' = live \cup {a, b} /\ a \notin live /\ b \notin live /\ sock'[a].host = "none"
          /\ sock'[b].host = "none" /\ \A x \in Ids \ {a, b} : sock'[x] = sock[x]
          /\ hostOpen' = hostOpen /\ pump' = pump /\ pump[a] = "off" /\ pump[b] = "off"
      BY <1>0, <1>p, <1>4 DEF Pairs
    <2> QED
      BY <1>0, <2>1 DEF Owned, HostStates, Handles
  <1>5. ASSUME NEW s \in Ids, NEW a \in Addrs, Registers(s, a) PROVE Owned'
    <2>1. live' = live /\ \A x \in Ids : sock'[x].host = sock[x].host
      BY <1>5 DEF Registers, Within, Keeps, Core
    <2>2. sock[s].state \in Early \ {"listening"} /\ (\A x \in Ids \ {s} : sock'[x] = sock[x])
          /\ hostOpen' = hostOpen /\ pump' = pump
      BY <1>5 DEF Registers, Early
    <2> QED
      BY <1>0, <2>1, <2>2, OwnedKept
  <1>6. ASSUME NEW s \in Ids, Listens(s) \/ Switches(s) PROVE Owned'
    <2>1. live' = live /\ \A x \in Ids : sock'[x].host = sock[x].host
      BY <1>6 DEF Listens, Switches, Within, Keeps, Core
    <2>2. sock[s].state \in Early \ {"listening"} /\ (\A x \in Ids \ {s} : sock'[x] = sock[x])
          /\ hostOpen' = hostOpen /\ pump' = pump
      BY <1>6 DEF Listens, Switches, Early
    <2> QED
      BY <1>0, <2>1, <2>2, OwnedKept
  <1>7. ASSUME NEW s \in Ids, Takes(s) PROVE Owned'
    <2>1. /\ live' = live /\ \A x \in Ids : sock'[x].host = sock[x].host /\ sock'[x].state = sock[x].state
          /\ hostOpen' = hostOpen /\ pump' = pump
      BY <1>7 DEF Takes, Within, Keeps, Core
    <2> QED
      BY <1>0, <2>1, OwnedKept
  <1>8. ASSUME NEW s \in Ids, Closes(s) PROVE Owned'
    <2>1. live' = live /\ \A x \in Ids : sock'[x].host = sock[x].host
      BY <1>8 DEF Closes, Within, Keeps, Core
    <2>2. sock'[s].state \notin Early /\ (\A x \in Ids \ {s} : sock'[x].state = sock[x].state)
          /\ hostOpen' = hostOpen /\ pump' = pump /\ sock[s].state \notin Early
      BY <1>8 DEF Closes, Early, Owned, HostStates
    <2> QED
      BY <1>0, <2>1, <2>2, OwnedKept
  <1>9. ASSUME NEW s \in Ids, Pumps(s) PROVE Owned'
    <2> DEFINE n == last + 1
    <2>1. /\ live' = live \cup {n} /\ n \notin live /\ n \in Ids /\ sock'[n].host = "socket"
          /\ sock'[n].state = "connected" /\ hostOpen' = [hostOpen EXCEPT ![n] = 1]
          /\ \A x \in Ids \ {n} : sock'[x].host = sock[x].host /\ sock'[x].state = sock[x].state
          /\ pump[n] = "off" /\ \A x \in Ids : pump'[x] # "off" => pump[x] # "off"
      BY <1>0, <1>p, <1>9 DEF Pumps, Pumped, Fields, IsNew
    <2> HIDE DEF n
    <2>2. HostStates'
      BY <1>0, <2>1 DEF Owned, HostStates, Early
    <2>3. \A x \in Ids : hostOpen'[x] = Handles(x)'
      BY <1>0, <2>1 DEF Owned, Handles
    <2> QED
      BY <2>2, <2>3 DEF Owned
  <1>10. ASSUME NEW s \in Ids, NEW l \in Ids, Links(s, l) PROVE Owned'
    <2> DEFINE n == last + 1
    <2>1. /\ live' = live \cup {n} /\ n \notin live /\ n \in Ids /\ sock'[n].host = "none"
          /\ sock'[n].state = "connected" /\ sock'[s].state = "connected" /\ s \in live
          /\ sock[s].state \in {"created", "bound"}
          /\ \A x \in Ids \ {n, s} : sock'[x].state = sock[x].state
          /\ \A x \in Ids \ {n} : sock'[x].host = sock[x].host
          /\ hostOpen' = hostOpen /\ pump' = pump /\ pump[n] = "off"
      <3>1. Linked(s, l, n) /\ live' = live \cup {n} /\ s \in live /\ sock[s].state \in {"created", "bound"}
            /\ hostOpen' = hostOpen /\ pump' = pump /\ n \notin live
        BY <1>0, <1>10 DEF Links
      <3>2. n \in Ids /\ pump[n] = "off"
        BY <1>p, <3>1 DEF Linked
      <3> HIDE DEF n
      <3>3. sock'[n].host = "none" /\ sock'[n].state = "connected" /\ sock'[s].state = "connected"
            /\ (\A x \in Ids \ {n, s} : sock'[x].state = sock[x].state)
            /\ \A x \in Ids \ {n} : sock'[x].host = sock[x].host
        BY <3>1 DEF Linked, IsNew, Fields
      <3> QED
        BY <3>1, <3>2, <3>3
    <2> HIDE DEF n
    <2>2. sock[s].host = "none" /\ pump[s] = "off"
      BY <1>0, <2>1 DEF Owned, HostStates, Early
    <2>3. HostStates'
      BY <1>0, <2>1, <2>2 DEF Owned, HostStates, Early
    <2>4. \A x \in Ids : hostOpen'[x] = Handles(x)'
      BY <1>0, <2>1 DEF Owned, Handles
    <2> QED
      BY <2>3, <2>4 DEF Owned
  <1>11. ASSUME NEW closing \in SUBSET live, Destroys(closing) PROVE Owned'
    <2> DEFINE D == Doomed(closing)
    <2>1. /\ live' = live \ D /\ D \subseteq live
          /\ hostOpen' = [s \in Ids |-> IF s \in D THEN HostClosed(s) ELSE hostOpen[s]]
          /\ pump' = [s \in Ids |-> IF s \in D /\ pump[s] = "waiting" THEN "off" ELSE pump[s]]
          /\ \A x \in Ids \ D : sock'[x].state = sock[x].state /\ sock'[x].host = sock[x].host
      <3>1. Destroy(closing)
        BY <1>11 DEF Destroys
      <3>2. /\ D \subseteq live
            /\ \A x \in Ids \ D : \A f \in Fields \ {"peer", "readers"} : sock'[x][f] = sock[x][f]
        BY <3>1, DestroyEffect
      <3> QED
        BY <3>1, <3>2 DEF Destroy, Fields
    <2> HIDE DEF D
    <2>2. HostStates'
      BY <1>0, <2>1 DEF Owned, HostStates
    <2>3. \A x \in Ids : hostOpen'[x] = Handles(x)'
      BY <1>0, <2>1 DEF Owned, Handles, HostClosed
    <2> QED
      BY <2>2, <2>3 DEF Owned
  <1>12. ASSUME NEW s \in Ids, Relistens(s) \/ Attaches(s) PROVE Owned'
    <2>1. /\ live' = live /\ s \in live /\ \A x \in Ids \ {s} : sock'[x] = sock[x]
          /\ sock[s].state \in {"created", "bound", "connecting"} /\ hostOpen' = [hostOpen EXCEPT ![s] = @ + 1]
          /\ \/ sock'[s].state = "listening" /\ sock'[s].host = "listener" /\ pump' = [pump EXCEPT ![s] = "waiting"]
             \/ sock'[s].state = "connected" /\ sock'[s].host = "socket" /\ pump' = pump
      BY <1>12 DEF Relistens, Attaches, Within
    <2>2. sock[s].host = "none" /\ pump[s] = "off"
      BY <1>0, <2>1 DEF Owned, HostStates, Early
    <2>3. HostStates'
      BY <1>0, <2>1, <2>2 DEF Owned, HostStates, Early
    <2>4. hostOpen[s] = 0
      BY <2>2 DEF Owned, Handles
    <2>5. \A x \in Ids : hostOpen'[x] = Handles(x)'
      BY <1>0, <2>1, <2>4 DEF Owned, Handles
    <2> QED
      BY <2>3, <2>5 DEF Owned
  <1> QED
    BY <1>1, <1>2, <1>3, <1>4, <1>5, <1>6, <1>7, <1>8, <1>9, <1>10, <1>11, <1>12 DEF Kinds

LEMMA OwnedHolds == Spec => [](~astray => Owned)
  <1>1. ASSUME Init PROVE Owned
    <2>1. PICK a \in Inet : Starting(a)
      BY <1>1, Start
    <2>2. live \subseteq Ids
      BY <1>1, StartTypes, Known DEF Types
    <2>3. pump = [s \in Ids |-> "off"] /\ hostOpen = [s \in Ids |-> 0]
      BY <1>1 DEF Init
    <2>4. \A s \in Ids : sock[s].host = "none"
      BY <2>1 DEF Starting
    <2> QED
      BY <2>2, <2>3, <2>4 DEF Owned, HostStates, Handles
  <1>2. ASSUME Types, ~astray => Asked, ~astray => Owned, [Next]_vars, ~astray' PROVE Owned'
    <2>1. CASE Next
      BY <1>2, <2>1, StepKinds, OwnedStep
    <2>2. CASE UNCHANGED vars
      BY <1>2, <2>2 DEF vars, Owned, HostStates, Handles
    <2> QED
      BY <1>2, <2>1, <2>2
  <1>3. Init => (~astray => Owned)
    BY <1>1
  <1>4. Types /\ (~astray => Asked) /\ (~astray => Owned) /\ [Next]_vars => (~astray => Owned)'
    BY <1>2
  <1> QED
    BY <1>3, <1>4, TypesHold, AskedHolds, PTL DEF Spec

\* Until a resumed call goes astray, a kernel socket has a host handle open as
\* long as it is in the table and knows of one, and never two: listen, connect
\* and the accept pump open it, destroySocket and disposeAll close it.
THEOREM HandlesNotLeaked == Spec => []HostHandlesOwned
  <1>1. (~astray => Owned) => HostHandlesOwned
    BY DEF Owned, Handles, HostHandlesOwned
  <1> QED
    BY <1>1, OwnedHolds, PTL

----------------------------------------------------------------------------
(* Registrations *)

Named == {"bound", "listening"}

\* The third part says that only a socket with an address is bound.
Registered ==
    /\ \A a \in Addrs \ stale : listeners[a] # None => listeners[a] \in live /\ sock[listeners[a]].local = a
    /\ \A s \in live \ displaced : sock[s].state \in Named => listeners[sock[s].local] = s
    /\ \A s \in live : sock[s].state \in Named => sock[s].local \in Addrs

\* Steps that register nothing, drop no socket and give none an address.
LEMMA RegisteredKept ==
    ASSUME Types, Registered, live \subseteq live', listeners' = listeners, displaced' = displaced /\ stale' = stale,
           \A x \in live : sock'[x].local = sock[x].local,
           \A x \in live' : sock'[x].state \in Named => x \in live /\ sock[x].state \in Named
    PROVE  Registered'
  <1>1. \A a \in Addrs \ stale' : listeners'[a] # None => listeners'[a] \in live' /\ sock'[listeners'[a]].local = a
    BY DEF Registered
  <1>2. \A s \in live' \ displaced' : sock'[s].state \in Named => listeners'[sock'[s].local] = s
    BY DEF Registered
  <1>3. \A s \in live' : sock'[s].state \in Named => sock'[s].local \in Addrs
    BY DEF Registered
  <1> QED
    BY <1>1, <1>2, <1>3 DEF Registered, Named

LEMMA RegisteredStep ==
    ASSUME Types, Registered, Kinds
    PROVE  Registered'
  <1>0. live \subseteq Ids /\ last + 1 \notin live /\ last + 2 \notin live /\ None \notin Ids /\ None \notin Addrs
        /\ sock \in [Ids -> Socks] /\ listeners \in [Addrs -> Ids \cup {None}]
    BY Known, NoneAssumption DEF Types, SockTypes, OtherTypes, Ids
  <1>1. ASSUME Calm \/ \E s \in Ids : Takes(s) PROVE Registered'
    <2>1. /\ live' = live /\ listeners' = listeners /\ displaced' = displaced /\ stale' = stale
          /\ \A x \in Ids : sock'[x].local = sock[x].local /\ sock'[x].state = sock[x].state
      BY <1>1 DEF Calm, Takes, Within, Keeps, Core
    <2> QED
      BY <1>0, <2>1, RegisteredKept
  <1>2. ASSUME DisposeAll PROVE Registered'
    BY <1>2 DEF DisposeAll, Registered
  <1>3. ASSUME NEW n \in Ids, Creates(n) PROVE Registered'
    <2>1. live' = live \cup {n} /\ n \notin live /\ sock'[n].state \notin Named
          /\ listeners' = listeners /\ displaced' = displaced /\ stale' = stale /\ \A x \in Ids \ {n} : sock'[x] = sock[x]
      BY <1>0, <1>3 DEF Creates, IsNew, Named
    <2> QED
      BY <1>0, <2>1, RegisteredKept
  <1>4. ASSUME NEW a \in Ids, NEW b \in Ids, Pairs(a, b) PROVE Registered'
    <2>1. live' = live \cup {a, b} /\ a \notin live /\ b \notin live
          /\ sock'[a].state \notin Named /\ sock'[b].state \notin Named
          /\ listeners' = listeners /\ displaced' = displaced /\ stale' = stale /\ \A x \in Ids \ {a, b} : sock'[x] = sock[x]
      BY <1>0, <1>4 DEF Pairs, IsNew, Named
    <2> QED
      BY <1>0, <2>1, RegisteredKept
  <1>5. ASSUME NEW s \in Ids, NEW a \in Addrs, Registers(s, a) PROVE Registered'
    <2>1. /\ live' = live /\ s \in live /\ stale' = stale \cup {k \in Addrs \ {a} : listeners[k] = s}
          /\ \A x \in Ids \ {s} : sock'[x] = sock[x]
          /\ sock'[s].local = a /\ listeners' = [listeners EXCEPT ![a] = s]
          /\ displaced' = displaced \cup ({listeners[a]} \ {None, s})
      BY <1>5 DEF Registers, Within
    <2>2. ASSUME NEW k \in Addrs \ stale', listeners'[k] # None
          PROVE  listeners'[k] \in live /\ sock'[listeners'[k]].local = k
      <3>1. CASE k = a
        BY <1>0, <2>1, <3>1
      <3>2. CASE k # a
        <4>1. listeners'[k] = listeners[k]
          BY <1>0, <2>1, <3>2
        <4>a. k \notin stale /\ listeners[k] # s
          BY <2>1, <2>2, <3>2
        <4>2. listeners[k] \in live /\ listeners[k] # s /\ sock[listeners[k]].local = k
          BY <2>2, <4>1, <4>a DEF Registered
        <4> QED
          BY <1>0, <2>1, <4>1, <4>2
      <3> QED
        BY <3>1, <3>2
    <2>3. ASSUME NEW x \in live, x \notin displaced', sock'[x].state \in Named
          PROVE  listeners'[sock'[x].local] = x
      <3>1. CASE x = s
        BY <1>0, <2>1, <3>1
      <3>2. CASE x # s
        <4>1. sock'[x] = sock[x] /\ x \notin displaced /\ x # None
          BY <1>0, <2>1, <2>3, <3>2
        <4>2. listeners[sock[x].local] = x /\ sock[x].local \in Addrs
          BY <2>3, <4>1 DEF Registered
        <4>3. sock[x].local # a
          BY <2>1, <2>3, <3>2, <4>1, <4>2
        <4> QED
          BY <1>0, <2>1, <4>1, <4>2, <4>3
      <3> QED
        BY <3>1, <3>2
    <2>4. \A x \in live : sock'[x].state \in Named => sock'[x].local \in Addrs
      BY <1>0, <2>1 DEF Registered
    <2> QED
      BY <2>1, <2>2, <2>3, <2>4 DEF Registered
  <1>6. ASSUME NEW s \in Ids, Listens(s) \/ Switches(s) \/ Attaches(s) PROVE Registered'
    <2>1. live' = live /\ \A x \in Ids : sock'[x].local = sock[x].local
      BY <1>6 DEF Listens, Switches, Attaches, Within, Keeps, Core
    <2>2. /\ sock'[s].state \in Named => sock[s].state \in Named
          /\ \A x \in Ids \ {s} : sock'[x] = sock[x]
          /\ listeners' = listeners /\ displaced' = displaced /\ stale' = stale
      BY <1>6 DEF Listens, Switches, Attaches, Named
    <2> QED
      BY <1>0, <2>1, <2>2, RegisteredKept
  <1>7. ASSUME NEW s \in Ids, Closes(s) PROVE Registered'
    <2>1. live' = live /\ \A x \in Ids : sock'[x].local = sock[x].local
      BY <1>7 DEF Closes, Within, Keeps, Core
    <2>2. sock'[s].state \notin Named /\ (\A x \in Ids \ {s} : sock'[x].state = sock[x].state)
          /\ listeners' = listeners /\ displaced' = displaced /\ stale' = stale
      BY <1>7 DEF Closes, Named
    <2> QED
      BY <1>0, <2>1, <2>2, RegisteredKept
  <1>8. ASSUME NEW s \in Ids, Pumps(s) PROVE Registered'
    <2> DEFINE n == last + 1
    <2>1. /\ live' = live \cup {n} /\ n \notin live /\ n \in Ids /\ sock'[n].state = "connected"
          /\ \A x \in Ids \ {n} : sock'[x].local = sock[x].local /\ sock'[x].state = sock[x].state
          /\ listeners' = listeners /\ displaced' = displaced /\ stale' = stale
      BY <1>0, <1>8 DEF Pumps, Pumped, Fields, IsNew
    <2> HIDE DEF n
    <2>2. sock'[n].state \notin Named
      BY <2>1 DEF Named
    <2> QED
      BY <1>0, <2>1, <2>2, RegisteredKept
  <1>9. ASSUME NEW s \in Ids, NEW l \in Ids, Links(s, l) PROVE Registered'
    <2> DEFINE n == last + 1
    <2>1. /\ Linked(s, l, n) /\ live' = live \cup {n} /\ n \notin live
          /\ listeners' = listeners /\ displaced' = displaced /\ stale' = stale
      BY <1>0, <1>9 DEF Links
    <2> HIDE DEF n
    <2>2. /\ n \in Ids /\ sock'[n].state = "connected" /\ sock'[s].state = "connected"
          /\ \A x \in Ids \ {n, s} : sock'[x].state = sock[x].state
          /\ \A x \in Ids \ {n} : sock'[x].local = sock[x].local
      BY <2>1 DEF Linked, IsNew, Fields
    <2>3. sock'[n].state \notin Named /\ sock'[s].state \notin Named
      BY <2>2 DEF Named
    <2> QED
      BY <1>0, <2>1, <2>2, <2>3, RegisteredKept
  <1>10. ASSUME NEW closing \in SUBSET live, Destroys(closing) PROVE Registered'
    <2> DEFINE D == Doomed(closing)
    <2>1. /\ live' = live \ D /\ D \subseteq live /\ displaced' = displaced /\ stale' = stale
          /\ listeners' = [z \in Addrs |-> IF z \in Freed(D) THEN None ELSE listeners[z]]
          /\ \A x \in Ids \ D : sock'[x].state = sock[x].state /\ sock'[x].local = sock[x].local
      <3>1. Destroy(closing)
        BY <1>10 DEF Destroys
      <3>2. /\ D \subseteq live
            /\ \A x \in Ids \ D : \A f \in Fields \ {"peer", "readers"} : sock'[x][f] = sock[x][f]
        BY <3>1, DestroyEffect
      <3>3. displaced' = displaced /\ stale' = stale
        BY <3>1 DEF Destroy, history
      <3> QED
        BY <3>1, <3>2, <3>3 DEF Destroy, Fields
    <2> HIDE DEF D
    <2>2. ASSUME NEW k \in Addrs \ stale, listeners'[k] # None
          PROVE  listeners'[k] \in live' /\ sock'[listeners'[k]].local = k
      <3>1. k \notin Freed(D) /\ listeners'[k] = listeners[k]
        BY <2>1, <2>2
      <3>2. listeners[k] \in live /\ sock[listeners[k]].local = k
        BY <2>2, <3>1 DEF Registered
      <3>3. listeners[k] \notin D
        BY <3>1, <3>2 DEF Freed
      <3> QED
        BY <1>0, <2>1, <3>1, <3>2, <3>3
    <2>3. ASSUME NEW x \in live' \ displaced, sock'[x].state \in Named PROVE listeners'[sock'[x].local] = x
      <3>1. x \in live \ displaced /\ x \notin D /\ sock[x].state \in Named /\ sock'[x].local = sock[x].local
        BY <1>0, <2>1, <2>3
      <3>2. listeners[sock[x].local] = x /\ sock[x].local \in Addrs
        BY <3>1 DEF Registered
      <3>3. sock[x].local \notin Freed(D)
        BY <3>1, <3>2 DEF Freed
      <3> QED
        BY <2>1, <3>1, <3>2, <3>3
    <2>4. \A x \in live' : sock'[x].state \in Named => sock'[x].local \in Addrs
      BY <1>0, <2>1 DEF Registered
    <2> QED
      BY <2>1, <2>2, <2>3, <2>4 DEF Registered
  <1>11. ASSUME NEW s \in Ids, Relistens(s) PROVE Registered'
    <2> DEFINE old == sock[s].local   new == sock'[s].local
    <2>1. /\ live' = live /\ s \in live /\ (\A x \in Ids \ {s} : sock'[x] = sock[x]) /\ sock[s].state \in Named
          /\ stale' = stale
      BY <1>11 DEF Relistens, Within, Named
    <2>2. CASE /\ new = old /\ listeners' = listeners
               /\ displaced' = displaced \cup ({listeners[old]} \ {None, s})
      <3>1. \A k \in Addrs \ stale : listeners'[k] # None => listeners'[k] \in live /\ sock'[listeners'[k]].local = k
        BY <1>0, <2>1, <2>2 DEF Registered
      <3>2. \A x \in live \ displaced' : sock'[x].state \in Named => listeners'[sock'[x].local] = x
        BY <1>0, <2>1, <2>2 DEF Registered
      <3>3. \A x \in live : sock'[x].state \in Named => sock'[x].local \in Addrs
        BY <1>0, <2>1, <2>2 DEF Registered
      <3> QED
        BY <2>1, <3>1, <3>2, <3>3 DEF Registered
    <2>3. CASE /\ old \in Addrs /\ new \in Addrs
               /\ listeners' = [listeners EXCEPT ![old] = None, ![new] = s]
               /\ displaced' = displaced \cup ({listeners[old], listeners[new]} \ {None, s})
      <3>1. ASSUME NEW k \in Addrs \ stale, listeners'[k] # None
            PROVE  listeners'[k] \in live /\ sock'[listeners'[k]].local = k
        <4>1. CASE k = new
          BY <1>0, <2>1, <2>3, <4>1
        <4>2. CASE k # new
          <5>1. k # old /\ listeners'[k] = listeners[k]
            BY <1>0, <2>3, <3>1, <4>2
          <5>2. listeners[k] \in live /\ sock[listeners[k]].local = k
            BY <3>1, <5>1 DEF Registered
          <5>3. listeners[k] # s
            BY <5>1, <5>2
          <5> QED
            BY <1>0, <2>1, <5>1, <5>2, <5>3
        <4> QED
          BY <4>1, <4>2
      <3>2. ASSUME NEW x \in live, x \notin displaced', sock'[x].state \in Named
            PROVE  listeners'[sock'[x].local] = x
        <4>1. CASE x = s
          BY <1>0, <2>3, <4>1
        <4>2. CASE x # s
          <5>1. sock'[x] = sock[x] /\ x \notin displaced /\ x # None
            BY <1>0, <2>1, <2>3, <3>2, <4>2
          <5>2. listeners[sock[x].local] = x /\ sock[x].local \in Addrs
            BY <3>2, <5>1 DEF Registered
          <5>3. sock[x].local # old /\ sock[x].local # new
            BY <2>3, <3>2, <4>2, <5>1, <5>2
          <5> HIDE DEF old, new
          <5> QED
            BY <1>0, <2>3, <5>1, <5>2, <5>3
        <4> QED
          BY <4>1, <4>2
      <3>3. \A x \in live : sock'[x].state \in Named => sock'[x].local \in Addrs
        BY <1>0, <2>1, <2>3 DEF Registered
      <3> QED
        BY <2>1, <3>1, <3>2, <3>3 DEF Registered
    <2> QED
      BY <1>11, <2>2, <2>3 DEF Relistens
  <1> QED
    BY <1>1, <1>2, <1>3, <1>4, <1>5, <1>6, <1>7, <1>8, <1>9, <1>10, <1>11 DEF Kinds

LEMMA RegisteredHolds == Spec => [](~astray => Registered)
  <1>1. ASSUME Init PROVE Registered
    <2>1. PICK a \in Inet : Starting(a)
      BY <1>1, Start
    <2>2. live \subseteq Ids /\ a \in Addrs
      BY <1>1, StartTypes, Known DEF Types, Addrs
    <2>3. \A s \in live : sock[s].state \in Named => s = 1 /\ sock[s].local = a
      BY <2>1, <2>2 DEF Starting, Named
    <2>4. /\ \A x \in Addrs : listeners[x] # None => listeners[x] = 1 /\ x = a /\ 1 \in live /\ sock[1].local = a
          /\ live # {} => listeners[a] = 1
      BY <2>1, <2>2 DEF Starting
    <2> QED
      BY <2>2, <2>3, <2>4 DEF Registered
  <1>2. ASSUME Types, ~astray => Asked, ~astray => Registered, [Next]_vars, ~astray' PROVE Registered'
    <2>1. CASE Next
      BY <1>2, <2>1, StepKinds, RegisteredStep
    <2>2. CASE UNCHANGED vars
      BY <1>2, <2>2 DEF vars, Registered, Named
    <2> QED
      BY <1>2, <2>1, <2>2
  <1>3. Init => (~astray => Registered)
    BY <1>1
  <1>4. Types /\ (~astray => Asked) /\ (~astray => Registered) /\ [Next]_vars => (~astray => Registered)'
    BY <1>2
  <1> QED
    BY <1>3, <1>4, TypesHold, AskedHolds, PTL DEF Spec

\* Until a resumed call goes astray, `listeners' and the sockets agree: no
\* registration outlives its socket but one left from an earlier bind of a
\* socket bound anew after a failed connect (stale), and bind, listen and the
\* port the host chose keep every bound socket findable unless they took its
\* address (displaced).
THEOREM RegistrationsAgree == Spec => []RegistrationsLive
  <1>1. (~astray => Registered) => RegistrationsLive
    BY DEF Registered, Named, RegistrationsLive
  <1> QED
    BY <1>1, RegisteredHolds, PTL

----------------------------------------------------------------------------
(* Connections *)

\* s waits to be accepted from l, and from nobody else.
WaitsAt(s, l) ==
    /\ sock[l].state = "listening" /\ s \in Range(sock[l].backlog)
    /\ \A m \in Ids \ {l} : s \notin Range(sock[m].backlog)

\* A connection waits in one place, once, and was given to nobody: what a backlog holds is either
\* such a connection or a socket that is gone.
Waited ==
    /\ \A s \in live : Unaccepted(s) => sock[s].state \notin Early
    /\ \A m \in Ids : IsInjective(sock[m].backlog)
    /\ \A m \in Ids : \A s \in Range(sock[m].backlog) : s \in live => Unaccepted(s)
    /\ \A s \in live : Unaccepted(s) => \E l \in live : WaitsAt(s, l)

\* The same for the state after a step.
NewlyUnaccepted(s) == ~sock'[s].given /\ sock'[s].state # "created"

LEMMA Nowhere ==
    ASSUME Types
    PROVE  \A m \in Ids : last + 1 \notin Range(sock[m].backlog) /\ last + 2 \notin Range(sock[m].backlog)
  <1>1. last \in Nat /\ \A m \in Ids : Range(sock[m].backlog) \subseteq 1 .. last
    BY Known DEF Types, SockTypes
  <1> QED
    BY <1>1

LEMMA NoneWaits ==
    IsInjective(<<>>) /\ Range(<<>>) = {}
  BY DEF IsInjective, Range

\* Steps that move no connection and close no listener.
LEMMA WaitedKept ==
    ASSUME Types, Waited, live' = live,
           \A x \in Ids : sock'[x].backlog = sock[x].backlog /\ sock'[x].given = sock[x].given,
           \A x \in live : sock'[x].state \in Early => sock[x].state \in Early,
           \A x \in live : ~sock[x].given => (sock'[x].state = "created" <=> sock[x].state = "created"),
           \A x \in live : sock[x].state = "listening" => sock'[x].state = "listening"
    PROVE  Waited'
  <1>1. live \subseteq Ids
    BY Known DEF Types
  <1>2. \A s \in live : NewlyUnaccepted(s) => sock'[s].state \notin Early
    BY <1>1 DEF Waited, Unaccepted, NewlyUnaccepted
  <1>3. \A m \in Ids : IsInjective(sock'[m].backlog)
    BY DEF Waited
  <1>4. \A m \in Ids : \A s \in Range(sock'[m].backlog) : s \in live => NewlyUnaccepted(s)
    BY <1>1 DEF Waited, Unaccepted, NewlyUnaccepted
  <1>5. \A s \in live : NewlyUnaccepted(s) => \E l \in live : WaitsAt(s, l)'
    BY <1>1 DEF Waited, WaitsAt, Unaccepted, NewlyUnaccepted
  <1> QED
    BY <1>2, <1>3, <1>4, <1>5 DEF Waited, Early, Unaccepted, NewlyUnaccepted

\* A new socket n joins the backlog of the listener l.
LEMMA WaitedJoin ==
    ASSUME Types, Waited, NEW l \in live, sock[l].state = "listening", sock'[l].state = "listening",
           NEW n \in Ids, n = last + 1, live' = live \cup {n},
           sock'[n].given = FALSE, sock'[n].state = "connected", sock'[n].backlog = <<>>,
           sock'[l].backlog = Append(sock[l].backlog, n),
           \A x \in Ids \ {n} : sock'[x].given = sock[x].given,
           \A x \in Ids \ {n, l} : sock'[x].backlog = sock[x].backlog,
           \A x \in live : sock'[x].state \in Early => sock[x].state \in Early,
           \A x \in live : ~sock[x].given => (sock'[x].state = "created" <=> sock[x].state = "created"),
           \A x \in live : sock[x].state = "listening" => sock'[x].state = "listening"
    PROVE  Waited'
  <1>0. live \subseteq Ids /\ n \notin live /\ (\A m \in Ids : n \notin Range(sock[m].backlog))
        /\ sock[l].backlog \in Seq(Ids)
    BY Known, Nowhere DEF Types, SockTypes, Socks
  <1>1. IsInjective(sock'[l].backlog) /\ Range(sock'[l].backlog) = Range(sock[l].backlog) \cup {n}
    BY <1>0, QueueAppend DEF Waited
  <1>2. IsInjective(sock'[n].backlog) /\ Range(sock'[n].backlog) = {}
    BY NoneWaits
  <1>3. \A x \in Ids : /\ IsInjective(sock'[x].backlog)
                       /\ x \notin {n, l} => Range(sock'[x].backlog) = Range(sock[x].backlog)
    BY <1>1, <1>2 DEF Waited
  <1>4. \A s \in live' : NewlyUnaccepted(s) => sock'[s].state \notin Early
    BY <1>0 DEF Waited, Early, Unaccepted, NewlyUnaccepted
  <1>5. ASSUME NEW m \in Ids, NEW s \in Range(sock'[m].backlog), s \in live' PROVE NewlyUnaccepted(s)
    <2>1. CASE s = n
      BY <2>1 DEF NewlyUnaccepted
    <2>2. CASE s # n
      <3>1. s \in live /\ s \in Range(sock[m].backlog)
        BY <1>1, <1>2, <1>3, <1>5, <2>2
      <3> QED
        BY <1>0, <2>2, <3>1 DEF Waited, Unaccepted, NewlyUnaccepted
    <2> QED
      BY <2>1, <2>2
  <1>6. WaitsAt(n, l)'
    BY <1>0, <1>1, <1>2, <1>3 DEF WaitsAt
  <1>7. ASSUME NEW s \in live, NewlyUnaccepted(s) PROVE \E k \in live : WaitsAt(s, k)'
    <2>1. PICK k \in live : WaitsAt(s, k)
      BY <1>0, <1>7 DEF Waited, Unaccepted, NewlyUnaccepted
    <2>2. sock'[k].state = "listening" /\ s \in Range(sock'[k].backlog)
      BY <1>0, <1>1, <1>3, <2>1 DEF WaitsAt
    <2>3. \A m \in Ids \ {k} : s \notin Range(sock'[m].backlog)
      BY <1>0, <1>1, <1>2, <1>3, <2>1 DEF WaitsAt
    <2> QED
      BY <2>2, <2>3 DEF WaitsAt
  <1>8. \A s \in live' : NewlyUnaccepted(s) => \E k \in live' : WaitsAt(s, k)'
    BY <1>6, <1>7
  <1> QED
    BY <1>3, <1>4, <1>5, <1>8 DEF Waited, Unaccepted, NewlyUnaccepted

LEMMA WaitedStep ==
    ASSUME Types, Owned, Waited, Kinds
    PROVE  Waited'
  <1>0. live \subseteq Ids /\ last + 1 \notin live /\ last + 2 \notin live
        /\ sock \in [Ids -> Socks] /\ \A x \in Ids : sock[x].backlog \in Seq(Ids)
    BY Known DEF Types, SockTypes, Socks
  <1>1. ASSUME Calm PROVE Waited'
    <2>1. /\ live' = live
          /\ \A x \in Ids : sock'[x].backlog = sock[x].backlog /\ sock'[x].given = sock[x].given
                            /\ sock'[x].state = sock[x].state
      BY <1>1 DEF Calm, Within, Keeps, Core
    <2> QED
      BY <1>0, <2>1, WaitedKept
  <1>2. ASSUME DisposeAll PROVE Waited'
    <2>1. live' = {} /\ \A x \in Ids : sock'[x].backlog = sock[x].backlog
      BY <1>2, DisposeEffect DEF DisposeAll, Keeps, Fields
    <2> QED
      BY <2>1 DEF Waited
  <1>3. ASSUME NEW N \in SUBSET Ids, N \subseteq {last + 1, last + 2}, live' = live \cup N,
               \A x \in N : (sock'[x].given \/ sock'[x].state = "created") /\ sock'[x].backlog = <<>>,
               \A x \in Ids \ N : sock'[x] = sock[x]
        PROVE  Waited'
    <2>1. \A x \in Ids : \A m \in N : m \notin Range(sock[x].backlog)
      BY <1>3, Nowhere
    <2>2. \A x \in Ids : /\ IsInjective(sock'[x].backlog)
                         /\ Range(sock'[x].backlog) \subseteq Range(sock[x].backlog)
                         /\ x \notin N => sock'[x] = sock[x]
      <3>1. \A x \in N : sock'[x].backlog = <<>>
        BY <1>3
      <3> QED
        BY <1>3, <3>1, NoneWaits DEF Waited
    <2>3. \A s \in live' : NewlyUnaccepted(s) => s \in live /\ sock'[s] = sock[s]
      BY <1>0, <1>3 DEF NewlyUnaccepted
    <2>4. \A s \in live' : NewlyUnaccepted(s) => sock'[s].state \notin Early
      BY <2>3 DEF Waited, Unaccepted, NewlyUnaccepted
    <2>5. \A m \in Ids : \A s \in Range(sock'[m].backlog) : s \in live' => NewlyUnaccepted(s)
      BY <1>0, <1>3, <2>1, <2>2 DEF Waited, Unaccepted, NewlyUnaccepted
    <2>6. ASSUME NEW s \in live, Unaccepted(s) PROVE \E k \in live : WaitsAt(s, k)'
      <3>1. PICK k \in live : WaitsAt(s, k)
        BY <2>6 DEF Waited
      <3>2. k \notin N
        BY <1>0, <1>3
      <3> QED
        BY <1>0, <2>2, <3>1, <3>2 DEF WaitsAt
    <2> QED
      BY <1>3, <2>2, <2>3, <2>4, <2>5, <2>6 DEF Waited, Unaccepted, NewlyUnaccepted
  <1>4. ASSUME NEW n \in Ids, Creates(n) PROVE Waited'
    <2>1. {n} \in SUBSET Ids /\ {n} \subseteq {last + 1, last + 2} /\ live' = live \cup {n}
          /\ (\A x \in {n} : (sock'[x].given \/ sock'[x].state = "created") /\ sock'[x].backlog = <<>>) /\ \A x \in Ids \ {n} : sock'[x] = sock[x]
      BY <1>4 DEF Creates, IsNew
    <2> QED
      BY <1>3, <2>1
  <1>5. ASSUME NEW a \in Ids, NEW b \in Ids, Pairs(a, b) PROVE Waited'
    <2>1. {a, b} \in SUBSET Ids /\ {a, b} \subseteq {last + 1, last + 2} /\ live' = live \cup {a, b}
          /\ (\A x \in {a, b} : (sock'[x].given \/ sock'[x].state = "created") /\ sock'[x].backlog = <<>>)
          /\ \A x \in Ids \ {a, b} : sock'[x] = sock[x]
      BY <1>5 DEF Pairs, IsNew
    <2> QED
      BY <1>3, <2>1
  <1>6. ASSUME NEW s \in Ids, NEW a \in Addrs, Registers(s, a) PROVE Waited'
    <2>1. live' = live /\ \A x \in Ids : sock'[x].backlog = sock[x].backlog /\ sock'[x].given = sock[x].given
      BY <1>6 DEF Registers, Within, Keeps, Core
    <2>2. sock[s].state \in Early \ {"listening"} /\ sock[s].given /\ \A x \in Ids \ {s} : sock'[x] = sock[x]
      BY <1>6 DEF Registers, Early, Owns
    <2> QED
      BY <1>0, <2>1, <2>2, WaitedKept
  <1>7. ASSUME NEW s \in Ids, Listens(s) \/ Relistens(s) \/ Switches(s) \/ Attaches(s) PROVE Waited'
    <2>1. live' = live /\ \A x \in Ids : sock'[x].backlog = sock[x].backlog /\ sock'[x].given = sock[x].given
      BY <1>7 DEF Listens, Relistens, Switches, Attaches, Within, Keeps, Core
    <2>2. /\ sock[s].state \in Early \ {"listening"} /\ \A x \in Ids \ {s} : sock'[x] = sock[x]
          /\ s \in live /\ (sock[s].given \/ sock[s].state # "created")
      BY <1>7 DEF Listens, Relistens, Switches, Attaches, Early, Owns
    <2>3. sock[s].given
      BY <2>2 DEF Waited, Unaccepted
    <2> QED
      BY <1>0, <2>1, <2>2, <2>3, WaitedKept
  <1>8. ASSUME NEW s \in Ids, Closes(s) PROVE Waited'
    <2>1. live' = live /\ \A x \in Ids : sock'[x].backlog = sock[x].backlog /\ sock'[x].given = sock[x].given
      BY <1>8 DEF Closes, Within, Keeps, Core
    <2>2. sock'[s].state \notin Early /\ sock[s].state # "listening" /\ sock[s].state # "created"
          /\ \A x \in Ids \ {s} : sock'[x].state = sock[x].state
      BY <1>8 DEF Closes, Early, Owned, HostStates
    <2> QED
      BY <1>0, <2>1, <2>2, WaitedKept DEF Early
  <1>9. ASSUME NEW s \in Ids, Pumps(s) PROVE Waited'
    <2> DEFINE n == last + 1
    <2>1. Pumped(s, n) /\ live' = live \cup {n} /\ s \in live /\ n = last + 1
      BY <1>9 DEF Pumps
    <2> HIDE DEF n
    <2>2. /\ n \in Ids /\ s # n /\ sock'[n].state = "connected" /\ sock'[n].backlog = <<>> /\ sock'[n].given = FALSE
          /\ \A x \in Ids \ {n} : sock'[x].given = sock[x].given /\ sock'[x].state = sock[x].state
          /\ \A x \in Ids \ {n, s} : sock'[x].backlog = sock[x].backlog
          /\ sock'[s].backlog = Append(sock[s].backlog, n) /\ pump[s] = "got"
      BY <2>1 DEF Pumped, IsNew, Fields
    <2>3. sock[s].state = "listening" /\ sock'[s].state = "listening"
      BY <2>1, <2>2 DEF Owned, HostStates
    <2>4. n \notin live
      BY <1>0, <2>1
    <2>5. \A x \in live : sock'[x].state = sock[x].state
      BY <1>0, <2>2, <2>4
    <2> QED
      BY <2>1, <2>2, <2>3, <2>5, WaitedJoin
  <1>10. ASSUME NEW s \in Ids, NEW l \in Ids, Links(s, l) PROVE Waited'
    <2> DEFINE n == last + 1
    <2>1. /\ Linked(s, l, n) /\ live' = live \cup {n} /\ s \in live /\ sock[s].state \in {"created", "bound"}
          /\ n = last + 1 /\ l \in live /\ sock[l].state = "listening" /\ Owns(s)
      BY <1>10 DEF Links
    <2>a. sock[s].given
      BY <2>1 DEF Waited, Unaccepted, Owns, Early
    <2> HIDE DEF n
    <2>2. /\ n \in Ids /\ sock'[n].state = "connected" /\ sock'[n].backlog = <<>> /\ sock'[n].given = FALSE
          /\ \A x \in Ids \ {n} : sock'[x].given = sock[x].given
          /\ \A x \in Ids \ {n, s} : sock'[x].state = sock[x].state
          /\ \A x \in Ids \ {n, l} : sock'[x].backlog = sock[x].backlog
          /\ sock'[l].backlog = Append(sock[l].backlog, n) /\ sock'[s].state = "connected" /\ l # n
      BY <2>1 DEF Linked, IsNew, Fields
    <2>3. l # s /\ sock'[l].state = "listening"
      BY <1>0, <2>1, <2>2
    <2>4. n \notin live
      BY <1>0, <2>1
    <2>5. /\ \A x \in live : sock'[x].state \in Early => sock[x].state \in Early
          /\ \A x \in live : ~sock[x].given => (sock'[x].state = "created" <=> sock[x].state = "created")
          /\ \A x \in live : sock[x].state = "listening" => sock'[x].state = "listening"
      BY <1>0, <2>1, <2>a, <2>2, <2>4 DEF Early
    <2> QED
      BY <2>1, <2>2, <2>3, <2>5, WaitedJoin
  <1>11. ASSUME NEW s \in Ids, Takes(s) PROVE Waited'
    <2> DEFINE conn == Head(sock[s].backlog)
    <2>1. /\ live' = live /\ conn \in Ids /\ sock[s].backlog # <<>> /\ sock'[s].backlog = Tail(sock[s].backlog)
          /\ sock'[conn].given = TRUE /\ \A x \in Ids : sock'[x].state = sock[x].state
          /\ \A x \in Ids : /\ x # s => sock'[x].backlog = sock[x].backlog
                            /\ x # conn => sock'[x].given = sock[x].given
      BY <1>11 DEF Takes, Within, Keeps, Core
    <2>2. /\ IsInjective(Tail(sock[s].backlog)) /\ conn \in Range(sock[s].backlog)
          /\ Range(Tail(sock[s].backlog)) = Range(sock[s].backlog) \ {conn}
      BY <1>0, <2>1, QueueTail DEF Waited
    <2> HIDE DEF conn
    <2>3. \A x \in Ids : /\ IsInjective(sock'[x].backlog) /\ Range(sock'[x].backlog) \subseteq Range(sock[x].backlog)
                         /\ x # s => sock'[x].backlog = sock[x].backlog
      BY <2>1, <2>2 DEF Waited
    <2>4. \A x \in live : ~sock'[x].given => x # conn /\ ~sock[x].given
      BY <1>0, <2>1
    <2>5. \A x \in live : NewlyUnaccepted(x) => sock'[x].state \notin Early
      BY <1>0, <2>1, <2>4 DEF Waited, Unaccepted, NewlyUnaccepted
    <2>6. ASSUME conn \in live, NEW m \in Ids PROVE conn \notin Range(sock'[m].backlog)
      <3>1. CASE m = s
        BY <2>1, <2>2, <3>1
      <3>2. CASE m # s
        <4>1. Unaccepted(conn)
          BY <2>2, <2>6 DEF Waited
        <4>2. PICK l \in live : WaitsAt(conn, l)
          BY <2>6, <4>1 DEF Waited
        <4> QED
          BY <2>2, <2>3, <3>2, <4>2 DEF WaitsAt
      <3> QED
        BY <3>1, <3>2
    <2>7. ASSUME NEW m \in Ids, NEW x \in Range(sock'[m].backlog), x \in live PROVE NewlyUnaccepted(x)
      <3>1. x # conn
        BY <2>6, <2>7
      <3>2. x \in Range(sock[m].backlog)
        BY <2>3, <2>7
      <3>3. Unaccepted(x)
        BY <2>7, <3>2 DEF Waited
      <3> QED
        BY <1>0, <2>1, <2>7, <3>1, <3>3 DEF Unaccepted, NewlyUnaccepted
    <2>8. ASSUME NEW x \in live, NewlyUnaccepted(x) PROVE \E l \in live : WaitsAt(x, l)'
      <3>1. x # conn /\ Unaccepted(x)
        BY <1>0, <2>1, <2>4, <2>8 DEF Unaccepted, NewlyUnaccepted
      <3>2. PICK l \in live : WaitsAt(x, l)
        BY <3>1 DEF Waited
      <3>3. x \in Range(sock'[l].backlog)
        BY <1>0, <2>1, <2>2, <3>1, <3>2 DEF WaitsAt
      <3> QED
        BY <1>0, <2>1, <2>3, <3>2, <3>3 DEF WaitsAt
    <2> QED
      BY <2>1, <2>3, <2>5, <2>7, <2>8 DEF Waited, Unaccepted, NewlyUnaccepted
  <1>12. ASSUME NEW closing \in SUBSET live, Destroys(closing) PROVE Waited'
    <2> DEFINE D == Doomed(closing)
    <2>1. /\ live' = live \ D /\ D \subseteq live /\ closing \subseteq D
          /\ \A x \in D : sock'[x].backlog = <<>>
          /\ \A x \in Ids \ D : sock'[x].state = sock[x].state /\ sock'[x].given = sock[x].given
                                /\ sock'[x].backlog = sock[x].backlog
      <3>1. Destroy(closing)
        BY <1>12 DEF Destroys
      <3>2. /\ D \subseteq live /\ closing \subseteq D /\ \A x \in D : sock'[x].backlog = <<>>
            /\ \A x \in Ids \ D : \A f \in Fields \ {"peer", "readers"} : sock'[x][f] = sock[x][f]
        BY <3>1, DestroyEffect
      <3> QED
        BY <3>1, <3>2 DEF Destroy, Fields
    <2>2. \A m \in closing : \A x \in Range(sock[m].backlog) : x \in live => x \in D
      BY DEF Doomed
    <2>3. \A d \in D : d \in closing \/ \E m \in closing : d \in Range(sock[m].backlog)
      BY DEF Doomed
    <2> HIDE DEF D
    <2>4. \A x \in Ids : /\ IsInjective(sock'[x].backlog) /\ Range(sock'[x].backlog) \subseteq Range(sock[x].backlog)
      BY <2>1, NoneWaits DEF Waited
    <2>5. \A x \in live' : sock'[x].state = sock[x].state /\ sock'[x].given = sock[x].given /\ x \in live
      BY <1>0, <2>1
    <2>6. ASSUME NEW x \in live', Unaccepted(x) PROVE \E l \in live' : WaitsAt(x, l)'
      <3>1. PICK l \in live : WaitsAt(x, l)
        BY <2>5, <2>6 DEF Waited
      <3>2. l \notin closing
        BY <2>1, <2>2, <2>6, <3>1 DEF WaitsAt
      <3>3. l \notin D
        <4>1. SUFFICES ASSUME l \in D PROVE FALSE
          OBVIOUS
        <4>2. PICK m \in closing : l \in Range(sock[m].backlog)
          BY <2>3, <3>2, <4>1
        <4>3. Unaccepted(l)
          BY <1>0, <4>2 DEF Waited
        <4> QED
          BY <3>1, <4>3 DEF Waited, WaitsAt, Early
      <3> QED
        BY <1>0, <2>1, <2>4, <3>1, <3>3 DEF WaitsAt
    <2>7. \A x \in live' : NewlyUnaccepted(x) => sock'[x].state \notin Early
      BY <2>5 DEF Waited, Unaccepted, NewlyUnaccepted
    <2>8. \A m \in Ids : \A x \in Range(sock'[m].backlog) : x \in live' => NewlyUnaccepted(x)
      BY <2>4, <2>5 DEF Waited, Unaccepted, NewlyUnaccepted
    <2> QED
      BY <2>4, <2>5, <2>6, <2>7, <2>8 DEF Waited, Unaccepted, NewlyUnaccepted
  <1> QED
    BY <1>1, <1>2, <1>4, <1>5, <1>6, <1>7, <1>8, <1>9, <1>10, <1>11, <1>12 DEF Kinds

LEMMA WaitedHolds == Spec => [](~astray => Waited)
  <1>1. ASSUME Init PROVE Waited
    <2>1. PICK a \in Inet : Starting(a)
      BY <1>1, Start
    <2>2. live \subseteq Ids
      BY <1>1, StartTypes, Known DEF Types
    <2>3. \A s \in Ids : sock[s].backlog = <<>> /\ (s \in live => sock[s].given = TRUE)
      BY <2>1 DEF Starting
    <2> QED
      BY <2>2, <2>3, NoneWaits DEF Waited, Unaccepted
  <1>2. ASSUME Types, ~astray => Asked, ~astray => Owned, ~astray => Waited, [Next]_vars, ~astray' PROVE Waited'
    <2>1. CASE Next
      BY <1>2, <2>1, StepKinds, WaitedStep
    <2>2. CASE UNCHANGED vars
      BY <1>2, <2>2 DEF vars, Waited, WaitsAt, Unaccepted
    <2> QED
      BY <1>2, <2>1, <2>2
  <1>3. Init => (~astray => Waited)
    BY <1>1
  <1>4. Types /\ (~astray => Asked) /\ (~astray => Owned) /\ (~astray => Waited) /\ [Next]_vars => (~astray => Waited)'
    BY <1>2
  <1> QED
    BY <1>3, <1>4, TypesHold, AskedHolds, OwnedHolds, PTL DEF Spec

\* Until a resumed call or the pump goes astray, a connection that connect() or
\* the accept pump made and accept() did not return yet is in the backlog of one
\* live listener: connects, accepts, closes and exits in any order strand none.
\* (The pump that resumes for a closed listener goes astray and does strand one;
\* what a failed socketpair() leaves behind is not a connection.)
THEOREM ConnectionsNotLost == Spec => []NoConnectionLost
  <1>1. ASSUME Waited, NEW s \in live, Unaccepted(s) PROVE Queued(s)
    <2>1. PICK l \in live : WaitsAt(s, l)
      BY <1>1 DEF Waited
    <2> QED
      BY <2>1 DEF WaitsAt, Queued
  <1>2. (~astray => Waited) => NoConnectionLost
    BY <1>1 DEF NoConnectionLost
  <1> QED
    BY <1>2, WaitedHolds, PTL

----------------------------------------------------------------------------
(* Blocked callers *)

WaitOps == {"accept", "recv"}

\* c is suspended in accept or recv and nothing has settled its handle.
Blocked(c, op) == call[c].op = op /\ call[c].win = "none"

\* The queue such a call waits in, and that the socket has nothing for it.
QueueOf(s, op) == IF op = "accept" THEN sock[s].acceptors ELSE sock[s].readers
NothingFor(s, op) ==
    /\ s \in live
    /\ op = "accept" => sock[s].state = "listening" /\ sock[s].backlog = <<>>
    /\ op = "recv" => sock[s].state \in {"connected", "write-closed"} /\ CanBlockForRecv(s)

\* A blocked caller is in the queue of its socket, so that a wake reaches it; a
\* socket that never was crowded has one waiter at most, so that the wake of one
\* is the wake of all; and the lone waiter has nothing to go on with.
Parked ==
    /\ \A c \in Callers : \A op \in WaitOps : Blocked(c, op) => c \in Range(QueueOf(call[c].sock, op))
    /\ \A s \in Ids \ crowded : \A op \in WaitOps : Len(QueueOf(s, op)) <= 1
    /\ \A c \in Callers : \A op \in WaitOps :
          Blocked(c, op) /\ call[c].sock \notin crowded => NothingFor(call[c].sock, op)

\* No caller starts to wait in this step.
NobodyJoins ==
    \A c \in Callers : \A op \in WaitOps :
        Blocked(c, op)' => Blocked(c, op) /\ call'[c].sock = call[c].sock

\* In this step those who wait at s stay in the queue or are woken, and a lone
\* one is woken if there is something for it now.
Served(s, op) ==
    /\ \A c \in Range(QueueOf(s, op)) : c \in Range(QueueOf(s, op)') \/ ~Blocked(c, op)'
    /\ Len(QueueOf(s, op)) <= 1 /\ NothingFor(s, op) =>
          NothingFor(s, op)' \/ \A c \in Range(QueueOf(s, op)) : ~Blocked(c, op)'

Shorter(s, op) == Len(QueueOf(s, op)') <= Len(QueueOf(s, op)) \/ Len(QueueOf(s, op)') <= 1

LEMMA QueueTypes ==
    ASSUME Types
    PROVE  /\ \A s \in Ids : \A op \in WaitOps : QueueOf(s, op) \in Seq(Callers) /\ Len(QueueOf(s, op)) \in Nat
           /\ \A c \in Callers : \A op \in WaitOps : Blocked(c, op) => call[c].sock \in 1 .. last /\ call[c].sock \in Ids
  <1>1. ASSUME NEW s \in Ids, NEW op \in WaitOps PROVE QueueOf(s, op) \in Seq(Callers)
    <2>1. sock[s].acceptors \in Seq(Callers) /\ sock[s].readers \in Seq(Callers)
      BY DEF Types, SockTypes, Socks
    <2> QED
      BY <2>1 DEF QueueOf
  <1>2. ASSUME NEW c \in Callers, NEW op \in WaitOps, Blocked(c, op) PROVE call[c].sock \in 1 .. last
    BY <1>2 DEF Types, CallTypes, Blocked, WaitOps
  <1> QED
    BY <1>1, <1>2, Known DEF Types

\* A step in which nobody joins a queue and everybody is served.
LEMMA ParkedServed ==
    ASSUME Types, Types', Parked, crowded' = crowded, NobodyJoins,
           \A s \in Ids : \A op \in WaitOps : Shorter(s, op),
           \A s \in 1 .. last : \A op \in WaitOps : Served(s, op)
    PROVE  Parked'
  <1>1. ASSUME NEW s \in Ids \ crowded, NEW op \in WaitOps PROVE Len(QueueOf(s, op)') <= 1
    <2>1. Len(QueueOf(s, op)) <= 1 /\ Shorter(s, op)
      BY DEF Parked
    <2>2. Len(QueueOf(s, op)) \in Nat /\ Len(QueueOf(s, op)') \in Nat
      BY QueueTypes
    <2> QED
      BY <2>1, <2>2 DEF Shorter
  <1>2. ASSUME NEW c \in Callers, NEW op \in WaitOps, Blocked(c, op)', NEW s, s = call[c].sock
        PROVE  /\ call'[c].sock = s /\ c \in Range(QueueOf(s, op)')
               /\ s \notin crowded => NothingFor(s, op)'
    <2>1. Blocked(c, op) /\ call'[c].sock = s
      BY <1>2 DEF NobodyJoins
    <2>2. s \in 1 .. last /\ s \in Ids
      BY <1>2, <2>1, QueueTypes
    <2>3. c \in Range(QueueOf(s, op))
      BY <1>2, <2>1 DEF Parked
    <2>4. Served(s, op)
      BY <2>2
    <2>5. c \in Range(QueueOf(s, op)')
      BY <1>2, <2>3, <2>4 DEF Served
    <2>6. ASSUME s \notin crowded PROVE NothingFor(s, op)'
      <3>1. Len(QueueOf(s, op)) <= 1 /\ NothingFor(s, op)
        BY <1>2, <2>1, <2>2, <2>6 DEF Parked
      <3> QED
        BY <1>2, <2>3, <2>4, <3>1 DEF Served
    <2> QED
      BY <2>1, <2>5, <2>6
  <1>3. ASSUME NEW c \in Callers, NEW op \in WaitOps, Blocked(c, op)'
        PROVE  /\ (c \in Range(QueueOf(call[c].sock, op)))'
               /\ (call[c].sock \notin crowded => NothingFor(call[c].sock, op))'
    <2>1. PICK s : s = call[c].sock
      OBVIOUS
    <2>2. /\ call'[c].sock = s /\ c \in Range(QueueOf(s, op)')
          /\ s \notin crowded => NothingFor(s, op)'
      BY <1>2, <1>3, <2>1
    <2> QED
      BY <2>2 DEF QueueOf, NothingFor, CanBlockForRecv, Eof
  <1> QED
    BY <1>1, <1>3 DEF Parked

\* c blocks on s behind those in q, who are all that is left of the queue.
LEMMA ParkedJoined ==
    ASSUME Types, Types', Parked, NEW c \in Callers, NEW s \in 1 .. last, NEW o \in WaitOps, NEW q \in Seq(Callers),
           Blocked(c, o)', call'[c].sock = s, \A d \in Callers \ {c} : call'[d] = call[d],
           QueueOf(s, o)' = Append(q, c), \A d \in Range(QueueOf(s, o)) : d # c => d \in Range(q),
           Crowd(s, q), NothingFor(s, o)',
           \A x \in Ids : \A op \in WaitOps : x # s \/ op # o => QueueOf(x, op)' = QueueOf(x, op),
           \A x \in Ids : \A op \in WaitOps : NothingFor(x, op) => NothingFor(x, op)'
    PROVE  Parked'
  <1>0. crowded \subseteq crowded' /\ (s \notin crowded' => q = <<>>)
    BY DEF Crowd
  <1>1. c \in Range(Append(q, c)) /\ \A d \in Range(q) : d \in Range(Append(q, c))
    <2>1. /\ DOMAIN Append(q, c) = 1 .. Len(q) + 1 /\ DOMAIN q = 1 .. Len(q) /\ Len(q) \in Nat
          /\ Append(q, c)[Len(q) + 1] = c /\ \A i \in 1 .. Len(q) : Append(q, c)[i] = q[i]
      OBVIOUS
    <2> QED
      BY <2>1 DEF Range
  <1>2. ASSUME NEW x \in Ids, x \notin crowded', NEW op \in WaitOps PROVE Len(QueueOf(x, op)') <= 1
    <2>1. CASE x = s /\ op = o
      <3>1. QueueOf(x, op)' = Append(<<>>, c)
        BY <1>0, <1>2, <2>1 DEF QueueOf
      <3>2. Len(Append(<<>>, c)) = 1
        OBVIOUS
      <3> QED
        BY <3>1, <3>2
    <2>2. CASE ~(x = s /\ op = o)
      BY <1>0, <1>2, <2>2 DEF Parked
    <2> QED
      BY <2>1, <2>2
  <1>3. ASSUME NEW d \in Callers, NEW op \in WaitOps, Blocked(d, op)', NEW x, x = call'[d].sock
        PROVE  d \in Range(QueueOf(x, op)') /\ (x \notin crowded' => NothingFor(x, op)')
    <2>1. CASE d = c
      <3>1. x = s /\ op = o
        BY <1>3, <2>1 DEF Blocked
      <3>2. QueueOf(x, op)' = Append(q, c) /\ NothingFor(x, op)'
        BY <3>1 DEF QueueOf, NothingFor, CanBlockForRecv, Eof
      <3> QED
        BY <1>1, <2>1, <3>2
    <2>2. CASE d # c
      <3>1. call'[d] = call[d]
        BY <2>2
      <3>2. Blocked(d, op) /\ x = call[d].sock
        BY <1>3, <3>1 DEF Blocked
      <3>3. x \in Ids /\ d \in Range(QueueOf(x, op)) /\ (x \notin crowded => NothingFor(x, op))
        BY <3>2, QueueTypes DEF Parked
      <3>4. d \in Range(QueueOf(x, op)')
        <4>1. CASE x = s /\ op = o
          <5>1. QueueOf(x, op)' = Append(q, c) /\ QueueOf(x, op) = QueueOf(s, o)
            BY <4>1 DEF QueueOf
          <5> QED
            BY <1>1, <2>2, <3>3, <5>1
        <4>2. CASE ~(x = s /\ op = o)
          BY <3>3, <4>2
        <4> QED
          BY <4>1, <4>2
      <3> QED
        BY <1>0, <3>3, <3>4
    <2> QED
      BY <2>1, <2>2
  <1>4. ASSUME NEW d \in Callers, NEW op \in WaitOps, Blocked(d, op)'
        PROVE  /\ (d \in Range(QueueOf(call[d].sock, op)))'
               /\ (call[d].sock \notin crowded => NothingFor(call[d].sock, op))'
    <2>1. PICK x : x = call'[d].sock
      OBVIOUS
    <2>2. d \in Range(QueueOf(x, op)') /\ (x \notin crowded' => NothingFor(x, op)')
      BY <1>3, <1>4, <2>1
    <2> QED
      BY <2>1, <2>2 DEF QueueOf, NothingFor, CanBlockForRecv, Eof
  <1> QED
    BY <1>2, <1>4 DEF Parked

\* What steps do to the calls.
LEMMA Joining ==
    ASSUME Types
    PROVE  /\ call' = call => NobodyJoins
           /\ \A c \in Callers : call' = [call EXCEPT ![c] = Idle] => NobodyJoins /\ \A op \in WaitOps : ~Blocked(c, op)'
           /\ \A c \in Callers : \A op \in Ops \ WaitOps : \A s \in Ids : \A a \in Addrs \cup {None} :
                 call' = [call EXCEPT ![c] = Suspend(op, s, a)] => NobodyJoins
           /\ \A cs : \A why \in {"socket", "signal"} : call' = Settled(cs, why) =>
                 NobodyJoins /\ \A c \in cs : \A op \in WaitOps : c \in Callers => ~Blocked(c, op)'
           /\ \A cs : \A c \in Callers : call' = [Settled(cs, "socket") EXCEPT ![c] = Idle] =>
                 NobodyJoins /\ \A d \in cs : \A op \in WaitOps : d \in Callers => ~Blocked(d, op)'
  <1>0. call \in [Callers -> CallRecs] /\ CallTypes /\ Idle.op = "idle"
    BY DEF Types, CallTypes, Idle
  <1>1. call' = call => NobodyJoins
    BY DEF NobodyJoins, Blocked
  <1>2. ASSUME NEW c \in Callers, call' = [call EXCEPT ![c] = Idle]
        PROVE  NobodyJoins /\ \A op \in WaitOps : ~Blocked(c, op)'
    BY <1>0, <1>2 DEF NobodyJoins, Blocked, WaitOps
  <1>3. ASSUME NEW c \in Callers, NEW op \in Ops \ WaitOps, NEW s \in Ids, NEW a \in Addrs \cup {None},
               call' = [call EXCEPT ![c] = Suspend(op, s, a)]
        PROVE  NobodyJoins
    <2>1. Suspend(op, s, a).op = op
      BY DEF Suspend
    <2> QED
      BY <1>0, <1>3, <2>1 DEF NobodyJoins, Blocked
  <1>4. ASSUME NEW cs, NEW why \in {"socket", "signal"}, NEW c \in Callers
        PROVE  /\ Settled(cs, why)[c].op = call[c].op /\ Settled(cs, why)[c].sock = call[c].sock
               /\ c \in cs => Settled(cs, why)[c].win # "none"
               /\ c \notin cs => Settled(cs, why)[c] = call[c]
    BY <1>0, SettledEffect
  <1>5. ASSUME NEW cs, NEW why \in {"socket", "signal"}, call' = Settled(cs, why)
        PROVE  NobodyJoins /\ \A c \in cs : \A op \in WaitOps : c \in Callers => ~Blocked(c, op)'
    BY <1>4, <1>5 DEF NobodyJoins, Blocked
  <1>6. ASSUME NEW cs, NEW c \in Callers, call' = [Settled(cs, "socket") EXCEPT ![c] = Idle]
        PROVE  NobodyJoins /\ \A d \in cs : \A op \in WaitOps : d \in Callers => ~Blocked(d, op)'
    <2>1. DOMAIN Settled(cs, "socket") = Callers
      BY DEF Settled
    <2>2. call'[c] = Idle /\ \A d \in Callers \ {c} : call'[d] = Settled(cs, "socket")[d]
      BY <1>6, <2>1
    <2> QED
      BY <1>0, <1>4, <2>2 DEF NobodyJoins, Blocked, WaitOps
  <1> QED
    BY <1>1, <1>2, <1>3, <1>5, <1>6

\* A socket whose queues and readiness are as before.
Same(x) ==
    /\ sock'[x].acceptors = sock[x].acceptors /\ sock'[x].readers = sock[x].readers
    /\ \A op \in WaitOps : NothingFor(x, op) => NothingFor(x, op)'

LEMMA SameServed ==
    ASSUME NEW x, Same(x), NEW op \in WaitOps
    PROVE  Served(x, op) /\ QueueOf(x, op)' = QueueOf(x, op)
  BY DEF Same, Served, QueueOf

\* Readiness depends on these fields; nobody waits at a socket that is not open.
LEMMA Undisturbed ==
    ASSUME NEW x \in Ids, live \subseteq live',
           \/ sock'[x] = sock[x]
           \/ \A f \in {"state", "peer", "peerWriteClosed", "buf", "backlog", "host"} : sock'[x][f] = sock[x][f]
           \/ sock[x].state \notin {"listening", "connected", "write-closed"}
    PROVE  \A op \in WaitOps : NothingFor(x, op) => NothingFor(x, op)'
  BY DEF NothingFor, CanBlockForRecv, Eof, WaitOps

\* Steps that touch no queue: old sockets stay as they are, or were not open.
LEMMA ParkedStill ==
    ASSUME Types, Types', Parked, crowded' = crowded, NobodyJoins, live \subseteq live',
           \A x \in 1 .. last :
              \/ sock'[x] = sock[x]
              \/ /\ sock'[x].acceptors = sock[x].acceptors /\ sock'[x].readers = sock[x].readers
                 /\ \/ \A f \in {"state", "peer", "peerWriteClosed", "buf", "backlog", "host"} : sock'[x][f] = sock[x][f]
                    \/ sock[x].state \notin {"listening", "connected", "write-closed"},
           \A x \in Ids \ 1 .. last : sock'[x] = sock[x] \/ IsNew(sock'[x], sock'[x].state)
    PROVE  Parked'
  <1>1. ASSUME NEW x \in 1 .. last PROVE Same(x) /\ x \in Ids
    <2>1. x \in Ids
      BY Known DEF Types
    <2>2. \A op \in WaitOps : NothingFor(x, op) => NothingFor(x, op)'
      BY <2>1, Undisturbed
    <2> QED
      BY <2>1, <2>2 DEF Same
  <1>2. \A x \in 1 .. last : \A op \in WaitOps : Served(x, op)
    BY <1>1, SameServed
  <1>3. ASSUME NEW x \in Ids, NEW op \in WaitOps PROVE Shorter(x, op)
    <2>1. Len(QueueOf(x, op)) \in Nat
      BY QueueTypes
    <2>2. CASE x \in 1 .. last
      BY <1>1, <2>1, <2>2, SameServed DEF Shorter
    <2>3. CASE sock'[x] = sock[x]
      BY <2>1, <2>3 DEF Shorter, QueueOf
    <2>4. CASE IsNew(sock'[x], sock'[x].state)
      BY <2>4 DEF Shorter, QueueOf, IsNew
    <2> QED
      BY <2>2, <2>3, <2>4
  <1> QED
    BY <1>2, <1>3, ParkedServed

\* wakeOne, wakeAll, and a caller that leaves the queue.
LEMMA Waking ==
    ASSUME Types, NEW x \in Ids, NEW op \in WaitOps
    PROVE  /\ QueueOf(x, op)' = Rest(QueueOf(x, op)) /\ (\A c \in First(QueueOf(x, op)) : ~Blocked(c, op)') =>
                 Served(x, op) /\ Shorter(x, op)
           /\ QueueOf(x, op)' = <<>> /\ (\A c \in Range(QueueOf(x, op)) : ~Blocked(c, op)') =>
                 Served(x, op) /\ Shorter(x, op)
           /\ \A c \in Callers : \A q \in Seq(Callers) :
                 /\ QueueOf(x, op)' = q /\ ~Blocked(c, op)' /\ Len(q) <= Len(QueueOf(x, op))
                 /\ \A d \in Range(QueueOf(x, op)) : d # c => d \in Range(q)
                 /\ NothingFor(x, op) => NothingFor(x, op)'
                 => Served(x, op) /\ Shorter(x, op)
           /\ QueueOf(x, op)' = QueueOf(x, op) /\ (NothingFor(x, op) => NothingFor(x, op)') =>
                 Served(x, op) /\ Shorter(x, op)
  <1>0. QueueOf(x, op) \in Seq(Callers) /\ Len(QueueOf(x, op)) \in Nat
    BY QueueTypes
  <1>1. ASSUME QueueOf(x, op)' = Rest(QueueOf(x, op)), \A c \in First(QueueOf(x, op)) : ~Blocked(c, op)'
        PROVE  Served(x, op) /\ Shorter(x, op)
    <2> DEFINE q == QueueOf(x, op)
    <2>1. /\ \A c \in Range(q) : c \in First(q) \/ c \in Range(Rest(q))
          /\ Len(q) <= 1 => Range(q) = First(q)
          /\ Len(Rest(q)) <= Len(q)
      BY <1>0, WakeOne
    <2> QED
      BY <1>1, <2>1 DEF Served, Shorter
  <1>2. ASSUME QueueOf(x, op)' = <<>>, \A c \in Range(QueueOf(x, op)) : ~Blocked(c, op)'
        PROVE  Served(x, op) /\ Shorter(x, op)
    BY <1>2 DEF Served, Shorter
  <1>3. ASSUME NEW c \in Callers, NEW q \in Seq(Callers),
               QueueOf(x, op)' = q, ~Blocked(c, op)', Len(q) <= Len(QueueOf(x, op)),
               \A d \in Range(QueueOf(x, op)) : d # c => d \in Range(q),
               NothingFor(x, op) => NothingFor(x, op)'
        PROVE  Served(x, op) /\ Shorter(x, op)
    BY <1>3 DEF Served, Shorter
  <1>4. ASSUME QueueOf(x, op)' = QueueOf(x, op), NothingFor(x, op) => NothingFor(x, op)'
        PROVE  Served(x, op) /\ Shorter(x, op)
    BY <1>0, <1>4 DEF Served, Shorter
  <1> QED
    BY <1>1, <1>2, <1>3, <1>4

\* send, data and errors from the host: the readers of s are told.
LEMMA ParkedReaders ==
    ASSUME Types, Types', Parked, crowded' = crowded, live' = live, NEW s \in Ids,
           \A x \in Ids \ {s} : sock'[x] = sock[x], sock'[s].acceptors = sock[s].acceptors,
           NothingFor(s, "accept") => NothingFor(s, "accept")', NobodyJoins,
           \/ sock'[s].readers = Rest(sock[s].readers) /\ call' = Settled(First(sock[s].readers), "socket")
           \/ sock'[s].readers = <<>> /\ call' = Settled(Range(sock[s].readers), "socket")
    PROVE  Parked'
  <1>1. ASSUME NEW x \in Ids, x # s, NEW op \in WaitOps PROVE Served(x, op) /\ Shorter(x, op)
    <2>1. NothingFor(x, op) => NothingFor(x, op)'
      BY <1>1, Undisturbed
    <2>2. QueueOf(x, op)' = QueueOf(x, op)
      BY <1>1 DEF QueueOf
    <2> QED
      BY <2>1, <2>2, Waking
  <1>2. Served(s, "accept") /\ Shorter(s, "accept")
    <2>1. QueueOf(s, "accept")' = QueueOf(s, "accept") /\ "accept" \in WaitOps
      BY DEF QueueOf, WaitOps
    <2> QED
      BY <2>1, Waking
  <1>3. Served(s, "recv") /\ Shorter(s, "recv")
    <2>0. "recv" \in WaitOps /\ QueueOf(s, "recv") = sock[s].readers /\ QueueOf(s, "recv")' = sock'[s].readers
          /\ sock[s].readers \in Seq(Callers)
      BY QueueTypes DEF QueueOf, WaitOps
    <2>1. CASE sock'[s].readers = Rest(sock[s].readers) /\ call' = Settled(First(sock[s].readers), "socket")
      <3>1. \A c \in First(sock[s].readers) : c \in Callers
        BY <2>0, WakeOne
      <3>2. \A c \in First(sock[s].readers) : ~Blocked(c, "recv")'
        BY <2>0, <2>1, <3>1, Joining
      <3> QED
        BY <2>0, <2>1, <3>2, Waking
    <2>2. CASE sock'[s].readers = <<>> /\ call' = Settled(Range(sock[s].readers), "socket")
      <3>1. \A c \in Range(sock[s].readers) : c \in Callers
        BY <2>0 DEF Range
      <3>2. \A c \in Range(sock[s].readers) : ~Blocked(c, "recv")'
        BY <2>0, <2>2, <3>1, Joining
      <3> QED
        BY <2>0, <2>2, <3>2, Waking
    <2> QED
      BY <2>1, <2>2
  <1>4. \A x \in Ids : \A op \in WaitOps : Served(x, op) /\ Shorter(x, op)
    BY <1>1, <1>2, <1>3 DEF WaitOps
  <1> QED
    BY <1>4, ParkedServed, Known DEF Types

\* connect and the accept pump: l gets a connection and one acceptor is told.
LEMMA ParkedQueued ==
    ASSUME Types, Types', Parked, crowded' = crowded, live \subseteq live', NEW l \in 1 .. last, NEW n, n = last + 1,
           IsNew(sock'[n], "connected"), NobodyJoins,
           \A x \in Ids \ {n} : sock'[x].readers = sock[x].readers
                                /\ (NothingFor(x, "recv") => NothingFor(x, "recv")'),
           \A x \in Ids \ {n, l} : sock'[x].acceptors = sock[x].acceptors
                                   /\ (NothingFor(x, "accept") => NothingFor(x, "accept")'),
           sock'[l].acceptors = Rest(sock[l].acceptors),
           \A c \in First(sock[l].acceptors) : c \in Callers => ~Blocked(c, "accept")'
    PROVE  Parked'
  <1>0. l \in Ids /\ 1 .. last \subseteq Ids /\ \A x \in 1 .. last : x # n
    BY Known DEF Types
  <1>1. ASSUME NEW x \in Ids, x # n PROVE Served(x, "recv") /\ Shorter(x, "recv")
    <2>1. QueueOf(x, "recv")' = QueueOf(x, "recv") /\ "recv" \in WaitOps
      BY <1>1 DEF QueueOf, WaitOps
    <2> QED
      BY <1>1, <2>1, Waking
  <1>2. ASSUME NEW x \in Ids, x # n, x # l PROVE Served(x, "accept") /\ Shorter(x, "accept")
    <2>1. QueueOf(x, "accept")' = QueueOf(x, "accept") /\ "accept" \in WaitOps
      BY <1>2 DEF QueueOf, WaitOps
    <2> QED
      BY <1>2, <2>1, Waking
  <1>3. Served(l, "accept") /\ Shorter(l, "accept")
    <2>1. /\ "accept" \in WaitOps /\ QueueOf(l, "accept")' = Rest(QueueOf(l, "accept"))
          /\ QueueOf(l, "accept") = sock[l].acceptors /\ sock[l].acceptors \in Seq(Callers)
      BY <1>0, QueueTypes DEF QueueOf, WaitOps
    <2>2. \A c \in First(QueueOf(l, "accept")) : ~Blocked(c, "accept")'
      BY <2>1, WakeOne
    <2> QED
      BY <1>0, <2>1, <2>2, Waking
  <1>4. ASSUME NEW op \in WaitOps PROVE Shorter(n, op)
    BY DEF Shorter, QueueOf, IsNew
  <1>5. /\ \A x \in Ids : \A op \in WaitOps : Shorter(x, op)
        /\ \A x \in 1 .. last : \A op \in WaitOps : Served(x, op)
    BY <1>0, <1>1, <1>2, <1>3, <1>4 DEF WaitOps
  <1> QED
    BY <1>5, ParkedServed

\* One turn of acceptBlocking; q is what is left of the queue without c.
LEMMA ParkedTake ==
    ASSUME Types, Types', Parked, NEW c \in Callers, NEW s \in 1 .. last, NEW q \in Seq(Callers), TakeOrWait(c, s, q),
           live' = live, sock[s].state = "listening", sock'[s].acceptors # q => s \in live,
           Len(q) <= Len(sock[s].acceptors), \A d \in Range(sock[s].acceptors) : d # c => d \in Range(q)
    PROVE  Parked'
  <1>0. s \in Ids /\ "accept" \in WaitOps /\ "recv" \in WaitOps /\ 1 .. last \subseteq Ids
        /\ QueueOf(s, "accept") = sock[s].acceptors /\ QueueOf(s, "accept")' = sock'[s].acceptors
    BY Known DEF Types, WaitOps, QueueOf
  <1>1. CASE /\ sock[s].backlog # <<>> /\ Head(sock[s].backlog) \in Ids
             /\ sock' \in [Ids -> Socks] /\ Keeps(sock, sock', Fields \ {"backlog", "acceptors", "given"})
             /\ \A x \in Ids : /\ x # s => sock'[x].backlog = sock[x].backlog
                               /\ x # s => sock'[x].acceptors = sock[x].acceptors
                               /\ x # Head(sock[s].backlog) => sock'[x].given = sock[x].given
             /\ sock'[s].backlog = Tail(sock[s].backlog) /\ sock'[s].acceptors = q
             /\ sock'[Head(sock[s].backlog)].given = TRUE
             /\ call' = [call EXCEPT ![c] = Idle] /\ crowded' = crowded
    <2>1. NobodyJoins /\ ~Blocked(c, "accept")'
      BY <1>0, <1>1, Joining
    <2>2. \A x \in Ids : \A f \in {"state", "peer", "peerWriteClosed", "buf", "host", "readers"} : sock'[x][f] = sock[x][f]
      BY <1>1 DEF Keeps, Fields
    <2>3. ASSUME NEW x \in Ids PROVE Served(x, "recv") /\ Shorter(x, "recv")
      <3>1. QueueOf(x, "recv")' = QueueOf(x, "recv")
        BY <2>2 DEF QueueOf
      <3>2. NothingFor(x, "recv") => NothingFor(x, "recv")'
        BY <2>2 DEF NothingFor, CanBlockForRecv, Eof
      <3> QED
        BY <1>0, <3>1, <3>2, Waking
    <2>4. ASSUME NEW x \in Ids, x # s PROVE Served(x, "accept") /\ Shorter(x, "accept")
      <3>1. QueueOf(x, "accept")' = QueueOf(x, "accept")
        BY <1>1, <2>4 DEF QueueOf
      <3>2. NothingFor(x, "accept") => NothingFor(x, "accept")'
        BY <1>1, <2>2, <2>4 DEF NothingFor
      <3> QED
        BY <1>0, <3>1, <3>2, Waking
    <2>5. Served(s, "accept") /\ Shorter(s, "accept")
      <3>1. ~NothingFor(s, "accept")
        BY <1>1 DEF NothingFor
      <3>2. QueueOf(s, "accept")' = q
        BY <1>0, <1>1
      <3> QED
        BY <1>0, <2>1, <3>1, <3>2, Waking
    <2>6. \A x \in Ids : \A op \in WaitOps : Served(x, op) /\ Shorter(x, op)
      BY <2>3, <2>4, <2>5 DEF WaitOps
    <2> QED
      BY <1>0, <1>1, <2>1, <2>6, ParkedServed
  <1>2. CASE /\ sock[s].backlog = <<>> /\ Only(s, {"acceptors"}) /\ sock'[s].acceptors = Append(q, c)
             /\ call' = [call EXCEPT ![c] = Suspend("accept", s, None)] /\ Crowd(s, q)
    <2>1. Append(q, c) # q
      <3>1. Len(Append(q, c)) = Len(q) + 1 /\ Len(q) \in Nat
        OBVIOUS
      <3> QED
        BY <3>1
    <2>2. s \in live
      BY <1>2, <2>1
    <2>3. /\ call'[c] = Suspend("accept", s, None) /\ \A d \in Callers \ {c} : call'[d] = call[d]
      BY <1>2 DEF Types, CallTypes
    <2>4. Blocked(c, "accept")' /\ call'[c].sock = s
      BY <2>3 DEF Blocked, Suspend
    <2>5. \A x \in Ids : \A f \in {"state", "peer", "peerWriteClosed", "buf", "backlog", "host", "readers"} :
             sock'[x][f] = sock[x][f]
      BY <1>2 DEF Only, Keeps, Fields
    <2>6. \A x \in Ids : \A op \in WaitOps : NothingFor(x, op) => NothingFor(x, op)'
      BY <2>5, Undisturbed
    <2>7. NothingFor(s, "accept")'
      BY <1>0, <1>2, <2>2, <2>5 DEF NothingFor
    <2>8. \A x \in Ids : \A op \in WaitOps : x # s \/ op # "accept" => QueueOf(x, op)' = QueueOf(x, op)
      BY <1>2, <2>5 DEF QueueOf, WaitOps, Only
    <2> QED
      BY <1>0, <1>2, <2>3, <2>4, <2>6, <2>7, <2>8, ParkedJoined
  <1> QED
    BY <1>0, <1>1, <1>2, TakeOrWaitEffect

\* One turn of recvBlocking.
LEMMA ParkedRead ==
    ASSUME Types, Types', Parked, NEW c \in Callers, NEW s \in 1 .. last, NEW q \in Seq(Callers), NEW n \in Nat,
           ReadOrWait(c, s, q, n), live' = live,
           Len(q) <= Len(sock[s].readers), \A d \in Range(sock[s].readers) : d # c => d \in Range(q)
    PROVE  Parked'
  <1>0. s \in Ids /\ "accept" \in WaitOps /\ "recv" \in WaitOps /\ 1 .. last \subseteq Ids
        /\ QueueOf(s, "recv") = sock[s].readers /\ QueueOf(s, "recv")' = sock'[s].readers
    BY Known DEF Types, WaitOps, QueueOf
  <1>1. /\ Only(s, {"buf", "readers"}) /\ (sock[s].buf = 0 => sock'[s].buf = 0)
        /\ \/ /\ sock'[s].readers = q /\ call' = [call EXCEPT ![c] = Idle] /\ crowded' = crowded
           \/ /\ s \in live /\ sock[s].state \in {"connected", "write-closed"} /\ CanBlockForRecv(s)
              /\ sock'[s].buf = sock[s].buf /\ sock'[s].readers = Append(q, c)
              /\ call' = [call EXCEPT ![c] = Suspend("recv", s, None)] /\ Crowd(s, q)
    BY <1>0, ReadOrWaitEffect
  <1>2. /\ \A x \in Ids : \A f \in {"state", "peer", "peerWriteClosed", "backlog", "host", "acceptors"} :
             sock'[x][f] = sock[x][f]
        /\ \A x \in Ids \ {s} : sock'[x] = sock[x]
    BY <1>1 DEF Only, Keeps, Fields
  <1>3. ASSUME NEW x \in Ids, NEW op \in WaitOps, NothingFor(x, op) PROVE NothingFor(x, op)'
    BY <1>1, <1>2, <1>3 DEF NothingFor, CanBlockForRecv, Eof, WaitOps
  <1>4. ASSUME NEW x \in Ids, NEW op \in WaitOps, x # s \/ op # "recv" PROVE QueueOf(x, op)' = QueueOf(x, op)
    BY <1>2, <1>4 DEF QueueOf, WaitOps
  <1>5. CASE sock'[s].readers = q /\ call' = [call EXCEPT ![c] = Idle] /\ crowded' = crowded
    <2>1. NobodyJoins /\ ~Blocked(c, "recv")'
      BY <1>0, <1>5, Joining
    <2>2. Served(s, "recv") /\ Shorter(s, "recv")
      BY <1>0, <1>3, <1>5, <2>1, Waking
    <2>3. \A x \in Ids : \A op \in WaitOps : Served(x, op) /\ Shorter(x, op)
      BY <1>3, <1>4, <2>2, Waking
    <2> QED
      BY <1>0, <1>5, <2>1, <2>3, ParkedServed
  <1>6. CASE /\ s \in live /\ sock[s].state \in {"connected", "write-closed"} /\ CanBlockForRecv(s)
             /\ sock'[s].buf = sock[s].buf /\ sock'[s].readers = Append(q, c)
             /\ call' = [call EXCEPT ![c] = Suspend("recv", s, None)] /\ Crowd(s, q)
    <2>1. call'[c] = Suspend("recv", s, None) /\ \A d \in Callers \ {c} : call'[d] = call[d]
      BY <1>6 DEF Types, CallTypes
    <2>2. Blocked(c, "recv")' /\ call'[c].sock = s
      BY <2>1 DEF Blocked, Suspend
    <2>3. NothingFor(s, "recv")
      BY <1>6 DEF NothingFor
    <2>4. NothingFor(s, "recv")'
      BY <1>0, <1>3, <2>3
    <2> QED
      BY <1>0, <1>3, <1>4, <1>6, <2>1, <2>2, <2>4, ParkedJoined
  <1> QED
    BY <1>1, <1>5, <1>6

LEMMA ParkedShutdown ==
    ASSUME Types, Types', Parked, NEW s \in live, NEW how \in {"read", "write", "both"}, Shutdown(s, how)
    PROVE  Parked'
  <1>0. /\ s \in Ids /\ live \subseteq Ids /\ "accept" \in WaitOps /\ "recv" \in WaitOps /\ 1 .. last \subseteq Ids
        /\ live' = live /\ crowded' = crowded
        /\ call' = Settled(ShutdownWakes(s, how), "socket")
    BY Known DEF Types, WaitOps, Shutdown, history
  <1>1. /\ sock[s].state \in {"connected", "write-closed", "read-closed"}
        /\ Keeps(sock, sock', Fields \ {"state", "buf", "readers", "peerWriteClosed"})
        /\ how # "write" => sock'[s].readers = <<>>
        /\ how = "write" => sock'[s].readers = sock[s].readers /\ sock'[s].buf = sock[s].buf
                            /\ (sock[s].state # "read-closed" => sock'[s].state = "write-closed")
        /\ \A x \in Ids \ {s} :
              /\ sock'[x].state = sock[x].state /\ sock'[x].buf = sock[x].buf
              /\ \/ sock'[x].readers = sock[x].readers /\ sock'[x].peerWriteClosed = sock[x].peerWriteClosed
                 \/ sock'[x].readers = <<>> /\ x \in live /\ x = sock[s].peer /\ how # "read"
        /\ sock'[s].peerWriteClosed = sock[s].peerWriteClosed
    BY ShutdownEffect
  <1>2. \A x \in Ids : \A f \in {"peer", "backlog", "host", "acceptors"} : sock'[x][f] = sock[x][f]
    BY <1>1 DEF Keeps, Fields
  <1>3. /\ NobodyJoins
        /\ \A c \in ShutdownWakes(s, how) : c \in Callers => ~Blocked(c, "recv")'
    BY <1>0, Joining
  <1>4. ASSUME NEW x \in Ids PROVE Served(x, "accept") /\ Shorter(x, "accept")
    <2>1. QueueOf(x, "accept")' = QueueOf(x, "accept")
      BY <1>2 DEF QueueOf
    <2>2. NothingFor(x, "accept") => NothingFor(x, "accept")'
      BY <1>0, <1>1, <1>2 DEF NothingFor
    <2> QED
      BY <1>0, <2>1, <2>2, Waking
  <1>5. ASSUME NEW x \in Ids PROVE Served(x, "recv") /\ Shorter(x, "recv")
    <2>0. /\ QueueOf(x, "recv") = sock[x].readers /\ QueueOf(x, "recv")' = sock'[x].readers
          /\ sock[x].readers \in Seq(Callers) /\ \A c \in Range(sock[x].readers) : c \in Callers
      <3>1. QueueOf(x, "recv") = sock[x].readers /\ QueueOf(x, "recv")' = sock'[x].readers
        BY DEF QueueOf
      <3>2. sock[x].readers \in Seq(Callers)
        BY <1>0, <3>1, QueueTypes
      <3> QED
        BY <3>1, <3>2 DEF Range
    <2>1. CASE sock'[x].readers = <<>> /\ Range(sock[x].readers) \subseteq ShutdownWakes(s, how)
      BY <1>0, <1>3, <2>0, <2>1, Waking
    <2>2. CASE x = s /\ how = "write"
      <3>1. NothingFor(x, "recv") => NothingFor(x, "recv")'
        BY <1>0, <1>1, <1>2, <2>2 DEF NothingFor, CanBlockForRecv, Eof
      <3> QED
        BY <1>0, <1>1, <2>0, <2>2, <3>1, Waking
    <2>3. CASE x # s /\ sock'[x].readers = sock[x].readers /\ sock'[x].peerWriteClosed = sock[x].peerWriteClosed
      <3>1. NothingFor(x, "recv") => NothingFor(x, "recv")'
        BY <1>0, <1>1, <1>2, <2>3 DEF NothingFor, CanBlockForRecv, Eof
      <3> QED
        BY <1>0, <2>0, <2>3, <3>1, Waking
    <2>4. CASE x = s /\ how # "write"
      <3>1. Range(sock[x].readers) \subseteq ShutdownWakes(s, how)
        BY <2>4 DEF ShutdownWakes
      <3> QED
        BY <1>1, <2>1, <2>4, <3>1
    <2>5. CASE x # s /\ sock'[x].readers = <<>> /\ x \in live /\ x = sock[s].peer /\ how # "read"
      <3>1. Range(sock[x].readers) \subseteq ShutdownWakes(s, how)
        BY <2>5 DEF ShutdownWakes
      <3> QED
        BY <2>1, <2>5, <3>1
    <2> QED
      BY <1>1, <2>2, <2>3, <2>4, <2>5
  <1>6. \A x \in Ids : \A op \in WaitOps : Served(x, op) /\ Shorter(x, op)
    BY <1>4, <1>5 DEF WaitOps
  <1> QED
    BY <1>0, <1>3, <1>6, ParkedServed

\* close and exit: a socket that is not destroyed keeps its peer, or its readers are told.
LEMMA ParkedDestroy ==
    ASSUME Types, Types', Parked, Paired, NEW closing \in SUBSET live, Destroy(closing)
    PROVE  Parked'
  <1> DEFINE D == Doomed(closing)
             wakes == (UNION {Range(sock[x].readers) \cup Range(sock[x].acceptors) : x \in D})
                      \cup (UNION {Range(sock[x].readers) : x \in Unlinked(D)})
  <1>0. /\ live \subseteq Ids /\ "accept" \in WaitOps /\ "recv" \in WaitOps /\ 1 .. last \subseteq Ids
        /\ None \notin Ids
    BY Known, NoneAssumption DEF Types, WaitOps, Ids
  <1>1. live' = live \ D /\ crowded' = crowded /\ call' = Settled(wakes, "socket")
    BY DEF Destroy, history
  <1>2. /\ D \subseteq live
        /\ \A x \in D : sock'[x].readers = <<>> /\ sock'[x].acceptors = <<>>
        /\ \A x \in Ids \ D :
              /\ \A f \in Fields \ {"peer", "readers"} : sock'[x][f] = sock[x][f]
              /\ x \in Unlinked(D) => sock'[x].readers = <<>>
              /\ x \notin Unlinked(D) => sock'[x] = sock[x]
    BY DestroyEffect
  <1>3. /\ \A x \in D : Range(sock[x].readers) \subseteq wakes /\ Range(sock[x].acceptors) \subseteq wakes
        /\ \A x \in Unlinked(D) : Range(sock[x].readers) \subseteq wakes
    OBVIOUS
  <1>4. \A x \in live : sock[x].peer \in D => x \in Unlinked(D)
    <2>1. \A x \in live : sock[x].peer \in D => sock[sock[x].peer].peer = x
      BY <1>0, <1>2 DEF Paired, Mutual
    <2> QED
      BY <2>1 DEF Unlinked
  <1> HIDE DEF D, wakes
  <1>5. NobodyJoins /\ \A c \in wakes : \A op \in WaitOps : c \in Callers => ~Blocked(c, op)'
    BY <1>1, Joining
  <1>6. ASSUME NEW x \in Ids, NEW op \in WaitOps PROVE Served(x, op) /\ Shorter(x, op)
    <2>0. QueueOf(x, op) \in Seq(Callers) /\ \A c \in Range(QueueOf(x, op)) : c \in Callers
      <3>1. QueueOf(x, op) \in Seq(Callers)
        BY QueueTypes
      <3> QED
        BY <3>1 DEF Range
    <2>1. CASE QueueOf(x, op)' = <<>> /\ Range(QueueOf(x, op)) \subseteq wakes
      BY <1>5, <2>0, <2>1, Waking
    <2>2. CASE x \in D
      <3>1. QueueOf(x, op)' = <<>> /\ Range(QueueOf(x, op)) \subseteq wakes
        BY <1>2, <1>3, <2>2 DEF QueueOf
      <3> QED
        BY <2>1, <3>1
    <2>3. CASE x \notin D /\ x \in Unlinked(D) /\ op = "recv"
      <3>1. QueueOf(x, op)' = <<>> /\ Range(QueueOf(x, op)) \subseteq wakes
        BY <1>2, <1>3, <2>3 DEF QueueOf
      <3> QED
        BY <2>1, <3>1
    <2>4. CASE x \notin D /\ op = "accept"
      <3>1. sock'[x].state = sock[x].state /\ sock'[x].backlog = sock[x].backlog /\ sock'[x].acceptors = sock[x].acceptors
        BY <1>2, <2>4 DEF Fields
      <3>2. QueueOf(x, op)' = QueueOf(x, op) /\ (NothingFor(x, op) => NothingFor(x, op)')
        BY <1>1, <2>4, <3>1 DEF QueueOf, NothingFor
      <3> QED
        BY <3>2, Waking
    <2>5. CASE x \notin D /\ x \notin Unlinked(D) /\ op = "recv"
      <3>1. sock'[x] = sock[x]
        BY <1>2, <2>5
      <3>2. x \in live => x \in live' /\ (sock[x].peer \in live => sock[x].peer \in live')
        BY <1>1, <1>4, <2>5
      <3>3. QueueOf(x, op)' = QueueOf(x, op) /\ (NothingFor(x, op) => NothingFor(x, op)')
        BY <2>5, <3>1, <3>2 DEF QueueOf, NothingFor, CanBlockForRecv, Eof
      <3> QED
        BY <3>3, Waking
    <2> QED
      BY <2>2, <2>3, <2>4, <2>5 DEF WaitOps
  <1> QED
    BY <1>0, <1>1, <1>5, <1>6, ParkedServed

LEMMA ParkedDispose ==
    ASSUME Types, Types', Parked, DisposeAll
    PROVE  Parked'
  <1> DEFINE wakes == {c \in Callers : call[c].op \in {"recv", "accept"}}
  <1>1. crowded' = crowded /\ call' = Settled(wakes, "socket")
    BY DEF DisposeAll, history
  <1>2. NobodyJoins /\ \A c \in wakes : \A op \in WaitOps : c \in Callers => ~Blocked(c, op)'
    BY <1>1, Joining
  <1>3. \A c \in Callers : \A op \in WaitOps : ~Blocked(c, op)'
    BY <1>2 DEF NobodyJoins, Blocked, WaitOps
  <1>4. ASSUME NEW x \in Ids, NEW op \in WaitOps PROVE Served(x, op) /\ Shorter(x, op)
    <2>1. QueueOf(x, op) \in Seq(Callers)
      BY QueueTypes
    <2>2. \A c \in Range(QueueOf(x, op)) : ~Blocked(c, op)'
      BY <1>3, <2>1 DEF Range
    <2>3. QueueOf(x, op)' = <<>>
      BY DisposeEffect DEF QueueOf
    <2> QED
      BY <2>2, <2>3, Waking
  <1> QED
    BY <1>1, <1>2, <1>4, ParkedServed, Known DEF Types

\* connect to a kernel listener, when the client has not changed meanwhile
LEMMA ParkedLink ==
    ASSUME Types, Types', Parked, NEW s \in 1 .. last, NEW l \in 1 .. last, Link(s, l), ~astray',
           sock[l].state = "listening", NobodyJoins,
           \A c \in First(sock[l].acceptors) : \A op \in WaitOps : c \in Callers => ~Blocked(c, op)'
    PROVE  Parked'
  <1>0. last' = last + 1 /\ live' = live \cup {last + 1} /\ crowded' = crowded /\ "accept" \in WaitOps
        /\ s \in live /\ sock[s].state \in {"created", "bound"} /\ 1 .. last \subseteq Ids
    BY Known DEF Link, WaitOps, Types
  <1> DEFINE n == last + 1
  <1>1. Linked(s, l, n)
    BY LinkEffect
  <1> HIDE DEF n
  <1>2. /\ IsNew(sock'[n], "connected") /\ sock'[l].acceptors = Rest(sock[l].acceptors)
        /\ \A x \in Ids \ {n} :
              /\ \A f \in {"readers", "peerWriteClosed", "buf", "host"} : sock'[x][f] = sock[x][f]
              /\ x # s => sock'[x].peer = sock[x].peer /\ sock'[x].state = sock[x].state
              /\ x # l => sock'[x].backlog = sock[x].backlog /\ sock'[x].acceptors = sock[x].acceptors
    <2>1. IsNew(sock'[n], "connected") /\ sock'[l].acceptors = Rest(sock[l].acceptors)
      BY <1>1 DEF Linked
    <2>2. \A x \in Ids \ {n} :
              /\ \A f \in Fields \ {"peer", "state", "backlog", "acceptors"} : sock'[x][f] = sock[x][f]
              /\ x # s => sock'[x].peer = sock[x].peer /\ sock'[x].state = sock[x].state
              /\ x # l => sock'[x].backlog = sock[x].backlog /\ sock'[x].acceptors = sock[x].acceptors
      BY <1>1 DEF Linked
    <2>3. {"readers", "peerWriteClosed", "buf", "host"} \subseteq Fields \ {"peer", "state", "backlog", "acceptors"}
      BY DEF Fields
    <2> QED
      BY ONLY <2>1, <2>2, <2>3
  <1>3. ASSUME NEW x \in Ids \ {n} PROVE NothingFor(x, "recv") => NothingFor(x, "recv")'
    BY <1>0, <1>2 DEF NothingFor, CanBlockForRecv, Eof
  <1>4. ASSUME NEW x \in Ids \ {n, l} PROVE NothingFor(x, "accept") => NothingFor(x, "accept")'
    BY <1>0, <1>2 DEF NothingFor
  <1> QED
    BY <1>0, <1>2, <1>3, <1>4, ParkedQueued DEF n

LEMMA ParkedPump ==
    ASSUME Types, Types', Parked, NEW s \in Ids, PumpAccepts(s)
    PROVE  Parked'
  <1>0. last' = last + 1 /\ live' = live \cup {last + 1} /\ crowded' = crowded /\ "accept" \in WaitOps
        /\ call' = Settled(First(sock[s].acceptors), "socket")
    BY DEF PumpAccepts, WaitOps
  <1> DEFINE n == last + 1
  <1>1. Pumped(s, n)
    BY PumpAcceptsEffect
  <1>2. NobodyJoins /\ \A c \in First(sock[s].acceptors) : \A op \in WaitOps : c \in Callers => ~Blocked(c, op)'
    BY <1>0, Joining
  <1> HIDE DEF n
  <1>3. /\ IsNew(sock'[n], "connected") /\ sock'[s].acceptors = Rest(sock[s].acceptors) /\ s \in 1 .. last
        /\ \A x \in Ids \ {n} :
              /\ \A f \in {"readers", "peerWriteClosed", "buf", "host", "peer", "state"} : sock'[x][f] = sock[x][f]
              /\ x # s => sock'[x].backlog = sock[x].backlog /\ sock'[x].acceptors = sock[x].acceptors
    BY <1>1 DEF Pumped, Fields
  <1>4. ASSUME NEW x \in Ids \ {n} PROVE NothingFor(x, "recv") => NothingFor(x, "recv")'
    BY <1>0, <1>3 DEF NothingFor, CanBlockForRecv, Eof
  <1>5. ASSUME NEW x \in Ids \ {n, s} PROVE NothingFor(x, "accept") => NothingFor(x, "accept")'
    BY <1>0, <1>3 DEF NothingFor
  <1> QED
    BY <1>0, <1>2, <1>3, <1>4, <1>5, ParkedQueued DEF n

\* Steps that change fields of one socket, none of them a queue, whose changes a
\* waiter at that socket cannot see.
LEMMA ParkedOnly ==
    ASSUME Types, Types', Parked, crowded' = crowded, NobodyJoins, live' = live, NEW s \in 1 .. last,
           \A x \in Ids \ {s} : sock'[x] = sock[x],
           sock'[s].acceptors = sock[s].acceptors, sock'[s].readers = sock[s].readers,
           sock[s].state \notin {"listening", "connected", "write-closed"}
    PROVE  Parked'
  <1>1. 1 .. last \subseteq Ids
    BY Known DEF Types
  <1>2. /\ \A x \in Ids \ 1 .. last : sock'[x] = sock[x]
        /\ \A x \in 1 .. last : \/ sock'[x] = sock[x]
                               \/ /\ sock'[x].acceptors = sock[x].acceptors /\ sock'[x].readers = sock[x].readers
                                  /\ sock[x].state \notin {"listening", "connected", "write-closed"}
    BY <1>1
  <1> QED
    BY <1>2, ParkedStill

LEMMA CallParked ==
    ASSUME Types, Types', Parked, Paired, Call, ~astray'
    PROVE  Parked'
  <1> USE DEF history
  <1>0. /\ \A s \in live : s \in 1 .. last /\ s \in Ids
        /\ sock \in [Ids -> Socks] /\ Inet \subseteq Addrs /\ Unix \subseteq Addrs /\ 1 .. last \subseteq Ids
        /\ \A s \in Ids : sock[s].acceptors \in Seq(Callers) /\ sock[s].readers \in Seq(Callers)
    BY Names, Known DEF Types, SockTypes, Addrs, Socks
  <1>1. ASSUME NEW p \in Pids, Create(p) PROVE Parked'
    <2>1. /\ last' = last + 1 /\ live' = live \cup {last + 1} /\ call' = call /\ crowded' = crowded
          /\ sock'[last'].state = "created" /\ IsNew(sock'[last'], "created")
          /\ \A x \in Ids \ {last'} : sock'[x] = sock[x]
      BY <1>1, CreateEffect DEF Create, IsNew
    <2>2. NobodyJoins /\ \A x \in 1 .. last : x # last'
      BY <2>1, Joining, Known DEF Types
    <2> QED
      BY <1>0, <2>1, <2>2, ParkedStill
  <1>a. ASSUME NEW p \in Pids, SocketpairFails(p) PROVE Parked'
    <2>1. /\ last' = last + 1 /\ live' = live \cup {last + 1} /\ call' = call /\ crowded' = crowded
          /\ sock'[last'].state = "created" /\ IsNew(sock'[last'], "created")
          /\ \A x \in Ids \ {last'} : sock'[x] = sock[x]
      BY <1>a, SocketpairFailsEffect DEF SocketpairFails, IsNew
    <2>2. NobodyJoins /\ \A x \in 1 .. last : x # last'
      BY <2>1, Joining, Known DEF Types
    <2> QED
      BY <1>0, <2>1, <2>2, ParkedStill
  <1>2. ASSUME NEW p \in Pids, Socketpair(p) PROVE Parked'
    <2> DEFINE a == last + 1   b == last + 2
    <2>1. live' = live \cup {a, b} /\ call' = call /\ crowded' = crowded
      BY <1>2 DEF Socketpair
    <2>2. a = last + 1 /\ b = last + 2 /\ \A x \in 1 .. last : x # a /\ x # b
      BY Known DEF Types
    <2> HIDE DEF a, b
    <2>3. /\ \A x \in Ids \ {a, b} : sock'[x] = sock[x]
          /\ IsNew(sock'[a], "connected") /\ IsNew(sock'[b], "connected")
      BY <1>2, <2>2, SocketpairEffect
    <2>4. NobodyJoins /\ sock'[a].state = "connected" /\ sock'[b].state = "connected"
      BY <2>1, <2>3, Joining DEF IsNew
    <2> QED
      BY <1>0, <2>1, <2>2, <2>3, <2>4, ParkedStill
  <1>3. ASSUME NEW closing \in SUBSET live, Destroy(closing) PROVE Parked'
    BY <1>3, ParkedDestroy
  <1>4. ASSUME DisposeAll PROVE Parked'
    BY <1>4, ParkedDispose
  <1>5. ASSUME NEW s \in live, Listen(s) PROVE Parked'
    <2>1. live' = live /\ call' = call /\ crowded' = crowded /\ sock[s].state = "bound"
      BY <1>5 DEF Listen
    <2>2. Only(s, {"state", "limit"})
      BY <1>0, <1>5, ListenEffect
    <2>3. /\ sock'[s].acceptors = sock[s].acceptors /\ sock'[s].readers = sock[s].readers
          /\ \A x \in Ids \ {s} : sock'[x] = sock[x]
      BY <1>0, <2>2 DEF Only, Keeps, Fields
    <2> QED
      BY <1>0, <2>1, <2>3, Joining, ParkedOnly
  <1>6. ASSUME NEW c \in Callers, NEW s \in live, ListenHost(c, s) PROVE Parked'
    <2>1. live' = live /\ call' = [call EXCEPT ![c] = Suspend("listen", s, None)] /\ crowded' = crowded
          /\ sock[s].state = "bound" /\ "listen" \in Ops \ WaitOps
      BY <1>6 DEF ListenHost, Ops, WaitOps
    <2>2. Only(s, {"limit"})
      BY <1>0, <1>6, ListenEffect
    <2>3. /\ sock'[s].acceptors = sock[s].acceptors /\ sock'[s].readers = sock[s].readers
          /\ \A x \in Ids \ {s} : sock'[x] = sock[x]
      BY <1>0, <2>2 DEF Only, Keeps, Fields
    <2>4. NobodyJoins
      BY <1>0, <2>1, Joining
    <2> QED
      BY <1>0, <2>1, <2>3, <2>4, ParkedOnly
  <1>7. ASSUME NEW s \in live, NEW n \in 1 .. MaxBytes, Send(s, n) PROVE Parked'
    <2>0. PICK p : p = sock[s].peer
      OBVIOUS
    <2>1. /\ p \in live /\ live' = live /\ crowded' = crowded /\ call' = Settled(First(sock[p].readers), "socket")
          /\ sock' = [sock EXCEPT ![p].buf = @ + n, ![p].readers = Rest(@)] /\ n \in Nat
      BY <1>7, <2>0, SocketAssumption DEF Send
    <2>2. Only(p, {"buf", "readers"}) /\ sock'[p].readers = Rest(sock[p].readers)
      BY <1>0, <2>1, HostEffect
    <2>3. /\ \A x \in Ids \ {p} : sock'[x] = sock[x]
          /\ \A f \in {"acceptors", "state", "backlog"} : sock'[p][f] = sock[p][f]
      BY <1>0, <2>1, <2>2 DEF Only, Keeps, Fields
    <2>4. NobodyJoins /\ (NothingFor(p, "accept") => NothingFor(p, "accept")')
      BY <2>1, <2>3, Joining DEF NothingFor
    <2> QED
      BY <1>0, <2>1, <2>2, <2>3, <2>4, ParkedReaders
  <1>8. ASSUME NEW s \in live, NEW how \in {"read", "write", "both"}, Shutdown(s, how) PROVE Parked'
    BY <1>8, ParkedShutdown
  <1>9. ASSUME NEW s \in live, NEW a \in Inet, ConnectInet(s, a) PROVE Parked'
    <2> DEFINE l == FindListener(a)
    <2>1. Link(s, l) /\ call' = Settled(First(sock[l].acceptors), "socket")
      BY <1>9 DEF ConnectInet
    <2>2. l \in 1 .. last /\ sock[l].state = "listening"
      BY <1>0, <1>9, Names DEF ConnectInet
    <2> HIDE DEF l
    <2>3. NobodyJoins /\ \A c \in First(sock[l].acceptors) : \A op \in WaitOps : c \in Callers => ~Blocked(c, op)'
      BY <2>1, Joining
    <2> QED
      BY <1>0, <2>1, <2>2, <2>3, ParkedLink
  <1>10. ASSUME NEW s \in live, NEW a \in Inet, ConnectStart(s, a) PROVE Parked'
    <2>1. live' = live /\ call' = call /\ crowded' = crowded /\ sock[s].state \in {"created", "bound"}
          /\ sock' = [sock EXCEPT ![s].state = "connecting"] /\ "connecting" \in States
      BY <1>10 DEF ConnectStart, CanConnect, States
    <2>2. Only(s, {"state"})
      BY <1>0, <2>1, HostEffect
    <2>3. /\ sock'[s].acceptors = sock[s].acceptors /\ sock'[s].readers = sock[s].readers
          /\ \A x \in Ids \ {s} : sock'[x] = sock[x]
      BY <1>0, <2>2 DEF Only, Keeps, Fields
    <2> QED
      BY <1>0, <2>1, <2>3, Joining, ParkedOnly
  <1>11. ASSUME NEW s \in live, NEW a \in Inet, NEW e \in BOOLEAN, Register(s, a, e), call' = call PROVE Parked'
    <2>1. live' = live /\ crowded' = crowded /\ sock[s].state = "created"
      BY <1>11 DEF Register
    <2>2. Only(s, {"local", "state", "ephemeral"})
      BY <1>0, <1>11, RegisterEffect
    <2>3. /\ sock'[s].acceptors = sock[s].acceptors /\ sock'[s].readers = sock[s].readers
          /\ \A x \in Ids \ {s} : sock'[x] = sock[x]
      BY <1>0, <2>2 DEF Only, Keeps, Fields
    <2> QED
      BY <1>0, <1>11, <2>1, <2>3, Joining, ParkedOnly
  <1>12. ASSUME NEW s \in live, NEW reuse \in BOOLEAN,
                (\E a \in Inet : BindInet(s, a, reuse)) \/ (\E h \in Hosts : BindEphemeral(s, h, reuse))
         PROVE  Parked'
    <2>1. ASSUME NEW h \in Hosts, NEW p \in Ports PROVE [host |-> h, port |-> p] \in Inet
      BY DEF Inet
    <2>2. \E a \in Inet : \E e \in BOOLEAN : Register(s, a, e) /\ UNCHANGED <<files, call>>
      BY <1>12, <2>1 DEF BindInet, BindEphemeral, Ephemeral
    <2> QED
      BY <1>11, <2>2
  <1>13. ASSUME NEW c \in Callers, NEW s \in live, Accept(c, s) PROVE Parked'
    <2>1. TakeOrWait(c, s, sock[s].acceptors) /\ live' = live /\ sock[s].state = "listening"
      BY <1>13 DEF Accept
    <2>2. sock[s].acceptors \in Seq(Callers) /\ Len(sock[s].acceptors) <= Len(sock[s].acceptors)
      BY <1>0
    <2> QED
      BY <1>0, <2>1, <2>2, ParkedTake
  <1>14. ASSUME NEW c \in Callers, NEW s \in live, NEW n \in 1 .. MaxBytes, Recv(c, s, n) PROVE Parked'
    <2>1. ReadOrWait(c, s, sock[s].readers, n) /\ live' = live /\ n \in Nat
      BY <1>14, SocketAssumption DEF Recv
    <2>2. sock[s].readers \in Seq(Callers) /\ Len(sock[s].readers) <= Len(sock[s].readers)
      BY <1>0
    <2> QED
      BY <1>0, <2>1, <2>2, ParkedRead
  <1>15. ASSUME NEW c \in Callers, NEW s \in live,
                \/ \E a \in Unix : BindUnix(c, s, a) \/ ConnectUnix(c, s, a)
                \/ \E a \in Inet : ConnectHost(c, s, a)
         PROVE  Parked'
    <2>1. sock' = sock /\ live' = live /\ crowded' = crowded /\ {"bind", "connect", "connectHost"} \subseteq Ops \ WaitOps
      BY <1>15 DEF BindUnix, ConnectUnix, ConnectHost, Ops, WaitOps
    <2>2. \/ \E a \in Unix : \/ call' = [call EXCEPT ![c] = Suspend("bind", s, a)]
                             \/ call' = [call EXCEPT ![c] = Suspend("connect", s, a)]
          \/ \E a \in Inet : call' = [call EXCEPT ![c] = Suspend("connectHost", s, a)]
      BY <1>15 DEF BindUnix, ConnectUnix, ConnectHost
    <2>3. NobodyJoins
      BY <1>0, <2>1, <2>2, Joining
    <2> QED
      BY <2>1, <2>3, ParkedStill
  <1>16. ASSUME NEW p \in Pids, CloseAllForProcess(p) PROVE Parked'
    BY <1>3, <1>16 DEF CloseAllForProcess
  <1>17. ASSUME NEW s \in live, Close(s) PROVE Parked'
    BY <1>3, <1>17 DEF Close
  <1> QED
    BY <1>1, <1>a, <1>2, <1>4, <1>5, <1>6, <1>7, <1>8, <1>9, <1>10, <1>12, <1>13, <1>14, <1>15, <1>16, <1>17 DEF Call

LEMMA ProgressParked ==
    ASSUME Types, Types', Parked, Owned, Progress, ~astray'
    PROVE  Parked'
  <1> USE DEF history
  <1>0. /\ \A s \in live : s \in 1 .. last /\ s \in Ids
        /\ sock \in [Ids -> Socks] /\ Unix \subseteq Addrs /\ 1 .. last \subseteq Ids
        /\ \A c \in Callers : call[c].op # "idle" => call[c].sock \in 1 .. last /\ call[c].sock \in Ids
        /\ \A c \in Callers : call[c].op \in {"bind", "mkfile", "connect"} => call[c].addr \in Unix
        /\ \A s \in Ids : sock[s].acceptors \in Seq(Callers) /\ sock[s].readers \in Seq(Callers)
    BY Names, Known DEF Types, SockTypes, Addrs, CallTypes, Socks
  <1>1. ASSUME NEW c \in Callers, BindUnixFails(c) \/ HostRefuses(c) \/ ConnectUnixFails(c) \/ CreateSocketFile(c)
        PROVE  Parked'
    <2>1. sock' = sock /\ live' = live /\ crowded' = crowded /\ call' = [call EXCEPT ![c] = Idle]
      BY <1>1 DEF BindUnixFails, HostRefuses, ConnectUnixFails, CreateSocketFile
    <2>2. NobodyJoins
      BY <2>1, Joining
    <2> QED
      BY <2>1, <2>2, ParkedStill
  <1>2. ASSUME NEW c \in Callers, BindUnixResume(c) PROVE Parked'
    <2>0. PICK s, a : s = call[c].sock /\ a = call[c].addr
      OBVIOUS
    <2>1. /\ Register(s, a, FALSE) /\ call[c].op = "bind" /\ call' = [call EXCEPT ![c] = Suspend("mkfile", s, a)]
          /\ "mkfile" \in Ops \ WaitOps
      BY <1>2, <2>0 DEF BindUnixResume, Ops, WaitOps
    <2>2. s \in 1 .. last /\ s \in Ids /\ a \in Addrs
      BY <1>0, <2>0, <2>1
    <2>3. live' = live /\ crowded' = crowded /\ sock[s].state = "created"
      BY <2>1 DEF Register
    <2>4. Only(s, {"local", "state", "ephemeral"})
      BY <2>1, <2>2, RegisterEffect
    <2>5. /\ sock'[s].acceptors = sock[s].acceptors /\ sock'[s].readers = sock[s].readers
          /\ \A x \in Ids \ {s} : sock'[x] = sock[x]
      BY <2>2, <2>4 DEF Only, Keeps, Fields
    <2>6. NobodyJoins
      BY <2>1, <2>2, Joining
    <2> QED
      BY <2>2, <2>3, <2>5, <2>6, ParkedOnly
  <1>3. ASSUME NEW c \in Callers, AcceptResume(c) PROVE Parked'
    <2>0. PICK s, left : s = call[c].sock /\ left = RemoveFirst(sock[s].acceptors, c)
      OBVIOUS
    <2>1. /\ call[c].op = "accept" /\ live' = live
          /\ astray' = (astray \/ (s \notin live /\ sock'[s].acceptors # left))
          /\ \/ /\ sock' = [sock EXCEPT ![s].acceptors = left] /\ call' = [call EXCEPT ![c] = Idle]
                /\ crowded' = crowded
             \/ TakeOrWait(c, s, left) /\ sock[s].state = "listening"
      BY <1>3, <2>0 DEF AcceptResume
    <2>2. s \in 1 .. last /\ s \in Ids /\ sock[s].acceptors \in Seq(Callers)
      BY <1>0, <2>0, <2>1
    <2>3. /\ left \in Seq(Callers) /\ Len(left) <= Len(sock[s].acceptors)
          /\ \A x \in Range(sock[s].acceptors) : x # c => x \in Range(left)
      BY <2>0, <2>2, RemoveEffect
    <2>4. CASE TakeOrWait(c, s, left) /\ sock[s].state = "listening"
      <3>1. sock'[s].acceptors # left => s \in live
        BY <2>1
      <3> QED
        BY <2>1, <2>2, <2>3, <2>4, <3>1, ParkedTake
    <2>5. CASE sock' = [sock EXCEPT ![s].acceptors = left] /\ call' = [call EXCEPT ![c] = Idle] /\ crowded' = crowded
      <3>1. Only(s, {"acceptors"}) /\ sock'[s].acceptors = left
        BY <2>2, <2>3, <2>5, QueueEffect
      <3>2. NobodyJoins /\ ~Blocked(c, "accept")' /\ "accept" \in WaitOps /\ "recv" \in WaitOps
        BY <2>5, Joining DEF WaitOps
      <3>3. \A x \in Ids : \A f \in {"state", "peer", "peerWriteClosed", "buf", "backlog", "host", "readers"} :
               sock'[x][f] = sock[x][f]
        BY <3>1 DEF Only, Keeps, Fields
      <3>4. \A x \in Ids : \A op \in WaitOps : NothingFor(x, op) => NothingFor(x, op)'
        BY <2>1, <3>3, Undisturbed
      <3>5. \A x \in Ids : \A op \in WaitOps : x # s \/ op # "accept" => QueueOf(x, op)' = QueueOf(x, op)
        BY <3>1, <3>3 DEF Only, QueueOf, WaitOps
      <3>6. QueueOf(s, "accept") = sock[s].acceptors /\ QueueOf(s, "accept")' = left
        BY <3>1 DEF QueueOf
      <3>7. Served(s, "accept") /\ Shorter(s, "accept")
        BY <2>2, <2>3, <3>2, <3>4, <3>6, Waking
      <3>8. \A x \in Ids : \A op \in WaitOps : Served(x, op) /\ Shorter(x, op)
        BY <3>4, <3>5, <3>7, Waking
      <3> QED
        BY <1>0, <2>5, <3>2, <3>8, ParkedServed
    <2> QED
      BY <2>1, <2>4, <2>5
  <1>4. ASSUME NEW c \in Callers, NEW n \in 1 .. MaxBytes, RecvResume(c, n) PROVE Parked'
    <2>0. PICK s, left : s = call[c].sock /\ left = RemoveFirst(sock[s].readers, c)
      OBVIOUS
    <2>1. /\ call[c].op = "recv" /\ live' = live /\ n \in Nat
          /\ \/ /\ sock' = [sock EXCEPT ![s].readers = left] /\ call' = [call EXCEPT ![c] = Idle]
                /\ crowded' = crowded
             \/ ReadOrWait(c, s, left, n)
      BY <1>4, <2>0, SocketAssumption DEF RecvResume
    <2>2. s \in 1 .. last /\ s \in Ids /\ sock[s].readers \in Seq(Callers)
      BY <1>0, <2>0, <2>1
    <2>3. /\ left \in Seq(Callers) /\ Len(left) <= Len(sock[s].readers)
          /\ \A x \in Range(sock[s].readers) : x # c => x \in Range(left)
      BY <2>0, <2>2, RemoveEffect
    <2>4. CASE ReadOrWait(c, s, left, n)
      BY <2>1, <2>2, <2>3, <2>4, ParkedRead
    <2>5. CASE sock' = [sock EXCEPT ![s].readers = left] /\ call' = [call EXCEPT ![c] = Idle] /\ crowded' = crowded
      <3>1. Only(s, {"readers"}) /\ sock'[s].readers = left
        BY <2>2, <2>3, <2>5, QueueEffect
      <3>2. NobodyJoins /\ ~Blocked(c, "recv")' /\ "accept" \in WaitOps /\ "recv" \in WaitOps
        BY <2>5, Joining DEF WaitOps
      <3>3. \A x \in Ids : \A f \in {"state", "peer", "peerWriteClosed", "buf", "backlog", "host", "acceptors"} :
               sock'[x][f] = sock[x][f]
        BY <3>1 DEF Only, Keeps, Fields
      <3>4. \A x \in Ids : \A op \in WaitOps : NothingFor(x, op) => NothingFor(x, op)'
        BY <2>1, <3>3, Undisturbed
      <3>5. \A x \in Ids : \A op \in WaitOps : x # s \/ op # "recv" => QueueOf(x, op)' = QueueOf(x, op)
        BY <3>1, <3>3 DEF Only, QueueOf, WaitOps
      <3>6. QueueOf(s, "recv") = sock[s].readers /\ QueueOf(s, "recv")' = left
        BY <3>1 DEF QueueOf
      <3>7. Served(s, "recv") /\ Shorter(s, "recv")
        BY <2>2, <2>3, <3>2, <3>4, <3>6, Waking
      <3>8. \A x \in Ids : \A op \in WaitOps : Served(x, op) /\ Shorter(x, op)
        BY <3>4, <3>5, <3>7, Waking
      <3> QED
        BY <1>0, <2>5, <3>2, <3>8, ParkedServed
    <2> QED
      BY <2>1, <2>4, <2>5
  <1>5. ASSUME NEW c \in Callers, ConnectUnixResume(c) PROVE Parked'
    <2>0. PICK s, l : s = call[c].sock /\ l = FindListener(call[c].addr)
      OBVIOUS
    <2>1. /\ call[c].op = "connect" /\ l # None /\ Link(s, l)
          /\ call' = [Settled(First(sock[l].acceptors), "socket") EXCEPT ![c] = Idle]
      BY <1>5, <2>0 DEF ConnectUnixResume
    <2>2. s \in 1 .. last /\ l \in 1 .. last /\ sock[l].state = "listening"
      BY <1>0, <2>0, <2>1, Names
    <2>3. NobodyJoins /\ \A d \in First(sock[l].acceptors) : \A op \in WaitOps : d \in Callers => ~Blocked(d, op)'
      BY <2>1, Joining
    <2> QED
      BY <2>1, <2>2, <2>3, ParkedLink
  <1>6. ASSUME NEW s \in 1 .. last, live' = live, crowded' = crowded, NobodyJoins,
               sock[s].state \in {"created", "bound", "connecting"},
               \/ sock' = [sock EXCEPT ![s].state = "connected", ![s].host = "socket"]
               \/ sock' = [sock EXCEPT ![s].state = "created"]
        PROVE  Parked'
    <2>1. Only(s, {"state"}) \/ Only(s, {"state", "host"})
      <3>1. s \in Ids /\ "created" \in States
        BY <1>0 DEF States
      <3> QED
        BY <1>6, <3>1, HostEffect
    <2>2. /\ sock'[s].acceptors = sock[s].acceptors /\ sock'[s].readers = sock[s].readers
          /\ \A x \in Ids \ {s} : sock'[x] = sock[x]
      BY <1>0, <2>1 DEF Only, Keeps, Fields
    <2> QED
      BY <1>6, <2>2, ParkedOnly
  <1>7. ASSUME NEW c \in Callers, ConnectHostResume(c) PROVE Parked'
    <2>0. PICK s : s = call[c].sock
      OBVIOUS
    <2>1. /\ call[c].op = "connectHost" /\ live' = live /\ crowded' = crowded /\ call' = [call EXCEPT ![c] = Idle]
          /\ sock' = [sock EXCEPT ![s].state = "connected", ![s].host = "socket"]
          /\ astray' = (astray \/ s \notin live \/ sock[s].state \notin {"created", "bound"})
      BY <1>7, <2>0 DEF ConnectHostResume
    <2>2. s \in 1 .. last /\ NobodyJoins /\ sock[s].state \in {"created", "bound", "connecting"}
      BY <1>0, <2>0, <2>1, Joining
    <2> QED
      BY <1>6, <2>1, <2>2
  <1>8. ASSUME NEW s \in Ids, ConnectDone(s) PROVE Parked'
    <2>1. /\ s \in live /\ live' = live /\ crowded' = crowded /\ call' = call
          /\ \/ sock' = [sock EXCEPT ![s].state = "connected", ![s].host = "socket"]
             \/ sock' = [sock EXCEPT ![s].state = "created"]
          /\ sock[s].state \in {"created", "bound", "connecting"}
      BY <1>8 DEF ConnectDone
    <2>2. s \in 1 .. last /\ NobodyJoins
      BY <1>0, <2>1, Joining
    <2> QED
      BY <1>6, <2>1, <2>2
  <1>9. ASSUME NEW s \in Ids, HostConnects(s) \/ PumpDrops(s) PROVE Parked'
    <2>1. sock' = sock /\ live' = live /\ crowded' = crowded /\ call' = call
      BY <1>9 DEF HostConnects, PumpDrops
    <2>2. NobodyJoins
      BY <2>1, Joining
    <2> QED
      BY <2>1, <2>2, ParkedStill
  <1>10. ASSUME NEW s \in Ids, PumpAccepts(s) PROVE Parked'
    BY <1>10, ParkedPump
  <1>11. ASSUME NEW s \in Ids, HostWriteFails(s) PROVE Parked'
    <2>1. /\ s \in live /\ live' = live /\ crowded' = crowded /\ call' = Settled(Range(sock[s].readers), "socket")
          /\ sock' = [sock EXCEPT ![s].state = "closed", ![s].readers = <<>>] /\ sock[s].host = "socket"
      BY <1>11 DEF HostWriteFails
    <2>2. Only(s, {"state", "readers"}) /\ sock'[s].readers = <<>>
      BY <2>1, HostEffect
    <2>3. \A x \in Ids \ {s} : sock'[x] = sock[x]
      BY <2>2 DEF Only
    <2>4. sock'[s].acceptors = sock[s].acceptors
      BY <2>2 DEF Only, Keeps, Fields
    <2>5. ~NothingFor(s, "accept")
      BY <2>1 DEF NothingFor, Owned, HostStates, Early
    <2>6. NobodyJoins
      BY <2>1, Joining
    <2> QED
      BY <2>1, <2>2, <2>3, <2>4, <2>5, <2>6, ParkedReaders
  <1>12. ASSUME NEW s \in Ids, NEW n \in 1 .. MaxBytes, HostData(s, n) PROVE Parked'
    <2>1. /\ live' = live /\ crowded' = crowded /\ call' = Settled(First(sock[s].readers), "socket")
          /\ sock' = [sock EXCEPT ![s].buf = @ + n, ![s].readers = Rest(@)] /\ n \in Nat
      BY <1>12, SocketAssumption DEF HostData
    <2>2. Only(s, {"buf", "readers"}) /\ sock'[s].readers = Rest(sock[s].readers)
      BY <2>1, HostEffect
    <2>3. /\ \A x \in Ids \ {s} : sock'[x] = sock[x]
          /\ \A f \in {"acceptors", "state", "backlog"} : sock'[s][f] = sock[s][f]
      BY <2>2 DEF Only, Keeps, Fields
    <2>4. NobodyJoins /\ (NothingFor(s, "accept") => NothingFor(s, "accept")')
      BY <2>1, <2>3, Joining DEF NothingFor
    <2> QED
      BY <2>1, <2>2, <2>3, <2>4, ParkedReaders
  <1>13. ASSUME NEW s \in Ids, HostEnds(s) PROVE Parked'
    <2>1. /\ live' = live /\ crowded' = crowded /\ call' = Settled(Range(sock[s].readers), "socket")
          /\ sock' = [sock EXCEPT ![s].peerWriteClosed = TRUE, ![s].readers = <<>>]
      BY <1>13 DEF HostEnds
    <2>2. Only(s, {"peerWriteClosed", "readers"}) /\ sock'[s].readers = <<>>
      BY <2>1, HostEffect
    <2>3. /\ \A x \in Ids \ {s} : sock'[x] = sock[x]
          /\ \A f \in {"acceptors", "state", "backlog"} : sock'[s][f] = sock[s][f]
      BY <2>2 DEF Only, Keeps, Fields
    <2>4. NobodyJoins /\ (NothingFor(s, "accept") => NothingFor(s, "accept")')
      BY <2>1, <2>3, Joining DEF NothingFor
    <2> QED
      BY <2>1, <2>2, <2>3, <2>4, ParkedReaders
  <1>14. ASSUME NEW p \in Pids, Signal(p) PROVE Parked'
    <2>1. /\ sock' = sock /\ live' = live /\ crowded' = crowded
          /\ \E hit \in SUBSET Callers : call' = Settled(hit, "signal")
      BY <1>14 DEF Signal
    <2>2. NobodyJoins
      BY <2>1, Joining
    <2> QED
      BY <2>1, <2>2, ParkedStill
  <1>15. ASSUME NEW c \in Callers, NEW port \in Ports, ListenResume(c, port) PROVE Parked'
    <2>0. PICK s : s = call[c].sock
      OBVIOUS
    <2>1. /\ live' = live /\ crowded' = crowded /\ call' = [call EXCEPT ![c] = Idle]
          /\ astray' = (astray \/ s \notin live \/ sock[s].state # "bound")
      BY <1>15, <2>0 DEF ListenResume
    <2>2. s \in 1 .. last /\ s \in Ids /\ Only(s, {"state", "local", "host"})
      BY <1>15, <2>0, ListenResumeEffect
    <2>3. /\ sock'[s].acceptors = sock[s].acceptors /\ sock'[s].readers = sock[s].readers
          /\ \A x \in Ids \ {s} : sock'[x] = sock[x]
      BY <2>2 DEF Only, Keeps, Fields
    <2>4. NobodyJoins /\ sock[s].state = "bound"
      BY <2>1, Joining
    <2> QED
      BY <2>1, <2>2, <2>3, <2>4, ParkedOnly
  <1> QED
    BY <1>1, <1>2, <1>3, <1>4, <1>5, <1>7, <1>8, <1>9, <1>10, <1>11, <1>12, <1>13, <1>14, <1>15 DEF Progress

LEMMA ParkedHolds == Spec => [](~astray => Parked)
  <1>1. ASSUME Init PROVE Parked
    <2>1. PICK a \in Inet : Starting(a)
      BY <1>1, Start
    <2>2. \A s \in Ids : \A op \in WaitOps : QueueOf(s, op) = <<>>
      BY <2>1 DEF Starting, QueueOf
    <2>3. \A c \in Callers : call[c].op = "idle"
      BY <1>1 DEF Init, Idle
    <2>4. \A c \in Callers : \A op \in WaitOps : ~Blocked(c, op)
      BY <2>3 DEF Blocked, WaitOps
    <2> QED
      BY <2>2, <2>4 DEF Parked
  <1>2. ASSUME Types, Types', ~astray => Asked, ~astray => Paired, ~astray => Owned, ~astray => Parked, [Next]_vars, ~astray' PROVE Parked'
    <2>1. CASE Next
      <3>1. ~astray
        BY <1>2, <2>1, StepKinds
      <3> QED
        BY <1>2, <2>1, <3>1, CallParked, ProgressParked DEF Next
    <2>2. CASE UNCHANGED vars
      BY <1>2, <2>2 DEF vars, Parked, Blocked, QueueOf, NothingFor, CanBlockForRecv, Eof
    <2> QED
      BY <1>2, <2>1, <2>2
  <1>3. Init => (~astray => Parked)
    BY <1>1
  <1>4. /\ Types /\ Types' /\ (~astray => Asked) /\ (~astray => Paired) /\ (~astray => Owned) /\ (~astray => Parked) /\ [Next]_vars
        => (~astray => Parked)'
    BY <1>2
  <1> QED
    BY <1>3, <1>4, TypesHold, AskedHolds, PairedHolds, OwnedHolds, PTL DEF Spec

\* Until a resumed call goes astray, a caller that is alone on its socket and
\* blocked in accept() or recv() with an unsettled handle has nothing to go on
\* with: no connection, byte, half-close, close, exit, host failure or disposal
\* passes it by, whatever happens between its test and its wait.
THEOREM CallersWoken == Spec => []NoLostWakeup
  <1>1. (~astray => Parked) => NoLostWakeup
    <2>1. ASSUME ~astray, Parked, NEW c \in Callers, NEW op \in WaitOps, Blocked(c, op), call[c].sock \notin crowded
          PROVE  NothingFor(call[c].sock, op)
      BY <2>1 DEF Parked
    <2> QED
      BY <2>1 DEF NoLostWakeup, Blocked, NothingFor, WaitOps
  <1> QED
    BY <1>1, ParkedHolds, PTL

=============================================================================
