----------------------------- MODULE KernelFD -----------------------------
(***************************************************************************)
(* File descriptors of the kernel: ProcessFDTable and FDTableManager       *)
(* (packages/core/src/kernel/fd-table.ts) and the operations of kernel.ts  *)
(* that drive them together with the pipe, PTY and lock managers: fdOpen,  *)
(* fdDup*, fcntl, fdClose, pipe, openpty, flock, spawn and process exit.   *)
(*                                                                         *)
(* Each of these runs to its end on the event loop, so each is one step,   *)
(* except flock, which awaits a lock that another description holds: that  *)
(* call goes on whatever happens to its descriptor meanwhile.              *)
(*                                                                         *)
(* What the processes share are the FileDescriptions: a pipe or PTY end    *)
(* must be closed, and a lock released, by whichever process happens to    *)
(* drop the last reference, in whatever operation that happens.            *)
(*                                                                         *)
(* Calls that change nothing (EBADF, EMFILE before any assignment, ESRCH,  *)
(* ENOENT, a flag set to its own value) are the absence of a step.  The    *)
(* lock manager is seen through the locks its descriptions hold and wait   *)
(* for; which locks conflict, and the wait queue, are the subject of       *)
(* FileLock.  Blocked calls of one description for one lock are one.       *)
(***************************************************************************)
EXTENDS Integers, FiniteSets, FiniteSetsExt

CONSTANTS Pids,        \* processes the kernel ever creates
          NStdio,      \* standard descriptors of a process: 3 in the code
          MaxFds,      \* MAX_FDS_PER_PROCESS
          MaxFd,       \* bound: largest descriptor number
          MaxDesc,     \* bound: FileDescriptions ever allocated
          MaxMarked,   \* bound: descriptors marked close-on-exec at a time
          MaxLocks,    \* bound: locks granted without waiting at a time
          MaxWaits     \* bound: flock calls blocked at a time

ASSUME FDAssumption ==
    /\ IsFiniteSet(Pids)
    /\ NStdio \in Nat \ {0}
    /\ MaxFd \in Nat
    /\ NStdio <= MaxFd
    /\ MaxFds \in Nat
    /\ MaxDesc \in Nat
    /\ MaxMarked \in Nat
    /\ MaxLocks \in Nat
    /\ MaxWaits \in Nat

FdNo == 0 .. MaxFd
Stdio == 0 .. NStdio - 1
Desc == 1 .. MaxDesc
NoDesc == 0
Unset == MaxFd + 1          \* an override the caller of spawn left undefined

VARIABLES
    state,     \* "none", "running", "exited", or "orphan": table without process
    table,     \* entries: the description behind each descriptor, or NoDesc
    cloexec,   \* the <<pid, fd>> marked close-on-exec
    nextFd,    \* the allocation hint of each table
    nextDesc,  \* nextDescriptionId
    kind,      \* "file", "pipe" or "pty"
    pair,      \* which pipe or PTY an end belongs to (its first end)
    refCount,  \* FileDescription.refCount
    ended,     \* pipe and PTY ends their manager was told to close
    locked,    \* descriptions that hold an advisory lock
    waiting,   \* <<d, e>>: a flock of d waits for e, which holds the lock
    stranded,  \* history: ends a failed pipe() or openpty() left in no table
    late       \* history: descriptions given a lock after their last reference

vars == <<state, table, cloexec, nextFd, nextDesc, kind, pair, refCount,
          ended, locked, waiting, stranded, late>>
waits == <<waiting, late>>
descs == <<nextDesc, kind, pair, stranded, waits>>

----------------------------------------------------------------------------

Used(t) == {f \in FdNo : t[f] # NoDesc}

\* The limit allocateFd and dupMinFd enforce.
HasRoom(t) == Cardinality(Used(t)) < MaxFds

\* allocateFd: the first free descriptor from the hint on (a number past the
\* bound is Unset).  The caller moves the hint behind it; it never moves back.
AllocateFd(t, hint) ==
    LET free == {f \in hint .. MaxFd : t[f] = NoDesc}
    IN  IF free = {} THEN Unset ELSE Min(free)

\* The close-on-exec flag of entry e becomes c.
Mark(e, c) ==
    /\ c => Cardinality(cloexec \cup {e}) <= MaxMarked
    /\ cloexec' = IF c THEN cloexec \cup {e} ELSE cloexec \ {e}

\* Slip: the end of a pipe or PTY is not closed.
MutReleased(ds, refs) ==
    /\ ended' = ended
    /\ locked' = locked \ {d \in ds : refs[d] <= 0}

\* The last reference to a description among ds is gone: its pipe or PTY end
\* is closed and its lock released.
Released(ds, refs) ==
    /\ ended' = ended \cup {d \in ds : refs[d] <= 0 /\ kind[d] \in {"pipe", "pty"}}
    /\ locked' = locked \ {d \in ds : refs[d] <= 0}

\* n new descriptions of kind k; those of a pipe or a PTY form a pair.
NewDescs(n, k) ==
    /\ nextDesc + n <= MaxDesc + 1
    /\ nextDesc' = nextDesc + n
    /\ kind' = [d \in Desc |-> IF d \in nextDesc .. nextDesc + n - 1
                                 THEN k ELSE kind[d]]
    /\ pair' = [d \in Desc |-> IF d \in nextDesc .. nextDesc + n - 1
                                    /\ k # "file"
                                 THEN nextDesc ELSE pair[d]]

----------------------------------------------------------------------------

\* fdOpen of a path: ProcessFDTable.open, with or without O_CLOEXEC.
Open(p, c) ==
    LET fd == AllocateFd(table[p], nextFd[p]) IN
    /\ state[p] = "running" /\ HasRoom(table[p]) /\ fd \in FdNo
    /\ NewDescs(1, "file")
    /\ table' = [table EXCEPT ![p][fd] = nextDesc]
    /\ nextFd' = [nextFd EXCEPT ![p] = fd + 1]
    /\ Mark(<<p, fd>>, c)
    /\ refCount' = [refCount EXCEPT ![nextDesc] = 1]
    /\ UNCHANGED <<state, ended, locked, stranded, waits>>

\* pipe and openpty: two descriptions, installed by two openWith calls.
CreatePair(p, k) ==
    LET first == AllocateFd(table[p], nextFd[p])
        t1 == [table[p] EXCEPT ![first] = nextDesc]
        second == AllocateFd(t1, first + 1) IN
    /\ state[p] = "running" /\ HasRoom(table[p]) /\ first \in FdNo
    /\ HasRoom(t1) /\ second \in FdNo
    /\ NewDescs(2, k)
    /\ table' = [table EXCEPT ![p] = [t1 EXCEPT ![second] = nextDesc + 1]]
    /\ nextFd' = [nextFd EXCEPT ![p] = second + 1]
    /\ refCount' = [refCount EXCEPT ![nextDesc] = 1, ![nextDesc + 1] = 1]
    /\ UNCHANGED <<state, cloexec, ended, locked, stranded, waits>>

\* The same when the second openWith throws EMFILE: the first end stays.
CreatePairFails(p, k) ==
    LET first == AllocateFd(table[p], nextFd[p])
        t1 == [table[p] EXCEPT ![first] = nextDesc] IN
    /\ state[p] = "running" /\ HasRoom(table[p]) /\ first \in FdNo
    /\ ~HasRoom(t1)
    /\ NewDescs(2, k)
    /\ table' = [table EXCEPT ![p] = t1]
    /\ nextFd' = [nextFd EXCEPT ![p] = first + 1]
    /\ refCount' = [refCount EXCEPT ![nextDesc] = 1]
    /\ stranded' = stranded \cup {nextDesc + 1}
    /\ UNCHANGED <<state, cloexec, ended, locked, waits>>

\* fdDup, and fdOpen of /dev/fd/N.
Dup(p, fd) ==
    LET new == AllocateFd(table[p], nextFd[p]) IN
    /\ state[p] = "running" /\ table[p][fd] # NoDesc
    /\ HasRoom(table[p]) /\ new \in FdNo
    /\ table' = [table EXCEPT ![p][new] = table[p][fd]]
    /\ nextFd' = [nextFd EXCEPT ![p] = new + 1]
    /\ refCount' = [refCount EXCEPT ![table[p][fd]] = @ + 1]
    /\ UNCHANGED <<state, cloexec, descs, ended, locked>>

\* fdDupMin, F_DUPFD and F_DUPFD_CLOEXEC: the hint is neither used nor moved.
DupMin(p, fd, min, c) ==
    LET new == AllocateFd(table[p], min) IN
    /\ state[p] = "running" /\ table[p][fd] # NoDesc
    /\ HasRoom(table[p]) /\ new \in FdNo
    /\ table' = [table EXCEPT ![p][new] = table[p][fd]]
    /\ Mark(<<p, new>>, c)
    /\ refCount' = [refCount EXCEPT ![table[p][fd]] = @ + 1]
    /\ UNCHANGED <<state, nextFd, descs, ended, locked>>

\* fdDup2: no limit is checked; the description that was behind the target
\* goes the way of fdClose if this was its last reference.
Dup2(p, old, new) ==
    LET d == table[p][old]
        target == table[p][new]
        closed == IF target = NoDesc THEN refCount
                  ELSE [refCount EXCEPT ![target] = @ - 1]
        refs == [closed EXCEPT ![d] = @ + 1] IN
    /\ state[p] = "running" /\ d # NoDesc /\ old # new
    /\ table' = [table EXCEPT ![p][new] = d]
    /\ cloexec' = cloexec \ {<<p, new>>}
    /\ refCount' = refs
    /\ Released({target} \ {NoDesc}, refs)
    /\ UNCHANGED <<state, nextFd, descs>>

\* fdClose.
Close(p, fd) ==
    LET d == table[p][fd]
        refs == [refCount EXCEPT ![d] = @ - 1] IN
    /\ state[p] = "running" /\ d # NoDesc
    /\ table' = [table EXCEPT ![p][fd] = NoDesc]
    /\ cloexec' = cloexec \ {<<p, fd>>}
    /\ refCount' = refs
    /\ Released({d}, refs)
    /\ UNCHANGED <<state, nextFd, descs>>

\* fdSetCloexec and F_SETFD.
SetCloexec(p, fd, c) ==
    /\ state[p] = "running" /\ table[p][fd] # NoDesc
    /\ c # (<<p, fd>> \in cloexec)
    /\ Mark(<<p, fd>>, c)
    /\ UNCHANGED <<state, table, nextFd, descs, refCount, ended, locked>>

\* flock without a conflict: granted before the call first awaits.
Flock(p, fd) ==
    /\ state[p] = "running" /\ table[p][fd] \notin locked \cup {NoDesc}
    /\ locked' = locked \cup {table[p][fd]}
    /\ Cardinality(locked') <= MaxLocks
    /\ UNCHANGED <<state, table, cloexec, nextFd, descs, refCount, ended>>

\* Descriptions that may have the same path: a file, and a file or a PTY slave.
\* The paths of pipe ends are their own.
SamePath(d, e) ==
    "file" \in {kind[d], kind[e]} /\ "pipe" \notin {kind[d], kind[e]}

\* flock that conflicts with the lock of e: the call awaits.  It has d, not fd.
FlockWaits(p, fd, e) ==
    LET d == table[p][fd] IN
    /\ state[p] = "running" /\ d # NoDesc
    /\ e \in locked \ {d} /\ SamePath(d, e)
    /\ waiting' = waiting \cup {<<d, e>>}
    /\ Cardinality(waiting') <= MaxWaits
    /\ UNCHANGED <<state, table, cloexec, nextFd, nextDesc, kind, pair,
                   refCount, ended, locked, stranded, late>>

\* The call goes on once e has given its lock up: the lock is granted, whether
\* d is still open or not, or some other description g was faster.
FlockResumes(d, e) ==
    /\ <<d, e>> \in waiting /\ e \notin locked
    /\ \/ /\ waiting' = waiting \ {<<d, e>>}
          /\ locked' = locked \cup {d}
          /\ late' = IF refCount[d] = 0 THEN late \cup {d} ELSE late
       \/ /\ \E g \in locked \ {d} :
               SamePath(d, g) /\ waiting' = (waiting \ {<<d, e>>}) \cup {<<d, g>>}
          /\ UNCHANGED <<locked, late>>
    /\ UNCHANGED <<state, table, cloexec, nextFd, nextDesc, kind, pair,
                   refCount, ended, stranded>>

\* LOCK_UN
FlockUn(p, fd) ==
    /\ state[p] = "running" /\ table[p][fd] \in locked
    /\ locked' = locked \ {table[p][fd]}
    /\ UNCHANGED <<state, table, cloexec, nextFd, descs, refCount, ended>>

----------------------------------------------------------------------------

\* fork: the entries of p that are not close-on-exec.
Forked(p) == [f \in FdNo |-> IF <<p, f>> \in cloexec THEN NoDesc ELSE table[p][f]]

\* applyStdioOverride on each standard descriptor: the caller's description
\* behind ov[s] replaces the inherited one.  An override the caller does not
\* have open, like the /dev/null sentinel, keeps the inherited descriptor.
Overridden(p, t, ov) ==
    [f \in FdNo |-> IF f \in Stdio /\ ov[f] \in Used(table[p])
                      THEN table[p][ov[f]] ELSE t[f]]

\* Slip: only descriptors of the very same end are dropped.
MutCounterparts(t) ==
    {f \in FdNo \ Stdio : t[f] # NoDesc /\ kind[t[f]] = "pipe"
                            /\ \E s \in Stdio : t[s] = t[f]}

\* Descriptors above stdio that lead to a pipe the child's stdio also leads to.
Counterparts(t) ==
    {f \in FdNo \ Stdio :
       t[f] # NoDesc /\ kind[t[f]] = "pipe"
         /\ \E s \in Stdio : t[s] # NoDesc /\ kind[t[s]] = "pipe"
                               /\ pair[t[s]] = pair[t[f]]}

\* createChildFDTable for a caller that has a table.
ChildTable(p, ov) ==
    LET t == Overridden(p, Forked(p), ov) IN
    IF \A s \in Stdio : ov[s] = Unset
      THEN Forked(p)
      ELSE [f \in FdNo |-> IF f \in Counterparts(t) THEN NoDesc ELSE t[f]]

\* Slip: a description is counted once per table.
MutCountedIn(t) ==
    [d \in Desc |-> refCount[d] + (IF \E f \in FdNo : t[f] = d THEN 1 ELSE 0)]

\* The references of t, counted in.
CountedIn(t) ==
    [d \in Desc |-> refCount[d] + Cardinality({f \in FdNo : t[f] = d})]

\* spawn by process p: the child's table exists before driver.spawn is called,
\* and stays behind when that throws (ok = FALSE).  No inherited description
\* can lose its last reference here, since the caller still holds it.
Spawn(p, c, ov, ok) ==
    /\ state[p] = "running" /\ state[c] = "none"
    /\ table' = [table EXCEPT ![c] = ChildTable(p, ov)]
    /\ nextFd' = [nextFd EXCEPT ![c] = nextFd[p]]
    /\ refCount' = CountedIn(ChildTable(p, ov))
    /\ state' = [state EXCEPT ![c] = IF ok THEN "running" ELSE "orphan"]
    /\ UNCHANGED <<cloexec, descs, ended, locked>>

\* spawn by the host: FDTableManager.create with fresh standard descriptors.
SpawnHost(c) ==
    /\ state[c] = "none"
    /\ NewDescs(NStdio, "file")
    /\ table' = [table EXCEPT ![c] =
                   [f \in FdNo |-> IF f \in Stdio THEN nextDesc + f ELSE NoDesc]]
    /\ nextFd' = [nextFd EXCEPT ![c] = NStdio]
    /\ refCount' = [d \in Desc |->
                      IF d \in nextDesc .. nextDesc + NStdio - 1
                        THEN 1 ELSE refCount[d]]
    /\ state' = [state EXCEPT ![c] = "running"]
    /\ UNCHANGED <<cloexec, ended, locked, stranded, waits>>

\* Slip: closeAll runs twice.
MutCountedOut(p) ==
    [d \in Desc |-> refCount[d] - 2 * Cardinality({f \in FdNo : table[p][f] = d})]

\* The references of process p, counted out.
CountedOut(p) ==
    [d \in Desc |-> refCount[d] - Cardinality({f \in FdNo : table[p][f] = d})]

\* Slip: only the standard descriptors are swept.
MutSwept(p, refs) ==
    LET last == {table[p][f] : f \in Stdio} \ {NoDesc}
        gone == {d \in last : refs[d] <= 0}
        ends == {d \in gone : kind[d] \in {"pipe", "pty"}}
    IN  /\ ended' = ended \cup ends
        /\ locked' = locked \ (gone \ ends)

\* What cleanupProcessFDs signals: a pipe or PTY end is closed, and only what
\* is neither has its lock released.
Swept(p, refs) ==
    LET last == {table[p][f] : f \in Used(table[p])}
        gone == {d \in last : refs[d] <= 0}
        ends == {d \in gone : kind[d] \in {"pipe", "pty"}}
    IN  /\ ended' = ended \cup ends
        /\ locked' = locked \ (gone \ ends)

\* onProcessExit: cleanupProcessFDs; the table is deleted, hint and all.
Exit(p) ==
    /\ state[p] = "running"
    /\ state' = [state EXCEPT ![p] = "exited"]
    /\ table' = [table EXCEPT ![p] = [f \in FdNo |-> NoDesc]]
    /\ cloexec' = {e \in cloexec : e[1] # p}
    /\ nextFd' = [nextFd EXCEPT ![p] = NStdio]
    /\ refCount' = CountedOut(p)
    /\ Swept(p, CountedOut(p))
    /\ UNCHANGED descs

----------------------------------------------------------------------------

Init ==
    /\ state = [p \in Pids |-> "none"]
    /\ table = [p \in Pids |-> [f \in FdNo |-> NoDesc]]
    /\ cloexec = {}
    /\ nextFd = [p \in Pids |-> NStdio]
    /\ nextDesc = 1
    /\ kind = [d \in Desc |-> "file"]
    /\ pair = [d \in Desc |-> 0]
    /\ refCount = [d \in Desc |-> 0]
    /\ ended = {}
    /\ locked = {} /\ waiting = {}
    /\ stranded = {} /\ late = {}

Next ==
  \/ \E d, e \in Desc : FlockResumes(d, e)
  \/ \E p \in Pids :
      \/ SpawnHost(p)
      \/ Exit(p)
      \/ \E c \in BOOLEAN : Open(p, c)
      \/ \E k \in {"pipe", "pty"} : CreatePair(p, k) \/ CreatePairFails(p, k)
      \/ \E fd \in FdNo :
           \/ Dup(p, fd)
           \/ Close(p, fd)
           \/ Flock(p, fd)
           \/ FlockUn(p, fd)
           \/ \E e \in Desc : FlockWaits(p, fd, e)
           \/ \E c \in BOOLEAN : SetCloexec(p, fd, c)
           \/ \E min \in FdNo, c \in BOOLEAN : DupMin(p, fd, min, c)
           \/ \E new \in FdNo : Dup2(p, fd, new)
      \/ \E c \in Pids, ov \in [Stdio -> FdNo \cup {Unset}], ok \in BOOLEAN :
           Spawn(p, c, ov, ok)

Spec == Init /\ [][Next]_vars

----------------------------------------------------------------------------

\* Each variable stays in its type; above all, no close, dup2 or exit takes a
\* reference count below zero.
TypeOK ==
    /\ state \in [Pids -> {"none", "running", "exited", "orphan"}]
    /\ table \in [Pids -> [FdNo -> Desc \cup {NoDesc}]]
    /\ cloexec \subseteq Pids \X FdNo
    /\ nextFd \in [Pids -> 0 .. MaxFd + 1]
    /\ nextDesc \in 1 .. MaxDesc + 1
    /\ kind \in [Desc -> {"file", "pipe", "pty"}]
    /\ pair \in [Desc -> 0 .. MaxDesc]
    /\ refCount \in [Desc -> Nat]
    /\ ended \subseteq Desc
    /\ locked \subseteq Desc
    /\ waiting \subseteq Desc \X Desc
    /\ stranded \subseteq Desc /\ late \subseteq Desc

References(d) == {e \in Pids \X FdNo : table[e[1]][e[2]] = d}

\* refCount of a description is the number of descriptors that lead to it,
\* over all tables and through every mix of dup, dup2, F_DUPFD, inheritance,
\* stdio overrides, close and exit.
RefCountExact == \A d \in Desc : refCount[d] = Cardinality(References(d))

\* Some table of a process in state st leads to d.
HeldIn(d, st) == \E e \in References(d) : state[e[1]] = st

\* A pipe or PTY end is closed only when no table leads to it any more, so no
\* reader sees EOF early; and while it is not closed some running process has
\* it, so somebody can still close it.  Two exceptions are open for ever: the
\* end that a pipe() failing with EMFILE never installed (stranded), and ends
\* in the table that a failed driver.spawn leaves behind (an "orphan").
EndsFollowReferences ==
    \A d \in Desc \ stranded : (d < nextDesc /\ kind[d] # "file") =>
        /\ d \in ended => References(d) = {}
        /\ d \notin ended => HeldIn(d, "running") \/ HeldIn(d, "orphan")

\* The lock of a file goes with the last descriptor of its description,
\* whichever process and operation drops it.  The exception is the lock that a
\* blocked flock is granted after that last descriptor has gone (late).
LocksFollowReferences ==
    \A d \in locked :
        kind[d] = "file" => HeldIn(d, "running") \/ HeldIn(d, "orphan") \/ d \in late

\* What kernel.md and file-lock.ts say of the last close: "the lock MUST be
\* released", "all FDs closed".  No file is locked by a description nobody has
\* open.  A flock still waiting at the last close is granted later, and fails it.
LastCloseReleases ==
    \A d \in locked : kind[d] = "file" => References(d) # {}

\* A child that is given a pipe as a standard stream by an override does not
\* also hold an end of that pipe above stdio: it could otherwise wait for an
\* EOF that it prevents itself (createChildFDTable).
NoSelfHeldPipe ==
    [][\A c \in Pids : state'[c] # state[c] =>
         \A p \in Pids, ov \in [Stdio -> FdNo \cup {Unset}], ok \in BOOLEAN :
           (Spawn(p, c, ov, ok) /\ \E s \in Stdio : ov[s] # Unset) =>
             \A f \in Used(table'[c]) \ Stdio, s \in Used(table'[c]) \cap Stdio :
               kind[table'[c][s]] = "pipe" =>
                 pair[table'[c][f]] # pair[table'[c][s]]]_vars
=============================================================================
