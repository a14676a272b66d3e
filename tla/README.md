# Secure Exec: a TLA+ model of the kernel and its runtime

Secure Exec runs untrusted programs in V8 isolates and WebAssembly instances on
top of a small POSIX-like kernel written in TypeScript; the isolates live in a
runtime process written in Rust. This directory models the concurrent core of
both: what processes share (descriptors, pipes, locks, sockets, a terminal), how
they live, are signalled and die, how a file is kept in blocks and versions, and
how the runtime's threads run, answer and time out an execution. Paths below are
relative to the repository root; `kernel/` stands for `packages/core/src/kernel/`.

The kernel runs on one JavaScript event loop. A call is atomic up to its first
`await`, to a callback it makes, or to a timer it sets; everything that
interleaves does so at those points. The models follow this rule: a step is the
code between two such points, and the state that a suspended caller carries over
the point (its handle, the object it captured, its stack frame) is part of the
model's state. The V8 runtime has real threads; there a step is what one thread
does between two points at which it touches a lock, a channel or an atomic.

## 1. Inventory

| Part | State | Operations | Interacts with | Hard behaviour |
| --- | --- | --- | --- | --- |
| Pipes: `kernel/pipe-manager.ts`, `kernel/wait.ts` | chunk buffer, closed ends, blocked readers, wait queues of writers and pollers | `write`, `writeBlocking`, `read`, `close`, `waitForPoll` | FD table (descriptions), SIGPIPE through `onBrokenPipe` | partial writes; woken but not yet run writers; close during a blocked write; direct hand-over to readers |
| File locks: `kernel/file-lock.ts` | map path to lock state, holders, wait queue, `descToPath` | `flock` (SH, EX, NB, UN), `releaseByDescription` | `fdClose`, process exit | state captured before an await and cleaned up after it |
| Descriptors: `kernel/fd-table.ts`, `kernel/kernel.ts` | per-process tables, allocation hint, close-on-exec, shared descriptions with `refCount` | open, dup, dup2, F_DUPFD, close, pipe, openpty, fork on spawn, stdio overrides, exit clean-up | pipes, PTYs, locks: their end is closed with the last reference | partial failures; counting through five ways to copy a reference |
| Processes and signals: `kernel/process-table.ts` | entries, status, handlers, masks, pending sets, waiters, alarm and zombie timers; groups, sessions | register, markExited, waitpid, kill, sigaction, sigprocmask, alarm, stop/cont, terminateAll, setpgid, setsid | drivers (`kill`, `onExit`), the kernel (`onProcessExit`) | handlers and drivers call back; exit in the middle of a delivery; throwing handlers; dispose |
| Sockets: `kernel/socket-table.ts` | sockets, listeners, backlogs, receive queues, datagrams, host sockets | bind, listen, connect, accept, send, recv, shutdown, close, pumps | host adapter, permissions, EINTR through signals | state checked before an await and used after it; lost wake-ups |
| Terminals: `kernel/pty.ts` | two buffers, line buffer, termios, foreground group | read, write, close, line discipline | signals to groups | EAGAIN in the middle of a chunk; VEOF; SIGHUP |
| File I/O: `kernel/kernel.ts` | cursor of each description, file contents | fdRead, fdWrite, pread, pwrite, seek | VFS | read-modify-write across awaits |
| Timers: `kernel/timer-table.ts` | timers per process with a limit | create, clear, clearAll | process exit | none beyond the limit |
| Chunked file system: `packages/core/src/vfs/` | metadata store, block store, write buffers, inode mutexes | read, write, truncate, flush, versions | file I/O | failure between a block and its metadata |
| Mounts, devices, `/proc`, permissions, command registry | configuration | path dispatch, checks | all of the above | none of their own |
| Node driver and bridge: `packages/nodejs/src/` | one execution per process, exit and kill flags, stdin | spawn, kill, exit report, bridge calls | process table, V8 client | kill racing a normal end |
| V8 runtime: `native/v8-runtime/src/`, `packages/v8/src/` | sessions, threads, concurrency slots, pending calls | create, destroy, execute, terminate, bridge responses | Node driver over a socket | join of a thread that waits for a slot; late responses |

`PROJECT.json` lists every part, with the ones that are left out and why, and
the hazards at their lines.

What makes each part correct, in a sentence:

* pipes: the reader gets exactly the writers' bytes in order, nobody sleeps
  through the event that should wake it, a close reaches everybody;
* locks: an exclusive holder is alone, each grant is released at the latest with
  the description, no waiter is forgotten;
* descriptors: a description is closed exactly when the last descriptor goes;
* processes: signals are neither lost nor stuck, masks nest, waiters are told,
  zombies go away, nothing happens to a process after its exit;
* sockets: a connection made is in one backlog until it is accepted or closed,
  peers and registrations go together, nobody sleeps through the event that
  should wake it, host handles are released;
* terminals: no output is lost or doubled, no read waits for what is there, and
  `wait()` returns when everybody is gone and everything is delivered;
* chunked files: the content is what was written, whichever way it is stored;
  versions never change; no key dangles and no block leaks;
* V8 runtime: an execution settles, within its time limit if it has one, and a
  response reaches the call it answers.

## 2. Modules

| Module | Models | Notes |
| --- | --- | --- |
| `Channel` | what a pipe promises: a byte channel with two ends that close | abstract specification |
| `Pipe` | `PipeManager` for one pipe, with `WaitQueue`/`WaitHandle` | refines `Channel` by `Stream` |
| `FileLock` | `FileLockManager` for one path | lock-state objects modelled by identity |
| `KernelFD` | `ProcessFDTable`, `FDTableManager`, the descriptor calls of the kernel, spawn and exit | |
| `ProcessTable` | `ProcessTable` without groups and sessions | explicit call stack |
| `SocketTable` | `SocketTable` for stream sockets, with its pumps to the host | suspended calls are part of the state |
| `Terminal` | `PtyManager` for one terminal, composed with `openShell`'s pump and `wait()`, and with process groups | bytes are counted |
| `ChunkedFile` | one file of `createChunkedVfs`, with the in-memory metadata store and a block store | one step per await of the operations in progress |
| `V8Session` | client, connection handler, session threads and timer threads of the V8 runtime | two directions of frames, one thread per session |
| `PipeProofs`, `FileLockProofs`, `KernelFDProofs`, `ProcessTableProofs`, `SocketTableProofs`, `TerminalProofs`, `ChunkedFileProofs`, `V8SessionProofs` | theorems about the module of that name | section 4 |
| `MCPipe`, `MCFileLock`, `MCKernelFD`, `MCProcessTable`, `MCSocketTable`, `MCTerminal`, `MCChunkedFile`, `MCV8Session` | symmetry sets, masks, options and workloads for TLC | |

Definitions whose name begins with `Mut` are deliberate slips (a missing wake-up,
a forgotten reset); each says which mistake it stands for, and the property it is
paired with in `PROJECT.json` fails when it takes the place of the original.

### Pipe

`buffer` is the concatenation of the code's chunks. A byte is named by its
writer and its place in that writer's output, so losing, repeating or reordering
one is visible. A blocked writer is `waiting` (its handle is on the queue) or
`woken` (settled, its continuation not run yet): `wakeOne` moves it from one to
the other, and `Resume`, one round of the loop in `writeBlocking`, is a later
step. `Write` is the call up to its first await: `assertWriteOpen`,
`writeAvailable`, and then either the full count, a partial count or EAGAIN
(O_NONBLOCK), or the first enqueue. `Read` drains, wakes one writer and the
pollers, returns EOF, or blocks. `CloseRead`/`CloseWrite` are `close` on each end,
`PollWait`/`PollTimeout`/`PollReturn` are `waitForPoll`. Handing a write directly
to a blocked reader is part of `WriteAvailable`. The variables after the comment
"History" are read by no guard. Of these `bypassed` is set when a woken writer
hands its rest directly to a reader, and cleared when a read drains the buffer.

### FileLock

The map entry for the path (`current`) and the state object a blocked caller
captured (`at`) are separate, since the code deletes and creates entries while
callers are suspended. `Flock` is the call up to its first await or its end,
`Resume` is everything from the wake-up to the next await or the end: the
`finally` clause with `cleanupState`, then another attempt with `getOrCreate`.
`CloseLast` is the last close of a description. The history variable `orphaned`
records that `cleanupState` removed an entry that was not the object it was
called with.

### KernelFD

Each operation is one step, as in the code: none of them awaits, except `flock`.
A call that conflicts is `FlockWaits`, with the description it looked up in `waiting`;
`FlockResumes` grants it, or lets it wait for a faster one, whatever has become of its
descriptor. `table`,
`nextFd` and `cloexec` are `ProcessFDTable`, `refCount` is the field of
`FileDescription`, `ended` the pipe and PTY ends whose manager was told to close
them. `Spawn` builds the child's table as `createChildFDTable` does (fork,
overrides, dropping counterpart pipe ends) and ends in a running process or, if
`driver.spawn` throws, in a table without process. `CreatePairFails` is
`pipe`/`openpty` hitting the limit between its two `openWith` calls. `Exit` is
`cleanupProcessFDs`. The lock manager appears as the set of locked descriptions and of
blocked calls. The history variable `stranded` has the ends that a failing `pipe` left in
no table, `late` the descriptions that were given a lock after their last descriptor went.

### ProcessTable

`stack` holds the calls in progress. `deliverSignal`, `dispatchSignal`,
`deliverPendingSignals` and the second half of `markExited` are frames; a step
rewrites the top frame, so a handler on top of the stack may call kill, waitpid,
sigaction, sigprocmask and alarm for any process, and a driver may report the exit of the process from inside its
`kill`. The loop's other events (host spawns, exits, timers) need an empty stack.
`HandlerThrows` unwinds to the `try` of `terminateAll` or to the event loop, running
the `finally` clauses of the handlers it passes. `TerminateAll`, `Escalate` and
`Disposed` are the three stretches of `terminateAll` between its awaits.
A mask set inside a handler lasts until the handler returns, so the history
variable `mask` records only masks set outside, and a handler frame remembers
(`touched`) that the mask was changed above it. `DriverKill` is external: drivers are only known through the interface
`DriverProcess`; `DriverKillExits` is what the Node driver does.

### SocketTable

`sock` holds the `KernelSocket` objects, closed ones included, because suspended
calls and pumps keep references to them; `live` is the keys of the map. A caller
suspended in `bind`, `listen`, `connect`, `accept` or `recv` has a record in `call`
with the socket and address it looked at before its await, and each of these calls
has a second action for what it does afterwards (`BindUnixResume`, `ListenResume`,
`ConnectUnixResume`, `ConnectHostResume`, `AcceptResume`, `RecvResume`). The code
looks at nothing again after these awaits, so the resumed actions do not either;
they record in `astray` that the socket they acted on was closed or in another state by
then; this is the only way the flag is set. What plain calls leave behind is not excused by it:
`SocketpairFails` leaves the first socket of a pair in the table, and a bind after a failed
connect leaves an entry of the earlier bind, whose address the history variable
`stale` names. The accept pump is the
variable `pump` and the three actions `HostConnects`, `PumpDrops` and `PumpAccepts`; a connection in progress without caller is `ConnectStart` and
`ConnectDone`. A caller in `accept` or `recv` waits on its own handle and on the
signal queue of its process: `win` says which of the two settled first. `Destroy`
is `destroySocket` for a set of sockets, as `close`, `closeAllForProcess` and
`disposeAll` use it: the sockets in the backlog of a listener go with it. `files` is
what the VFS knows of socket paths. Data are byte counts.

### Terminal

The buffers are sequences of chunk lengths: chunk borders matter (`drainBuffer`
joins chunks up to the length asked for, a zero-length chunk is an EOF), contents do not. Typing a character is one action per branch of
`processInput`: a character, erase, newline, EOF in canonical mode, a byte without it,
a longer write to a terminal with all three flags off (which alone is delivered as one chunk),
the interrupt character with the shell in the foreground, and a signal to another
foreground group. Each branch that may hit a full buffer has the half-done
outcome the code leaves. A process that lives holds the slave; `SlaveClosed` is the
close of the last slave descriptor in `cleanupProcessFDs`. The pump of `openShell` is
`PumpTurn` with `PumpRead`, its end `ShellReaped` (sets `pump.exited`) and
`WaitResolves` (after the pump: closes the master). `written`, `got` and `delivered`
account for output bytes.

### ChunkedFile

`st` is the state of both stores and of the write buffer. An operation that changes
the file holds the inode's mutex, with two exceptions. The `writeFile` that creates the file
makes its name visible and writes the content without the mutex: `Init` is the empty
inode, with that creation in progress (`creating`) or, if an open created the file, without.
And an open with O_TRUNC (`OpenTrunc`, in the file system without buffer and versions that has
it) changes inode, chunk map and blocks in one step, whatever is in progress. An operation that
begins during the creation leaves it in `other`, and `Switch` lets the two take turns;
`overlapped` records that this, or an O_TRUNC during an operation, has happened. One overlap
is followed to its end, and nothing else begins in it. The record `op` says
which operation is in progress (`do`), at which await it is (`at`) and what its local
variables hold (the bytes and offset, the content it splits, the chunk index and the key of the block just written, the blocks to
delete, the dirty chunks left to flush). `WriteFile`, `Pwrite`, `Truncate`, `Fsync`,
`CreateVersion`, `RestoreVersion`, `RestoreFails` (there is no such version) and `PruneVersions`
begin an operation as far as its first await; each further action is one await of the code: `DropChunks` and
`DeleteBlocks` (`deleteAllChunks`, `deleteMany`), `PutChunk` and `SetKey` (the loop of
`writeInodeContent` and `promoteToChunked`), `DirectChunk` and `SetDirectKey`, `BufferChunk`,
`CutLast` and `SetCutKey`, `FlushChunk` and `SetFlushKey`, and the updates of the inode.
Where one helper of the code serves several operations, so does one action, and
`Dropped`, `Rewriting`, `Resizing`, `Trimmed` and `Patching` say what comes next in each.
Reads hold no mutex; `ReadInode`, `ReadKeys`, `ReadBlock` are the stretches between
their awaits and interleave with the steps of an operation. `makeBlockKey` gives the
chunk's own key or, with versions, a fresh one. Blocks are values; where the block
store returns its own array (`cfg.aliasing`), a patch also changes the stored block
(`PatchBlock`), and the chunks in the write buffer that are such arrays are in `shared`.
The variable `file` is the reference, what the file is due to hold once the operation
in progress has ended: `Overwrite` is what `pwrite` means on a plain sequence. What an await
reads is read together with the write that follows it.

### V8Session

Each direction of the socket is a FIFO of frames. The connection handler is
sequential: while it joins a session's thread it reads nothing. A session's thread
is at one of `queued` (for a slot), `idle`, `js` (in user code), `sync` (blocked in
a bridge call), `top`/`drain`/`wait`/`poll` (four points of `run_event_loop`), `check`
and `cancel` (after the execution), `done`. User code is any sequence of bridge calls
that returns, throws, or never ends. The timer thread sets the flag, requests the
termination and drops the abort sender in three steps, so that the session thread
may look at any point in between. `RuntimeExits` is the loss of the process with
everything in it; `OnExit` is the client noticing it. `handler` is the entry of `sessionHandlers`, and
`settled` the last execution whose promise was resolved or rejected: `DestroySession` clears
the first and leaves the second alone.

## 3. Runs

| Run | Shows | Instance, states, time |
| --- | --- | --- |
| `pipe` | `NobodyStrandedUnlessBypassed`, `CountsTrue`, `PollNotMissed`; refinement of `Channel`; liveness `CloseUnblocksWriters` | two writers, two readers, a poller, capacity 2, lengths up to 2, three bytes per writer; under a minute |
| `file_lock` | `ExclusionUnlessOrphaned`, `GrantsTrue`, `NoLostWakeup` | three callers, two descriptions, three objects, symmetric; half a minute |
| `file_lock_exclusion` | fails: two exclusive locks at once | same |
| `kernel_fd` | types with counts never negative, `RefCountExact`, `EndsFollowReferences`, `LocksFollowReferences`, `NoSelfHeldPipe` | two processes, descriptors 0..2, three descriptions, one lock, one blocked call; 248,000 states, 55 s |
| `process_table` | types, `NoStuckPending`, `MaskRestored`, `NoHandlerReentry`, `NoLostWaiter`; liveness `ZombiesReaped` | parent and child, six signals, three calls, stack of five; 400,000 states, 35 s |
| `socket_table` | types with the limits of backlog and table, `PeersSymmetric`, `NoConnectionLost`, `RegistrationsLive`, `NoLostWakeup`, `HostHandlesOwned` | two callers in two processes, two sockets to start with, four in all, three at a time, backlog 1, five calls; 415,000 states, 65 s |
| `terminal` | types with both buffer bounds, `NobodyStranded`, `OutputConserved`; liveness `WaitEnds` | shell and one child, buffers of 2, four output bytes, four characters or calls; 170,000 states, 30 s |
| `terminal_output` | fails: `wait()` resolves with output undelivered | same |
| `chunked_file` | `ContentMatches`, `ChunksWithinSize`, `KeysResolve`, `NoBlockLeak`, `VersionsKept`, `QuietReadsExact` | chunks of 2, inline up to 2, five bytes, three operations, six sets of options; 3,750,000 states, 130 s |
| `chunked_versions` | fails: a version changes | same |
| `v8_session` | types with the slot count, `AnswersArrive`, `ExecutionAccountedFor`, `TimeoutReported`; liveness `ExecuteSettles` | one slot, six workloads; 154,000 states, 80 s |
| `v8_time_limit` | fails: an execution outlives its time limit for ever | one session, one call |

The failing runs state what a document, comment or test of the repository says;
`PROJECT.json` quotes it under "findings".

* **Two exclusive locks.** A unlocks and wakes B, and the disused state object is
  deleted; D locks and gets a new object; B runs, and its `finally` clause deletes
  D's entry, because `cleanupState` looks only at B's old object; B then locks a
  third object.
* **Output left behind.** The pump of `openShell` takes a read of length zero for
  the end. A process that writes an empty buffer while the pump waits ends it;
  everything written later stays in the buffer, and `wait()` resolves all the same.
  It also stops after one more read once the shell has exited, however much there is.
* **Versions that change.** With versions, `pwrite` stores the patched block under a
  new key, but patches the array the store returned. `InMemoryBlockStore` returns its
  own, which the version refers to.
* **Time limit.** The script starts an asynchronous call and loops; the limit
  interrupts it; since a promise is pending the event loop is entered; the answer is
  there, and so is the abort: `select!` picks one at random. If it picks the answer,
  the continuation runs, and loops with nothing left to interrupt it.

### What the exceptions stand for

Several invariants name exceptions: `bypassed`, `late`, `astray`, `stale`, `overlapped`. They
are not assumptions; the code reaches each of them, against what a document or comment of the
repository says. The statement without the exception is a definition of its own, and the
configuration beside it, which is no run of `PROJECT.json`, has TLC produce the behaviour.

| Definition, quoting | Exception of | Configuration |
| --- | --- | --- |
| `WritersResumeOnceDrained` (`kernel.md:335-337`) | `NobodyStrandedUnlessBypassed` | `MCPipe_WritersResumeOnceDrained` |
| `LastCloseReleases` (`kernel.md:161-163`, `file-lock.ts:5`) | `LocksFollowReferences` | `MCKernelFD_LastCloseReleases` |
| `NoDetachedConnection` (`kernel.md:431-433`) | `NoConnectionLost` | `MCSocketTable_NoDetachedConnection` |
| `CloseFreesAddresses` (`socket-table.ts:1193`) | `RegistrationsLive` | `MCSocketTable_CloseFreesAddresses` |
| `MutexPreventsCorruption` (`chunked-vfs.ts:6`) | `ContentMatches`, `ChunksWithinSize`, `KeysResolve` | `MCChunkedFile_Creation`, `MCChunkedFile_OpenTrunc` |
| `FailedRestoreKeeps` (`chunked-vfs.ts:9-10`) | `ContentMatches` | `MCChunkedFile_FailedRestore` |

* **A writer left asleep.** Two writers block on a full pipe; a read takes everything and
  wakes the first; a second read blocks; the first writer's remainder goes to that reader,
  directly, and nobody wakes the second writer, which sleeps beside an empty buffer.
* **A lock nobody can release.** A process waits in `flock` and its descriptor is closed, by
  another of its calls or by its exit; `releaseByDescription` finds nothing to release; the
  holder unlocks and the call is granted the lock for a description that is gone.
* **A connection without a listener.** The accept pump awaits a host connection, its listener is
  closed, and the pump creates the socket and queues it there.
* **An address taken for ever.** A bound socket's non-blocking connect fails and puts it back to
  `created`, still registered; it is bound again elsewhere; close frees the second entry.
* **Two operations at once.** During its creation a file is visible and no mutex is held: a
  `pwrite` that found the inode still inline and empty writes its size after the creation has written
  all chunks and its own, and `readFile` throws a RangeError on the chunk past the size. An open
  with O_TRUNC between the block write and the `setChunkKey` of a `pwrite` deletes that block, and
  `readFile` fails on the key.
* **A failed restore.** `restoreVersion` drops the write buffer, then looks for the version.

The other exceptions are `stranded` and the orphan tables of `EndsFollowReferences`, which
`CreatePairFails` and a failing `Spawn` produce in the passing run, `displaced` (SO_REUSEADDR),
`crowded`, `threw`, and `Abandoned` and `Wedged` of `ExecuteSettles`.

### Other counterexamples

These came up while modelling and have no run of their own. Each can be
reproduced by checking the formula given as an invariant.

* `Pipe`: a blocked `read(n)` gets all of the next write, however long (`WriteAvailable`
  compares nothing with `want`; `docs/kernel/api-reference.mdx:306` says "Read up to").
* `KernelFD`: `open` does not return the lowest free descriptor, since `nextFd` never
  decreases (`.agent/contracts/kernel.md:88`).
* `ProcessTable`: `~(Top("driver") /\ ~Live(Head(stack).pid))` fails: a signal pended while
  a handler runs is dispatched after the process exited inside that handler
  (`.agent/contracts/kernel.md:199`).
* `ProcessTable`: `dispose = "done" => zombie = {}` fails: `terminateAll` clears the timers
  before it causes the exits that set new ones.
* `SocketTable`: without the guard `~astray`, `PeersSymmetric` and `RegistrationsLive` fail: a
  resumed `bind` or `connect` registers or links a socket that is gone.
* `Terminal`: the read of a killed process stays in `readers` and takes the next line
  typed, so that the shell's prompt may get no answer.
* `ChunkedFile`: `read.at = "done" => ~read.failed` fails when a write overlaps: the
  chunk map was read before the blocks were replaced.
* `V8Session`: a session whose sync call consumed the Shutdown and which has a promise
  pending polls a closed channel for ever, and `destroy_session` never returns
  (compare the comment at `session.rs:172`); and `Wedged`, a join of a session that
  is still queued for a slot, is reachable and final; so is `Abandoned(s)`, a promise that
  `destroy()` left pending.

### Bounds, and why they are enough

*Pipe*: two writers are needed for competition for the last byte and for order
between writers; two readers for the mutual block; capacity 2 with lengths up
to 2 and three bytes per writer gives empty, partly filled and full buffers,
partial writes, and writes longer than what is left. The theorems below hold for
every size. *FileLock*: the loss of exclusion needs three callers and a third
object; two descriptions make every conflict. *KernelFD*: one standard descriptor
in place of three (the code treats the three alike, one after the other) and two
ordinary ones, enough for a pipe besides stdio and for the limit of three to
hit between the two halves of `pipe`. Three descriptions are a file and a pipe.
Two processes share every description in every way. At most one descriptor is
marked close-on-exec, and at most one lock is granted without waiting at a time; both act
per descriptor, and neither looks at the other, so a state has one or the other. States
with a lock have at most three descriptors (`LocksApart`), enough for a holder, a caller
that waits and a shared description, and behaviours are followed up to the first late
grant. One blocked `flock` at a time suffices for
a grant after the last close.
*ProcessTable*: a parent and a child suffice for SIGCHLD, for handlers that
signal each other, and for waitpid. The signals in use are SIGKILL, SIGSTOP,
SIGCONT, SIGALRM, SIGTERM and SIGCHLD: SIGTSTP takes the branch of SIGSTOP in the
default action, and SIGWINCH that of SIGCHLD. Three calls (kill, sigaction,
sigprocmask, alarm, waitpid) allow a handler, a nested signal and another; exits, alarms
and timers are not counted.
*SocketTable*: to have calls left for what is interesting, a run starts with one
socket listening and one created, as two `create` calls, a `bind` and a `listen`
leave them; four ids with three at a time make a listener, a client and an accepted end,
and a full table. One wildcard address, one port and one path make every pair of
addresses conflict. A backlog of one and a buffer of one byte are full after one
step. Five calls follow, one more than a connect, accept, send and recv need;
host events, signals, resumptions and pumps are not counted. Behaviours are followed up to the first call that goes
astray (`UpToAstray`), since the properties speak only of those; an astray state is
itself checked. The two failing configurations have two ports, one to be bound to
first and one afterwards. *Terminal*: buffers of two bytes with MAX_CANON 1 and a pump that
reads one byte at a time reach every limit; one child suffices for a foreground
group other than the shell's. The modes are the default, no line editing with and
without echo, and raw.
*ChunkedFile*: chunks of two bytes and an inline threshold of two give inline,
one-chunk, two-chunk and three-chunk files with a partial last one; three operations allow
write, version, change, and write, shrink, grow; a write has any length and
offset within the file's bound. Reads overlap with or follow the
first two (`MaxReadOps`). Options are every combination of buffering and versions;
aliasing matters only with versions. An overlap is followed to the end of its two operations.
`MCChunkedFile_Creation` has versions, hence no O_TRUNC, and no buffer; `MCChunkedFile_OpenTrunc`
looks only at files that exist already (`Created`), so that each shows one of the two ways
past the mutex. *V8Session*: a workload bounds sessions,
executions, calls and events; the six in `MCV8Session` are chosen to have
two interleaved calls, an event during a sync call, a session used twice, and two
sessions for one slot with early destruction.

Deadlock is not checked in these runs because each instance may stop for good
once its bounds are used up or every process is gone.

### Fairness

* `Pipe!FairSpec`: each woken writer eventually runs (weak fairness of `Resume`);
  a settled promise is resumed by the event loop. Nothing is assumed of readers.
* `ProcessTable!FairSpec`: a call in progress runs on, and each zombie timer
  fires. Synchronous code terminates unless user code loops (handlers are bounded
  by `MaxCalls` here), and `setTimeout` fires unless cleared. Nothing is assumed
  of drivers, processes or waiters.
* `Terminal!Spec`: the pump and `wait()` are continuations of promises and run once
  those resolve. Nothing is assumed of processes or of who types.
* `V8Session!FairSpec`: threads are scheduled, a timer fires, V8 honours a termination
  request, the client's callbacks run, and the Node driver executes on and finally
  destroys the session it created (`execution-driver.ts:1465`). Nothing is assumed of
  the script, of bridge handlers, or of the process staying alive.
  `FairCallbacksSpec`, which `v8_session` uses, adds that continuations the event loop enters
  return. This is an assumption about user code, not about scheduling: `v8_time_limit` shows
  that `ExecuteSettles` needs it. What the property then says is that each execution is
  settled, except that of a session destroyed before its result (`Abandoned`: `destroy()`
  neither resolves nor rejects it) and where the connection handler waits for ever (`Wedged`).

## 4. Theorems

Each theorem holds for every value of the constants that satisfies the named
assumptions of its module, so for any number of processes, callers, sockets,
sessions and calls, and any limits: the bounds of section 3 are gone. An invariant
a run checks is seldom inductive; what had to be added is said below, and was
checked by TLC before it was proved.

Two groups of facts recur and stand at the head of the modules that need them: queues
without duplicates (`QueueAppend`, `QueueTail`), and `LeastNatural`, by which statements
about every number, and so about finite sets, sums and loops, are proved by a smallest
counterexample. The induction theorems of the library cannot be used (they take an
operator as a parameter); this is the way round them.

**`PipeProofs`**, for any writers, readers and pollers and any capacity of at least
one (`PipeAssumption`):

* `PipeInvariant`: `Spec => []IInv`. `IInv` is types, the buffer bound,
  `QueueConsistent` and the properties below. It is the strengthening: that a
  closed pipe has no writer on its queue depends on a woken writer not queueing
  again, which depends on it having data left and not being queued already, and
  on blocked readers having an empty buffer before them.
* `PipeSafety`: types, `BufferBounded`, `NobodyStrandedUnlessBypassed`, `EofMeansDrained`,
  `PollNotMissed`. Its last part, `WritersSeeDrain`, is inductive given `IInv` (`DrainSeen`): a
  write that is not accepted whole leaves a full buffer, and a woken writer that is not
  handed over leaves one that is not empty. So a direct hand-over by a woken writer is the
  only way for a writer to sleep on beside an empty buffer.
* `PipeImplementsChannel`: `Spec => ImplementsChannel`. Each action is shown to
  send, receive, pass a byte run straight through, close an end, or leave the
  stream alone; direct delivery to a reader is a step that sends and receives, and
  is where the invariant (a blocked reader means an empty buffer) is needed.
* `CountsAreTrue`: `Spec => []CountsTrue`. The strengthening `CountsInv` adds the offset of
  a blocked call to what its writer has been told: that sum is what entered the
  pipe as long as both ends are open, and at most that afterwards.
* `PollersNotMissed`: `Spec => []PollNotMissed`.

**`FileLockProofs`**, for any callers, descriptions and objects
(`FileLockAssumption`: `None` is neither an object nor a call):

* `FileLockInvariant`: `IInv` is types, `QueuesConsistent`, exclusion within each
  object, `GrantsTrue` and `NoLostWakeup`.
* `LocksExclude`: exclusion holds until a clean-up drops an entry that was not its
  own (`ExclusionUnlessOrphaned`). With the run `file_lock_exclusion` this says
  that the deletion by path in `cleanupState` is the only way exclusion is lost.
* `LocksAccountedFor`: until then each grant is known to `releaseByDescription`
  and each blocked caller is on the queue the next unlock looks at.
* `WakeupsNotLost`: the second half of it alone.

**`KernelFDProofs`**, for finitely many processes and any descriptors and
descriptions (`FDAssumption`): `DescriptorTypes`, `CountsExact`, `EndsClosedWithLast`,
`LocksReleasedWithLast` and the action property `StdioPipesNotSelfHeld`. The exceptions are
part of what is proved: an end that is open is held by a running process, unless a failing
`pipe` left it in no table (`stranded`) or it is in the table of a failed `driver.spawn`
(an orphan), and a locked description is held likewise unless a blocked `flock` was granted
the lock after the last close (`late`). `KInv` is the invariants with types, `Allocated` (descriptors lead only to descriptions that
were allocated, so that a new description starts with no reference) and `Paired`
(both ends of a pipe are of one kind). A count is a cardinality over all tables:
the lemmas on counting say how it changes when one entry, or one table as a whole
(fork, exit), is replaced, and the proof of each call computes its change of tables
and of counts separately and compares them.

**`ProcessTableProofs`**, for finitely many processes, any signals among 1..64, any
masks, and any depth of nesting (`ProcessAssumption`): `ProcessTypes`, `MasksRestored`,
`HandlersNotReentered`, `PendingDelivered`, `WaitersToldOfExit`. All are about an empty
stack or one frame of it, and hold because of the whole stack. `IInv` says of it:
frames belong to processes that were started (`Started`); the frames of
`terminateAll` are the outermost (`GuardedLast`), so that an exception unwinds to a
known place; a signal about to be dispatched is not blocked (`DispatchFresh`);
the outermost handler of a process has saved the mask the process asked for
(`MaskSaved`); a running handler's signal is blocked and in every mask
saved above it (`StaysBlocked`); and each signal that could be delivered is still
ahead of some loop or handler on the stack (`PendingCovered`). The ascending order of
`deliverPendingSignals` is a lemma about finite sets of numbers (`SortedExists`).

**`SocketTableProofs`**, for any callers, processes, addresses, paths and limits
(`SocketAssumption`, and `NoneAssumption`: null is neither an id nor an address), a
layer for each theorem, each resting on the ones before it:

* `LimitsKept`: types and the two limits. Unconditional: whatever a call that went
  astray does, backlogs and table stay within their limits.
* The other five hold until a resumed call goes astray. `StepKinds` first classifies
  the steps by what they do to the fields that links, registrations, backlogs and
  host handles depend on (fourteen kinds for some thirty actions), so
  that these four proofs have one case per kind.
* `LinksAreMutual`: with `EarlyAlone` (a socket that is not connected has no peer), since
  `connect` overwrites the link of the client.
* `HandlesNotLeaked`: with `HostStates` (which states a host listener, a host socket and
  an accept pump go with), since `connect` and `listen` overwrite the handle.
* `RegistrationsAgree`: with the fact that a socket that is neither bound nor
  listening is registered nowhere, but under addresses in `stale`.
* `ConnectionsNotLost`, the accept pump included as long as its listener is there when it
  resumes: with the facts that a backlog has no duplicates and that what
  is in one has not been handed out; closing a listener with its backlog
  then leaves nothing behind that another listener holds.
* `CallersWoken` is about queues and calls, so it goes through the actions. `Parked` adds
  that a blocked caller is in the queue of its socket and that a socket that was
  never crowded has at most one waiter, so that `wakeOne` is `wakeAll` there. `Served`
  states what every step owes to those who wait at a socket; `close` needs
  `LinksAreMutual` to find the reader at the other end.

**`TerminalProofs`**, for any processes, limits and modes that include the initial one
(`TerminalAssumption`, `ModesAssumption`): `TerminalTypes`, `ReadersNotStranded`,
`OutputNotLost`. `TInv` adds `PumpState` (the pump holds bytes only while it has some
to deliver, and stops when the master closes) and `LineBounded`. The bound on the
buffers rests on lemmas about `bufferBytes` (of a concatenation, a tail, a cut), proved
by smallest counterexample.

**`ChunkedFileProofs`**, for any chunk size of at least one, any inline threshold, file
size and number of operations and any options (`ChunkedFileAssumption`): `ContentIsKept`,
`ChunksStayWithin`, `KeysAlwaysResolve`, `NoBlockLeaks`, `VersionsStayTrue`, `QuietReadsAreExact`.
All hold until two operations overlap, which takes a creation still in progress or an O_TRUNC;
section 3 shows what is lost then. A creation nothing overlaps is covered like any other
operation, and so is a restore that fails, whose file is what was last flushed.
None of them is inductive: in the middle of an operation the stores hold neither the old
file nor the new one. Theorem `ChunkedFileInvariant` is `Spec => []SafeInv`: unless operations
have overlapped, `IInv` holds and the other operation's place is empty. `IInv` says what the
stores do hold:

* `StoreOK` and `BufferOK`, always: each chunk has a key of its own and its block exists, a
  fresh key is new, blocks are neither empty nor longer than a chunk, a buffer
  goes with a chunked file and knows its size, a dirty chunk that is the store's
  own array equals the block (`SharedOK`), and the blocks under a buffer fit into the file
  (`UnderOK`), so that they are a file of their own once the buffer is dropped.
* `PhaseOK`, one predicate per kind of await, relating the stores, `op` and `file`: while the
  content is being split (`InLoad`) the chunks before `op.i` are there and no
  others; during a positioned write (`InPatch`) the chunks before `op.i`, and every byte
  the write does not touch, are already those of the new file; before
  a cut (`InDrop`, `Shrunk`, `InCut`) the first `op.n` bytes are; during a flush
  (`InFlush`) the chunks not left are in their blocks; and `NoLeak` names the blocks that
  the chunk map does not refer to just then (one just written, those about to be deleted).
* `VersionsOK`: each version, put in the place of the file, would be in order and read
  as it was made, and none of the blocks about to be deleted is its own.
  `Kept` is what every step owes the versions: with copies, a block that exists
  is not changed.
* `ReadOK`: a read that nothing overlapped has, of what is there, the part it has got to.

Bytes are compared chunk by chunk (`Cell`), so the arithmetic of `div` and `mod` stays in
a few lemmas on positions (`Place`, `InPatchPart`, `ChunksBefore`), nonlinear because
the chunk size is a parameter. There is then one lemma for each update of the stores, one
for each continuation (`DroppedOK`, `ResizingOK`, ...) and one for each action. `SharedOK` is
what an aliasing store needs: a buffered patch that also reaches the block keeps
that block's length, and so keeps the versions that refer to it readable, only because
the two are equal.

**`V8SessionProofs`**, for any sessions, at least one slot and any workloads
(`SlotsAssumption`, `WorkloadsAssumption`), also in layers:

* `TimeLimitReported`: `TimeInv` says which steps of the timer thread must have been
  taken when V8 is doomed to stop or a script was cut.
* `SlotsExact`: with `CreatedOnce` (a session has one create frame, and no thread
  before it), without which a thread could be counted twice.
* `ExecutionsInOnePlace`: with `OrderInv`, the order of create, execute and destroy
  frames on socket and channel; `PlaceInv` then names the one place.
* `AnswersNotLost`: `CallsInv` (a call, or its answer, is in at most one place and
  answers carry their session), `WaitInv` (frames set aside are looked at only in the
  loops that took them), `FreshInv` (calls belong to executions begun), and
  `ArriveInv`, the property for each place an answer passes through.

Only model-checked:

* Liveness (`CloseUnblocksWriters`, `ZombiesReaped`, `WaitEnds`, `ExecuteSettles`): the
  prover handles neither fairness nor ENABLED.
Every invariant a passing run checks, the refinement of `Channel` and the action property
of `KernelFD` have a theorem.

## 5. Not modelled

*Of the modelled parts*: datagrams, socket options, `poll` and permission checks of
sockets; line contents, CR/NL translation and window size of terminals; directories,
links, rename, `copy` and the SQLite store of the file system (a rename over an existing file
deletes the chunks of the destination under the mutex of the source, `chunked-vfs.ts:1081-1110`,
and `copy` fills its destination without one, `1303-1365`: both are further ways for two
operations to overlap, and the theorems say nothing of them); what an await of `ChunkedFile`
reads apart from the write that follows it; `setsid`, umask and
handle budgets of the process table; `exec`, `connectTerminal` and file I/O through the
cursor in the kernel; TerminateExecution frames (sent by nobody in the repository),
the bound of the command channel, start-up and authentication of the V8 runtime.

*Parts without state that calls race for*: timers (a sequential table), mounts,
devices, `/proc`, permissions and the command registry decide from configuration.

*The greater part of the code by lines* is none of this. About two thirds of it
(`packages/nodejs/src/bridge/`, `bridge-handlers.ts`, the polyfills, `isolate-runtime/`)
re-creates the Node API inside an isolate: argument conversion, error codes, header
and URL text, stream and module shims. It is sequential code over text and objects,
whose specification is Node's documentation; a state machine of it would either repeat
it line by line or leave out everything it does. The same holds for module
resolution, bundling, the TypeScript wrappers, wire formats, snapshots and calls into
V8. The models cover the code in which order, concurrency and failure decide.

## 6. Plan

1. `FileIO`: reads and writes through a shared cursor over an asynchronous VFS;
   what two concurrent calls on one description may return.
2. `NodeProcess`: spawn, kill and exit of the Node driver; one exit report; the
   timeout of `exec` racing the exit.
3. Datagrams and `poll` in `SocketTable`; a connected pair of sockets as two `Channel`s.
4. `ChunkedFile` over the SQLite store, with a crash between two awaits.
5. Sessions in `Terminal` (`setsid`, `killGroup` from the host, SIGHUP).

Proof to come: that a pair of connected sockets implements two `Channel`s,
once item 3 is modelled.
