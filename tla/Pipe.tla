------------------------------- MODULE Pipe -------------------------------
(***************************************************************************)
(* One kernel pipe: PipeManager and the WaitQueue it blocks writers and    *)
(* pollers on (packages/core/src/kernel/pipe-manager.ts and wait.ts).      *)
(*                                                                         *)
(* The kernel runs on one event loop, so every call is atomic up to its    *)
(* first await.  What interleaves is the code on the two sides of an       *)
(* await: a woken writer has left the wait queue but has not run yet.      *)
(* A writer or reader here is one chain of calls issued one after the      *)
(* other; concurrent calls of one process are several of them.             *)
(*                                                                         *)
(* The list of chunks is modelled by the bytes it holds: no chunk is ever  *)
(* empty, so "buffer.length > 0" is "buffer # <<>>".  The k-th byte writer *)
(* w ever gets into the pipe is <<w, k>>.                                  *)
(***************************************************************************)
EXTENDS Naturals, Sequences, Functions

CONSTANTS Writers,    \* chains of write() calls on the write end
          Readers,    \* chains of read() calls on the read end
          Pollers,    \* chains of waitForPoll() calls on either end
          MaxBuf,     \* MAX_PIPE_BUFFER_BYTES
          MaxLen,     \* bound: longest write and longest requested read
          MaxBytes    \* bound: bytes one writer offers over its lifetime

ASSUME PipeAssumption ==
    /\ MaxBuf \in Nat \ {0}
    /\ MaxLen \in Nat
    /\ MaxBytes \in Nat

VARIABLES
    buffer,       \* PipeState.buffer, its chunks concatenated
    closedR,      \* PipeState.closed.read
    closedW,      \* PipeState.closed.write
    nonBlocking,  \* O_NONBLOCK in writeDescription.flags
    readWaiters,  \* PipeState.readWaiters: the blocked readers, oldest first
    want,         \* the length a blocked reader asked for
    writeWaiters, \* PipeState.writeWaiters: unsettled handles, oldest first
    wpc,          \* "idle", "waiting" on its handle, or "woken" and not yet run
    size,         \* data.length of the writer's current blocking call
    offset,       \* how much of it writeBlocking has placed
    polling,      \* the end a poller waits on, "woken", or "idle"
    (* History of the run, read by no guard. *)
    delivered,    \* the bytes handed to readers, in order
    written,      \* bytes of each writer that entered the pipe
    acked,        \* bytes each writer was told it wrote (sum of return values)
    signalled,    \* writers onBrokenPipe was called for
    eof,          \* some read returned null
    bypassed,     \* since the last drain, a woken writer's rest went past the buffer
    pollSeen      \* readiness of its end when the poller started waiting

wvars == <<writeWaiters, wpc, size, offset>>
hist == <<delivered, written, acked, signalled, eof, bypassed>>
vars == <<buffer, closedR, closedW, nonBlocking, readWaiters, want,
          writeWaiters, wpc, size, offset, polling, delivered, written, acked,
          signalled, eof, bypassed, pollSeen>>

----------------------------------------------------------------------------

\* A byte is named by its writer and its place in that writer's output.
Byte == Writers \X Nat

\* The next n bytes of writer w.
Bytes(w, n) == [i \in 1 .. n |-> <<w, written[w] + i>>]

\* pollState: has the end something to report to a poller?
Ready(end) ==
    CASE end = "read"  -> buffer # <<>> \/ closedW
      [] end = "write" -> closedR \/ Len(buffer) < MaxBuf

\* Slip: only the pollers of the read end are woken.
MutWakePollers ==
    polling' = [p \in Pollers |->
                  IF polling[p] = "read" THEN "woken" ELSE polling[p]]

\* pollWaiters.wakeAll()
WakePollers ==
    polling' = [p \in Pollers |->
                  IF polling[p] \in {"read", "write"} THEN "woken" ELSE polling[p]]

\* The handles of the writers in ws are settled.
Wake(ws) == [w \in Writers |-> IF w \in ws THEN "woken" ELSE wpc[w]]

Min2(a, b) == IF a < b THEN a ELSE b

\* writeAvailable hands the data to a blocked reader, bypassing the buffer.
Direct(n) == n > 0 /\ readWaiters # <<>> /\ buffer = <<>>

\* What writeAvailable returns for n bytes.
Accepted(n) == IF Direct(n) THEN n ELSE Min2(MaxBuf - Len(buffer), n)

\* writeAvailable, past assertWriteOpen
WriteAvailable(w, n) ==
    /\ IF Direct(n)
       THEN /\ delivered' = delivered \o Bytes(w, n)
            /\ want' = [want EXCEPT ![Head(readWaiters)] = 0]
            /\ readWaiters' = Tail(readWaiters)
            /\ UNCHANGED buffer
       ELSE /\ buffer' = buffer \o Bytes(w, Accepted(n))
            /\ UNCHANGED <<delivered, want, readWaiters>>
    /\ written' = [written EXCEPT ![w] = @ + Accepted(n)]
    /\ IF Accepted(n) > 0 THEN WakePollers ELSE UNCHANGED polling

\* assertWriteOpen throws: SIGPIPE first, unless it is the write end that closed.
WriteFails(w) ==
    /\ signalled' = IF closedW THEN signalled ELSE signalled \cup {w}
    /\ UNCHANGED <<buffer, readWaiters, want, polling, delivered, written,
                   acked>>

\* The call returns n to its caller.
Returns(w, n) == acked' = [acked EXCEPT ![w] = @ + n]

\* write(): a first attempt, and a blocked call when some of the data is left.
\* With the write end closed the description is gone and the call is EBADF.
Write(w, n) ==
    /\ wpc[w] = "idle" /\ ~closedW
    /\ written[w] + n <= MaxBytes
    /\ \/ /\ closedR
          /\ WriteFails(w)
          /\ UNCHANGED wvars
       \/ /\ ~closedR
          /\ WriteAvailable(w, n)
          /\ \/ /\ Accepted(n) = n
                /\ Returns(w, n)
                /\ UNCHANGED wvars
             \/ /\ Accepted(n) < n /\ nonBlocking
                /\ Returns(w, Accepted(n))   \* EAGAIN when it is 0
                /\ UNCHANGED wvars
             \/ /\ Accepted(n) < n /\ ~nonBlocking
                /\ writeWaiters' = Append(writeWaiters, w)
                /\ wpc' = [wpc EXCEPT ![w] = "waiting"]
                /\ size' = [size EXCEPT ![w] = n]
                /\ offset' = [offset EXCEPT ![w] = Accepted(n)]
                /\ UNCHANGED acked
          /\ UNCHANGED signalled
    /\ UNCHANGED <<closedR, closedW, nonBlocking, eof, bypassed, pollSeen>>

\* Slip: the whole data is offered again instead of data.subarray(offset).
MutRemaining(w) == size[w]

\* What is left of the data of a blocked call.
Remaining(w) == size[w] - offset[w]

\* The end of a blocking call, by return or by exception.
WriterLeaves(w) ==
    /\ wpc' = [wpc EXCEPT ![w] = "idle"]
    /\ size' = [size EXCEPT ![w] = 0]
    /\ offset' = [offset EXCEPT ![w] = 0]
    /\ UNCHANGED writeWaiters

\* writeBlocking after its await: try the rest, and wait again at the tail of
\* the queue when some of it is still left.
Resume(w) ==
    LET n == Remaining(w) IN
    /\ wpc[w] = "woken"
    /\ \/ /\ closedR \/ closedW
          /\ WriteFails(w)
          /\ WriterLeaves(w)
          /\ UNCHANGED bypassed
       \/ /\ ~closedR /\ ~closedW
          /\ WriteAvailable(w, n)
          /\ \/ /\ Accepted(n) = n
                /\ Returns(w, size[w])
                /\ WriterLeaves(w)
             \/ /\ Accepted(n) < n
                /\ writeWaiters' = Append(writeWaiters, w)
                /\ wpc' = [wpc EXCEPT ![w] = "waiting"]
                /\ offset' = [offset EXCEPT ![w] = @ + Accepted(n)]
                /\ UNCHANGED <<size, acked>>
          /\ bypassed' = (bypassed \/ Direct(n))
          /\ UNCHANGED signalled
    /\ UNCHANGED <<closedR, closedW, nonBlocking, eof, pollSeen>>

\* Slip: the handle stays unsettled.
MutWakeOneWriter == UNCHANGED <<writeWaiters, wpc>>

\* writeWaiters.wakeOne(): the oldest handle leaves the queue settled.
WakeOneWriter ==
    IF writeWaiters = <<>>
    THEN UNCHANGED <<writeWaiters, wpc>>
    ELSE /\ wpc' = Wake({Head(writeWaiters)})
         /\ writeWaiters' = Tail(writeWaiters)

\* Slip: the rest of a partly consumed chunk is dropped.
MutUndrained(k) == IF k = 0 THEN buffer ELSE SubSeq(buffer, k + 2, Len(buffer))

\* What drainBuffer leaves behind after taking k bytes.
Undrained(k) == SubSeq(buffer, k + 1, Len(buffer))

\* read() of at most n bytes: drain the buffer and wake one writer, or EOF, or
\* block.  With the read end closed the description is gone (EBADF).
Read(r, n) ==
    /\ ~closedR
    /\ r \notin Range(readWaiters)
    /\ \/ /\ buffer # <<>>
          /\ delivered' = delivered \o SubSeq(buffer, 1, Min2(n, Len(buffer)))
          /\ buffer' = Undrained(Min2(n, Len(buffer)))
          /\ WakeOneWriter
          /\ WakePollers
          /\ bypassed' = FALSE
          /\ UNCHANGED <<readWaiters, want, eof>>
       \/ /\ buffer = <<>> /\ closedW
          /\ eof' = TRUE
          /\ UNCHANGED <<buffer, readWaiters, want, writeWaiters, wpc, polling,
                         delivered, bypassed>>
       \/ /\ buffer = <<>> /\ ~closedW
          /\ readWaiters' = Append(readWaiters, r)
          /\ want' = [want EXCEPT ![r] = n]
          /\ UNCHANGED <<buffer, writeWaiters, wpc, polling, delivered, eof,
                         bypassed>>
    /\ UNCHANGED <<closedR, closedW, nonBlocking, size, offset, written, acked,
                   signalled, pollSeen>>

\* Slip: a close wakes one writer only.
MutWakeAllWriters == WakeOneWriter

\* writeWaiters.wakeAll()
WakeAllWriters ==
    /\ wpc' = Wake(Range(writeWaiters))
    /\ writeWaiters' = <<>>

\* close() of the read end: blocked writers wake; blocked readers stay.
CloseRead ==
    /\ ~closedR
    /\ closedR' = TRUE
    /\ WakeAllWriters
    /\ WakePollers
    /\ UNCHANGED <<buffer, closedW, nonBlocking, readWaiters, want, size,
                   offset, hist, pollSeen>>

\* close() of the write end: blocked readers get null, blocked writers wake.
CloseWrite ==
    /\ ~closedW
    /\ closedW' = TRUE
    /\ eof' = (eof \/ readWaiters # <<>>)
    /\ readWaiters' = <<>>
    /\ want' = [r \in Readers |-> 0]
    /\ WakeAllWriters
    /\ WakePollers
    /\ UNCHANGED <<buffer, closedR, nonBlocking, size, offset, delivered,
                   written, acked, signalled, bypassed, pollSeen>>

\* waitForPoll() on an end that is still open
PollWait(p, end) ==
    /\ polling[p] = "idle"
    /\ IF end = "read" THEN ~closedR ELSE ~closedW
    /\ polling' = [polling EXCEPT ![p] = end]
    /\ pollSeen' = [pollSeen EXCEPT ![p] = Ready(end)]
    /\ UNCHANGED <<buffer, closedR, closedW, nonBlocking, readWaiters, want,
                   wvars, hist>>

\* The handle's timer fires before any wake.
PollTimeout(p) ==
    /\ polling[p] \in {"read", "write"}
    /\ polling' = [polling EXCEPT ![p] = "woken"]
    /\ UNCHANGED <<buffer, closedR, closedW, nonBlocking, readWaiters, want,
                   wvars, hist, pollSeen>>

\* waitForPoll() returns to its caller after the await.
PollReturn(p) ==
    /\ polling[p] = "woken"
    /\ polling' = [polling EXCEPT ![p] = "idle"]
    /\ pollSeen' = [pollSeen EXCEPT ![p] = FALSE]
    /\ UNCHANGED <<buffer, closedR, closedW, nonBlocking, readWaiters, want,
                   wvars, hist>>

\* createPipe(); the creator may then set O_NONBLOCK on the write description.
Init ==
    /\ buffer = <<>> /\ closedR = FALSE /\ closedW = FALSE
    /\ nonBlocking \in BOOLEAN
    /\ readWaiters = <<>> /\ writeWaiters = <<>>
    /\ want = [r \in Readers |-> 0]
    /\ wpc = [w \in Writers |-> "idle"]
    /\ size = [w \in Writers |-> 0]
    /\ offset = [w \in Writers |-> 0]
    /\ polling = [p \in Pollers |-> "idle"]
    /\ delivered = <<>>
    /\ written = [w \in Writers |-> 0]
    /\ acked = [w \in Writers |-> 0]
    /\ signalled = {} /\ eof = FALSE /\ bypassed = FALSE
    /\ pollSeen = [p \in Pollers |-> FALSE]

Next ==
    \/ \E w \in Writers : (\E n \in 0 .. MaxLen : Write(w, n)) \/ Resume(w)
    \/ \E r \in Readers, n \in 0 .. MaxLen : Read(r, n)
    \/ CloseRead \/ CloseWrite
    \/ \E p \in Pollers :
         (\E end \in {"read", "write"} : PollWait(p, end))
         \/ PollTimeout(p) \/ PollReturn(p)

Spec == Init /\ [][Next]_vars

\* A settled promise is resumed by the event loop.
FairSpec ==
    Spec /\ \A w \in Writers : WF_vars(Resume(w))

----------------------------------------------------------------------------
(* Properties *)

\* Each variable stays in its type.
TypeOK ==
    /\ buffer \in Seq(Byte)
    /\ closedR \in BOOLEAN /\ closedW \in BOOLEAN /\ nonBlocking \in BOOLEAN
    /\ readWaiters \in Seq(Readers)
    /\ want \in [Readers -> Nat]
    /\ writeWaiters \in Seq(Writers)
    /\ wpc \in [Writers -> {"idle", "waiting", "woken"}]
    /\ size \in [Writers -> 0 .. MaxLen]
    /\ offset \in [Writers -> 0 .. MaxLen]
    /\ polling \in [Pollers -> {"idle", "read", "write", "woken"}]
    /\ delivered \in Seq(Byte)
    /\ written \in [Writers -> Nat]
    /\ acked \in [Writers -> Nat]
    /\ signalled \subseteq Writers
    /\ eof \in BOOLEAN /\ bypassed \in BOOLEAN
    /\ pollSeen \in [Pollers -> BOOLEAN]

\* "rather than growing the buffer without bound": writeAvailable never puts
\* more than MAX_PIPE_BUFFER_BYTES in the buffer.
BufferBounded == Len(buffer) <= MaxBuf

\* A reader is blocked only while there is nothing to read and the write end is
\* open: no write and no close leaves a reader behind.
NoStrandedReader ==
    readWaiters # <<>> => buffer = <<>> /\ ~closedW

\* A writer on the wait queue has an open pipe: closing either end leaves no
\* handle on the queue, and no woken writer enqueues again afterwards.
WritersSeeClose ==
    closedR \/ closedW => writeWaiters = <<>>

\* A writer does not sleep beside a drained buffer: the read that drained it woke
\* a writer, which is still to run, or whose data is in the buffer by now.  There
\* is one exception: the woken writer found a blocked reader and its data went
\* past the buffer (bypassed), and nobody wakes the next in the queue.
WritersSeeDrain ==
    writeWaiters # <<>> /\ buffer = <<>> =>
        bypassed \/ \E w \in Writers : wpc[w] = "woken"

\* Nobody sleeps through what it waits for: no blocked reader beside data or a
\* closed write end, no blocked writer beside a closed end, and none beside a
\* drained buffer with no wakeup under way, unless it was passed over by a direct
\* hand-over.  kernel.md allows no exception: see WritersResumeOnceDrained.
NobodyStrandedUnlessBypassed ==
    NoStrandedReader /\ WritersSeeClose /\ WritersSeeDrain

\* What kernel.md says of a blocking write: it is suspended only "until a reader
\* drains capacity".  With no wakeup under way, a queued writer never faces an
\* empty buffer.  This fails: of two writers blocked on a full pipe the first is
\* woken by a drain and hands its rest to a reader that has blocked meanwhile.
WritersResumeOnceDrained ==
    writeWaiters # <<>> /\ (\A w \in Writers : wpc[w] # "woken")
        => buffer # <<>>

\* The queue and the writers' own view agree: a writer is suspended exactly
\* when it is on the queue, once, with data left to place.
QueueConsistent ==
    /\ \A w \in Writers : wpc[w] = "waiting" <=> w \in Range(writeWaiters)
    /\ IsInjective(writeWaiters)
    /\ \A w \in Writers :
          IF wpc[w] = "idle" THEN size[w] = 0 /\ offset[w] = 0
          ELSE offset[w] < size[w]

\* While the pipe is open, a writer between two calls was told exactly what
\* entered the pipe; one cut off by EPIPE was never told more.
CountsTrue ==
    \A w \in Writers :
        /\ acked[w] <= written[w]
        /\ wpc[w] = "idle" /\ ~closedR /\ ~closedW
              => acked[w] = written[w]

\* The pipe as the stream it carries: what was delivered, then what is buffered.
Stream == INSTANCE Channel WITH
    sent <- delivered \o buffer, received <- delivered, count <- written,
    readOpen <- ~closedR, writeOpen <- ~closedW

\* Every step of the pipe is a step of the abstract byte channel, or none: no
\* byte is lost, repeated or reordered on its way from write() to read(), none
\* enters a pipe with a closed end, and EOF comes last.
ImplementsChannel == Stream!Spec

\* EOF is reported only once the write end is closed and everything written
\* before has been read; nothing can follow it.
EofMeansDrained == eof => closedW /\ buffer = <<>>

\* A poller still waiting on an end that was not ready has missed nothing: each
\* change that makes an end ready wakes the pollers.
PollNotMissed ==
    \A p \in Pollers :
        polling[p] \in {"read", "write"} /\ ~pollSeen[p] => ~Ready(polling[p])

\* Closing an end cuts off every write in progress, blocked or about to resume.
CloseUnblocksWriters ==
    (closedR \/ closedW) ~> (\A w \in Writers : wpc[w] = "idle")
============================================================================
