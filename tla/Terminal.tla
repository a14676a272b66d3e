------------------------------ MODULE Terminal ------------------------------
(***************************************************************************)
(* A shell on a pseudo-terminal: PtyManager (kernel/pty.ts), and the read  *)
(* pump and wait() of openShell (kernel/kernel.ts).                        *)
(*                                                                         *)
(* Bytes are counted, not kept.  The host types one character at a time:   *)
(* a longer write goes through the line discipline byte by byte, and one   *)
(* that fails with EAGAIN keeps what it did before it failed and drops the *)
(* rest.  Only with icanon, echo and isig all off is a longer write        *)
(* delivered, or refused, as one chunk (WriteRaw).  A process's write that *)
(* does not fit fails with EAGAIN and leaves no trace: the standard streams*)
(* of a process ignore that error, and what they wrote is lost.  All the   *)
(* processes are of the shell's session, of which it is the leader; what a *)
(* signal does to the process it reaches is module ProcessTable's.         *)
(***************************************************************************)
EXTENDS Naturals, Sequences, FiniteSets, SequencesExt

CONSTANTS Shell,       \* the shell's pid: a session and group leader
          Children,    \* the pids its descendants may get
          MaxBuf,      \* MAX_PTY_BUFFER_BYTES, per direction
          MaxCanon,    \* MAX_CANON
          ReadSize,    \* what the pump asks for: 4096
          MaxOut,      \* bound: bytes put into the output
          Modes,       \* the termios flags that are used
          MaxCalls     \* bound: characters typed, empty writes, and calls that
                       \* start a process, move it or set the terminal

ASSUME TerminalAssumption ==
    /\ Shell \notin Children
    /\ {MaxBuf, MaxCanon, ReadSize, MaxOut, MaxCalls} \subseteq Nat \ {0}

Pids == Children \cup {Shell}
Cooked == [icanon |-> TRUE, echo |-> TRUE, isig |-> TRUE]   \* defaultTermios

ASSUME ModesAssumption ==
    /\ Modes \subseteq [icanon : BOOLEAN, echo : BOOLEAN, isig : BOOLEAN]
    /\ Cooked \in Modes

VARIABLES
    status,     \* of each pid: "none", "live" or "exited"
    pgid,       \* its process group
    fg,         \* foregroundPgid
    mode,       \* the termios flags
    line,       \* the length of lineBuffer
    inBuf,      \* inputBuffer: the lengths of its chunks
    readers,    \* inputWaiters: the processes whose read they belong to
    outBuf,     \* outputBuffer: the lengths of its chunks
    pump,       \* its read is pending ("reading"), resolved to data ("got") or
                \* to null ("hungup"), or the loop has ended ("stopped")
    got,        \* the bytes its read resolved to
    exited,     \* pump.exited
    master,     \* the master end is open
    waited,     \* the promise of wait() is resolved
    calls,      \* what MaxCalls bounds
    written,    \* bytes put into the output, echo included
    delivered   \* bytes handed to onData

procs == <<status, pgid>>
input == <<line, inBuf, readers>>
output == <<outBuf, pump, got, written>>
host == <<exited, master, waited, delivered>>
vars == <<procs, fg, mode, input, output, host, calls>>

Live(p) == status[p] = "live"

\* Whoever lives has the slave as its standard streams, and nobody else does.
SlaveOpen == \E p \in Pids : Live(p)

Group(g) == {p \in Pids : Live(p) /\ pgid[p] = g}

bufferBytes(chunks) ==
    LET sum[k \in 0 .. Len(chunks)] == IF k = 0 THEN 0 ELSE sum[k - 1] + chunks[k]
    IN  sum[Len(chunks)]

Count == calls < MaxCalls /\ calls' = calls + 1

----------------------------------------------------------------------------
(* The two buffers *)

\* Output goes to the master's pending read, or else into the buffer.
FitsOut(n) == pump = "reading" \/ bufferBytes(outBuf) + n <= MaxBuf

PutOut(n) ==
    /\ written + n <= MaxOut
    /\ written' = written + n
    /\ IF pump = "reading"
       THEN pump' = "got" /\ got' = n /\ UNCHANGED outBuf
       ELSE outBuf' = Append(outBuf, n) /\ UNCHANGED <<pump, got>>

\* Slip: a full output buffer is not noticed by the echo.
MutCanEcho(n) == TRUE

CanEcho(n) == mode.echo => FitsOut(n)

echoOutput(n) ==
    IF mode.echo /\ CanEcho(n) THEN PutOut(n) ELSE UNCHANGED output

\* Slip: the input is queued although a read is pending.
MutdeliverInput(n) == inBuf' = Append(inBuf, n) /\ UNCHANGED readers

FitsIn(n) == readers # <<>> \/ bufferBytes(inBuf) + n <= MaxBuf

\* Input goes to the oldest pending read, that of an exited process included.
deliverInput(n) ==
    IF readers # <<>>
    THEN readers' = Tail(readers) /\ UNCHANGED inBuf
    ELSE inBuf' = Append(inBuf, n) /\ UNCHANGED readers

\* Slip: the whole chunk goes, although only a part of it was asked for.
MutdrainBuffer(chunks, n) == Tail(chunks)

\* What a read of up to n bytes leaves of a buffer: whole chunks go while they
\* fit, then a part of the next one.
drainBuffer(chunks, n) ==
    LET taken == Min({k \in 0 .. Len(chunks) :
                        \/ k = Len(chunks)
                        \/ bufferBytes(SubSeq(chunks, 1, k)) = n
                        \/ bufferBytes(SubSeq(chunks, 1, k + 1)) > n})
        left  == n - bufferBytes(SubSeq(chunks, 1, taken))
        rest  == SubSeq(chunks, taken + 1, Len(chunks))
    IN IF rest = <<>> THEN rest ELSE [rest EXCEPT ![1] = @ - left]

\* A process writes to the terminal.
SlaveWrite(n) ==
    /\ SlaveOpen /\ master /\ FitsOut(n)
    /\ PutOut(n)
    /\ IF n = 0 THEN Count ELSE UNCHANGED calls
    /\ UNCHANGED <<procs, fg, mode, input, host>>

\* A process reads: from the buffer, the hangup once the master is closed, or
\* it blocks.
SlaveRead(p, n) ==
    /\ Live(p) /\ p \notin Range(readers)
    /\ \/ inBuf # <<>> /\ inBuf' = drainBuffer(inBuf, n) /\ UNCHANGED readers
       \/ inBuf = <<>> /\ master
          /\ readers' = Append(readers, p) /\ UNCHANGED inBuf
    /\ UNCHANGED <<procs, fg, mode, line, output, host, calls>>

----------------------------------------------------------------------------
(* processInput: the host types one character. *)

Types ==
    /\ Count /\ master /\ SlaveOpen
    /\ UNCHANGED <<procs, fg, mode, host>>

TypeChar ==
    /\ Types /\ mode.icanon
    /\ IF line >= MaxCanon
       THEN UNCHANGED <<line, output>>
       ELSE line' = line + 1 /\ echoOutput(1)
    /\ UNCHANGED <<inBuf, readers>>

TypeErase ==
    /\ Types /\ mode.icanon /\ line > 0
    /\ line' = line - 1
    /\ echoOutput(3)
    /\ UNCHANGED <<inBuf, readers>>

\* The newline joins the line before the echo and the delivery, and stays in
\* it when one of them fails.
TypeNewline ==
    /\ Types /\ mode.icanon
    /\ echoOutput(2)
    /\ IF CanEcho(2) /\ FitsIn(line + 1)
       THEN deliverInput(line + 1) /\ line' = 0
       ELSE line' = line + 1 /\ UNCHANGED <<inBuf, readers>>

\* An empty line is delivered as an empty chunk, the end of the input.
TypeEof ==
    /\ Types /\ mode.icanon
    /\ IF FitsIn(line) THEN deliverInput(line) /\ line' = 0
       ELSE UNCHANGED input
    /\ UNCHANGED output

TypeRaw ==
    /\ Types /\ ~mode.icanon
    /\ echoOutput(1)
    /\ IF CanEcho(1) /\ FitsIn(1) THEN deliverInput(1)
       ELSE UNCHANGED <<inBuf, readers>>
    /\ UNCHANGED line

\* A longer write to a raw terminal is delivered, or refused, as a whole.
WriteRaw(n) ==
    /\ Types /\ ~mode.icanon /\ ~mode.echo /\ ~mode.isig
    /\ IF FitsIn(n) THEN deliverInput(n) ELSE UNCHANGED <<inBuf, readers>>
    /\ UNCHANGED <<line, output>>

\* Whom killGroupExcludeLeaders signals.
Signalled(g) == Group(g) \ {Shell}

\* ^C at the shell's prompt.  If there is nobody to signal but the shell, a
\* newline is delivered instead.
TypeIntrAtShell ==
    /\ Types /\ mode.isig /\ fg = Shell
    /\ line' = IF mode.icanon THEN 0 ELSE line
    /\ echoOutput(4)
    /\ IF CanEcho(4) /\ Signalled(fg) = {} /\ FitsIn(1)
       THEN deliverInput(1)
       ELSE UNCHANGED <<inBuf, readers>>

\* ^C for another foreground group (no echo), or ^Z or ^\ (echoed): the group
\* is signalled.
TypeSignal(echoed) ==
    /\ Types /\ mode.isig /\ (echoed \/ fg # Shell)
    /\ line' = IF mode.icanon THEN 0 ELSE line
    /\ IF echoed THEN echoOutput(4) ELSE UNCHANGED output
    /\ UNCHANGED <<inBuf, readers>>

----------------------------------------------------------------------------
(* Processes and groups *)

\* A child inherits its parent's group, session and terminal.
Spawn(p, c) ==
    /\ Count /\ Live(p) /\ status[c] = "none"
    /\ status' = [status EXCEPT ![c] = "live"]
    /\ pgid' = [pgid EXCEPT ![c] = pgid[p]]
    /\ UNCHANGED <<fg, mode, input, output, host>>

\* Into a group that exists, or a group of its own.
setpgid(p, g) ==
    /\ Count /\ Live(p)
    /\ g # p => Group(g) # {}
    /\ pgid' = [pgid EXCEPT ![p] = g]
    /\ UNCHANGED <<status, fg, mode, input, output, host>>

tcsetpgrp(g) ==
    /\ Count /\ SlaveOpen /\ Group(g) # {}
    /\ fg' = g
    /\ UNCHANGED <<procs, mode, input, output, host>>

tcsetattr(m) ==
    /\ Count /\ SlaveOpen
    /\ mode' = m
    /\ UNCHANGED <<procs, fg, input, output, host>>

\* Slip: the close of the slave does not resolve the master's read.
MutSlaveClosed == readers' = <<>> /\ UNCHANGED <<pump, got>>

\* The last holder of the slave is gone: every pending read is resolved.
SlaveClosed ==
    /\ readers' = <<>>
    /\ IF pump = "reading" THEN pump' = "hungup" /\ got' = 0
       ELSE UNCHANGED <<pump, got>>

\* A process ends; its pending read stays in inputWaiters while the slave is
\* open.
Exit(p) ==
    /\ Live(p)
    /\ status' = [status EXCEPT ![p] = "exited"]
    /\ IF \A q \in Pids \ {p} : ~Live(q) THEN SlaveClosed
       ELSE UNCHANGED <<readers, pump, got>>
    /\ UNCHANGED <<pgid, fg, mode, line, inBuf, outBuf, written,
                   host, calls>>

----------------------------------------------------------------------------
(* openShell: the pump and wait() *)

PumpRead ==
    IF outBuf # <<>>
    THEN /\ pump' = "got" /\ outBuf' = drainBuffer(outBuf, ReadSize)
         /\ got' = Min({ReadSize, bufferBytes(outBuf)})
    ELSE IF ~SlaveOpen THEN pump' = "hungup" /\ got' = 0 /\ UNCHANGED outBuf
    ELSE pump' = "reading" /\ got' = 0 /\ UNCHANGED outBuf

\* One turn of the loop: a hangup or an empty chunk ends it, and so does
\* pump.exited once the data is delivered.
PumpTurn ==
    /\ pump \in {"got", "hungup"}
    /\ IF got = 0
       THEN pump' = "stopped" /\ got' = 0 /\ UNCHANGED <<outBuf, delivered>>
       ELSE /\ delivered' = delivered + got
            /\ IF exited THEN pump' = "stopped" /\ got' = 0 /\ UNCHANGED outBuf
               ELSE PumpRead
    /\ UNCHANGED <<procs, fg, mode, input, written, exited, master, waited, calls>>

\* proc.wait() has resolved.
ShellReaped ==
    /\ status[Shell] = "exited" /\ ~exited
    /\ exited' = TRUE
    /\ UNCHANGED <<procs, fg, mode, input, output, master, waited, delivered, calls>>

\* The pump has ended: the controller's table goes and with it the master,
\* which signals the foreground group and resolves the slave's reads.
WaitResolves ==
    /\ exited /\ pump = "stopped" /\ ~waited
    /\ waited' = TRUE /\ master' = FALSE /\ readers' = <<>>
    /\ UNCHANGED <<procs, fg, mode, line, inBuf, output, exited, delivered, calls>>

----------------------------------------------------------------------------
\* openShell has returned: the pump waits for the first output.
Init ==
    /\ status = [p \in Pids |-> IF p = Shell THEN "live" ELSE "none"]
    /\ pgid = [p \in Pids |-> Shell]
    /\ fg = Shell
    /\ mode = Cooked
    /\ line = 0 /\ inBuf = <<>> /\ readers = <<>>
    /\ outBuf = <<>> /\ pump = "reading" /\ got = 0
    /\ exited = FALSE /\ master = TRUE /\ waited = FALSE
    /\ calls = 0 /\ written = 0 /\ delivered = 0

Next ==
    \/ \E n \in 0 .. ReadSize + 1 : SlaveWrite(n)
    \/ \E p \in Pids, n \in 1 .. 2 : SlaveRead(p, n)
    \/ TypeChar \/ TypeErase \/ TypeNewline \/ TypeEof \/ TypeRaw
    \/ \E n \in 2 .. MaxBuf + 1 : WriteRaw(n)
    \/ TypeIntrAtShell \/ \E echoed \in BOOLEAN : TypeSignal(echoed)
    \/ \E p \in Pids, c \in Children : Spawn(p, c)
    \/ \E p, g \in Pids : setpgid(p, g)
    \/ \E g \in Pids : tcsetpgrp(g)
    \/ \E m \in Modes : tcsetattr(m)
    \/ \E p \in Pids : Exit(p)
    \/ PumpTurn \/ ShellReaped \/ WaitResolves

\* The pump and wait() are continuations of promises: once resolved they run.
Fairness == WF_vars(PumpTurn) /\ WF_vars(ShellReaped) /\ WF_vars(WaitResolves)

Spec == Init /\ [][Next]_vars /\ Fairness

----------------------------------------------------------------------------
(* Properties *)

\* Types, and both buffers within MAX_PTY_BUFFER_BYTES, echo included.
TypeOK ==
    /\ status \in [Pids -> {"none", "live", "exited"}]
    /\ pgid \in [Pids -> Pids] /\ fg \in Pids
    /\ mode \in Modes /\ line \in 0 .. MaxCanon + MaxCalls
    /\ inBuf \in Seq(Nat) /\ bufferBytes(inBuf) <= MaxBuf
    /\ outBuf \in Seq(Nat) /\ bufferBytes(outBuf) <= MaxBuf
    /\ readers \in Seq(Pids)
    /\ pump \in {"reading", "got", "hungup", "stopped"} /\ got \in 0 .. MaxOut
    /\ {exited, master, waited} \subseteq BOOLEAN
    /\ calls \in 0 .. MaxCalls /\ {written, delivered} \subseteq 0 .. MaxOut

\* No read waits for what is there: while one is pending, its buffer is empty
\* and both ends of the terminal are open.
NobodyStranded ==
    /\ readers # <<>> => inBuf = <<>> /\ master /\ SlaveOpen
    /\ pump = "reading" => outBuf = <<>> /\ master /\ SlaveOpen

\* Of the output the terminal took, each byte is delivered once or still on
\* its way, through direct hand-over, buffering and partial reads.  A write it
\* refuses with EAGAIN, which kernel.ts:1433 does not report, is not counted,
\* and what is left in the buffer after the pump stopped counts as on its way
\* (AllOutputDelivered is about that).
OutputConserved ==
    written = delivered + got + bufferBytes(outBuf)

\* wait() resolves once the shell and everybody who has its terminal are gone.
WaitEnds == (status[Shell] = "exited" /\ ~SlaveOpen) ~> waited

\* "Wait for pump to finish delivering remaining data": what was written has
\* been handed to onData when wait() resolves.
AllOutputDelivered == waited => delivered = written
=============================================================================
