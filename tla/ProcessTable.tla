--------------------------- MODULE ProcessTable ---------------------------
(***************************************************************************)
(* Process lifecycle and signals: ProcessTable                             *)
(* (packages/core/src/kernel/process-table.ts).                            *)
(*                                                                         *)
(* The table runs on the event loop, but not in one piece: delivering a    *)
(* signal calls user handlers and driverProcess.kill, and both may call    *)
(* back into the table before they return (a handler sends signals, a      *)
(* driver reports the exit of the process it was told to kill).  `stack'   *)
(* is that call stack, innermost call first; the other events of the loop  *)
(* happen only while it is empty.  Its frames:                             *)
(*   "deliver"   deliverSignal(p, s) is about to run                       *)
(*   "dispatch"  dispatchSignal(p, s) is about to run                      *)
(*   "driver"    driverProcess.kill(s) of p is about to run                *)
(*   "guarded"   the same, under the try/catch of terminateAll             *)
(*   "handler"   p's handler of s is running; `saved' is savedBlocked      *)
(*   "pending"   the loop of deliverPendingSignals over `todo'             *)
(*   "notify"    what markExited(p) does after the SIGCHLD                 *)
(*                                                                         *)
(* Handlers registered for different signals share one sa_mask.  Process   *)
(* groups and sessions, umask, handles and the data of an entry are left   *)
(* out.                                                                    *)
(***************************************************************************)
EXTENDS Naturals, Sequences, FiniteSets

CONSTANTS Pids,       \* PIDs, in allocation order
          Signals,    \* the signals in use, among them those named below
          SaMask,     \* sa_mask of every registered handler
          Masks,      \* the sets processes pass to sigprocmask
          Handled,    \* the signals processes call sigaction for
          MaxCalls,   \* bound: calls of kill, sigaction, sigprocmask, alarm, waitpid
          MaxStack,   \* bound: frames on the stack
          MaxWaiters  \* bound: waitpid calls blocked on one process

SIGKILL == 9
SIGALRM == 14
SIGTERM == 15
SIGCHLD == 17
SIGCONT == 18
SIGSTOP == 19
SIGTSTP == 20
SIGWINCH == 28

Uncatchable == {SIGKILL, SIGSTOP}

ASSUME ProcessAssumption ==
    /\ Pids \subseteq Nat \ {0} /\ IsFiniteSet(Pids)
    /\ {SIGKILL, SIGTERM, SIGCHLD} \subseteq Signals
    /\ Signals \subseteq 1 .. 64
    /\ SaMask \subseteq Signals
    /\ Masks \subseteq SUBSET Signals
    /\ Handled \subseteq Signals
    /\ {MaxCalls, MaxStack, MaxWaiters} \subseteq Nat

Dispositions == {"default", "ignore", "catch", "oneshot"}

VARIABLES
    status,    \* "none", "running", "stopped", "exited" or "reaped"
    ppid,      \* parent, 0 for a process the host spawned
    disp,      \* handlers: disposition of each signal
    blocked,   \* signalState.blockedSignals
    pending,   \* signalState.pendingSignals
    waiters,   \* waitpid calls blocked on the process
    zombie,    \* zombieTimers: processes with a cleanup timer
    alarms,    \* alarmTimers: processes with an alarm set
    dispose,   \* "no", then the stages "term", "kill" and "done" of dispose
    stack,     \* the calls in progress, see above
    calls,     \* how many of MaxCalls were made
    (* History of the run, read by no guard. *)
    mask,      \* the blocked set the process itself last asked for
    threw      \* a handler threw

sig == <<disp, blocked, pending, mask>>
timers == <<zombie, alarms>>
vars == <<status, ppid, disp, blocked, pending, waiters, zombie, alarms,
          dispose, stack, calls, mask, threw>>

----------------------------------------------------------------------------

Live(p) == status[p] \in {"running", "stopped"}

\* A handler of p is in progress.
InHandler(p) ==
    \E i \in DOMAIN stack : stack[i].kind = "handler" /\ stack[i].pid = p

\* p may call for itself: an exited process does so only from a handler that
\* was running when it exited (the calls only ask whether there is an entry).
CanCall(p) == Live(p) \/ (InHandler(p) /\ status[p] = "exited")

Frame(k, p, s) == [kind |-> k, pid |-> p, signal |-> s]

\* The call on top of the stack, and where its steps lead.
Top(k) == stack # <<>> /\ Head(stack).kind = k
Return == stack' = Tail(stack)
Become(frames) == stack' = frames \o Tail(stack)

\* User code may call into the table: from the event loop, or from a handler.
UserCode == stack = <<>> \/ Top("handler")
Call(frames, base) ==
    /\ calls < MaxCalls /\ calls' = calls + 1
    /\ Len(stack) < MaxStack
    /\ stack' = frames \o base

\* The elements of a set of signals in ascending order.
Ascending(S) ==
    CHOOSE q \in [1 .. Cardinality(S) -> S] :
        \A i, j \in 1 .. Cardinality(S) : i < j => q[i] < q[j]

PendingLoop(p, set) ==
    [kind |-> "pending", pid |-> p, todo |-> Ascending(set), ran |-> FALSE]

\* cont: only a stopped process resumes.
Continued(p) ==
    [status EXCEPT ![p] = IF @ = "stopped" THEN "running" ELSE @]

\* stop: only a running process stops.
Stopped(p) ==
    [status EXCEPT ![p] = IF @ = "running" THEN "stopped" ELSE @]

----------------------------------------------------------------------------
(* Events of the loop. *)

\* register: PIDs are allocated in order; every disposition is the default.
Register(p, parent) ==
    /\ stack = <<>> /\ dispose = "no"
    /\ status[p] = "none" /\ \A q \in Pids : q < p => status[q] # "none"
    /\ parent = 0 \/ (parent \in Pids /\ Live(parent))
    /\ status' = [status EXCEPT ![p] = "running"]
    /\ ppid' = [ppid EXCEPT ![p] = parent]
    /\ UNCHANGED <<sig, waiters, timers, dispose, stack, calls, threw>>

\* markExited up to and including the SIGCHLD; only a running parent gets it.
MarkExited(p, base) ==
    LET parent == ppid[p]
        chld == IF parent # 0 /\ status[parent] = "running"
                  THEN <<Frame("deliver", parent, SIGCHLD)>> ELSE <<>>
    IN  IF Live(p)
          THEN /\ status' = [status EXCEPT ![p] = "exited"]
               /\ alarms' = alarms \ {p}
               /\ stack' = chld \o <<Frame("notify", p, 0)>> \o base
          ELSE stack' = base /\ UNCHANGED <<status, alarms>>

\* driverProcess.onExit from the event loop: the process ended by itself, or
\* the driver has finished killing it.
DriverExit(p) ==
    /\ stack = <<>> /\ Live(p)
    /\ MarkExited(p, <<>>)
    /\ UNCHANGED <<ppid, sig, waiters, zombie, dispose, calls, threw>>

\* waitpid on a process that has not exited (WNOHANG and the exited case
\* return at once and change nothing).
Waitpid(p) ==
    /\ UserCode /\ Live(p) /\ waiters[p] < MaxWaiters
    /\ Call(<<>>, stack)
    /\ waiters' = [waiters EXCEPT ![p] = @ + 1]
    /\ UNCHANGED <<status, ppid, sig, timers, dispose, threw>>

\* kill(p, s) for one process.
Kill(p, s) ==
    /\ UserCode /\ Live(p)
    /\ Call(<<Frame("deliver", p, s)>>, stack)
    /\ UNCHANGED <<status, ppid, sig, waiters, timers, dispose, threw>>

\* sigaction.
Sigaction(p, s, d) ==
    /\ UserCode /\ CanCall(p) /\ s \notin Uncatchable
    /\ Call(<<>>, stack)
    /\ disp' = [disp EXCEPT ![p][s] = d]
    /\ UNCHANGED <<status, ppid, blocked, pending, mask, waiters, timers,
                   dispose, threw>>

\* Slip: every signal can be blocked.
MutFiltered(set) == set

\* sigprocmask drops the signals that cannot be blocked.
Filtered(set) == set \ Uncatchable

\* Slip: the signals that were pending stay pending.
MutDeliverPending(p) == <<>>

\* What sigprocmask does after it has changed the mask.
DeliverPending(p) == <<PendingLoop(p, pending[p])>>

\* History: the handlers of p in progress have seen a change of its mask.
Touched(p) ==
    [i \in DOMAIN stack |->
       IF stack[i].kind = "handler" /\ stack[i].pid = p
         THEN [stack[i] EXCEPT !.touched = TRUE] ELSE stack[i]]

\* sigprocmask(SIG_SETMASK, set), from which the other two modes follow.  A
\* mask set while a handler of p runs lasts until that handler returns.
Sigprocmask(p, set) ==
    /\ UserCode /\ CanCall(p)
    /\ Call(DeliverPending(p), Touched(p))
    /\ blocked' = [blocked EXCEPT ![p] = Filtered(set)]
    /\ mask' = IF InHandler(p) THEN mask
                 ELSE [mask EXCEPT ![p] = Filtered(set)]
    /\ UNCHANGED <<status, ppid, disp, pending, waiters, timers, dispose, threw>>

\* alarm(p, seconds): set or replace it, or with 0 cancel it.
Alarm(p, on) ==
    /\ SIGALRM \in Signals
    /\ UserCode /\ CanCall(p)
    /\ Call(<<>>, stack)
    /\ alarms' = IF on THEN alarms \cup {p} ELSE alarms \ {p}
    /\ UNCHANGED <<status, ppid, sig, waiters, zombie, dispose, threw>>

\* The alarm timer: dropped unless the process is running.
AlarmFires(p) ==
    /\ stack = <<>> /\ p \in alarms
    /\ alarms' = alarms \ {p}
    /\ stack' = IF status[p] = "running"
                  THEN <<Frame("deliver", p, SIGALRM)>> ELSE <<>>
    /\ UNCHANGED <<status, ppid, sig, waiters, zombie, dispose, calls, threw>>

\* The zombie timer: reap.
ZombieTimer(p) ==
    /\ stack = <<>> /\ p \in zombie
    /\ zombie' = zombie \ {p}
    /\ status' = [status EXCEPT ![p] = IF @ = "exited" THEN "reaped" ELSE @]
    /\ UNCHANGED <<ppid, sig, waiters, alarms, dispose, stack, calls, threw>>

\* The frames that make a driver kill of each process in ps, lowest PID first.
DriverKills(ps, s) ==
    LET order == Ascending(ps)
    IN  [i \in 1 .. Cardinality(ps) |-> Frame("guarded", order[i], s)]

\* terminateAll: clears every timer, then SIGTERM to all that have not exited.
TerminateAll ==
    /\ stack = <<>> /\ dispose = "no"
    /\ dispose' = "term"
    /\ zombie' = {} /\ alarms' = {}
    /\ stack' = DriverKills({p \in Pids : Live(p)}, SIGTERM)
    /\ UNCHANGED <<status, ppid, sig, waiters, calls, threw>>

\* The grace period is over: SIGKILL to the survivors.
Escalate ==
    /\ stack = <<>> /\ dispose = "term"
    /\ dispose' = "kill"
    /\ stack' = DriverKills({p \in Pids : Live(p)}, SIGKILL)
    /\ UNCHANGED <<status, ppid, sig, waiters, timers, calls, threw>>

\* Every survivor has exited or had its 500 ms.
Disposed ==
    /\ stack = <<>> /\ dispose = "kill"
    /\ dispose' = "done"
    /\ UNCHANGED <<status, ppid, sig, waiters, timers, stack, calls, threw>>

----------------------------------------------------------------------------
(* Steps of the calls in progress. *)

\* deliverSignal: SIGKILL and SIGSTOP take their default action at once.
DeliverUncatchable ==
    LET p == Head(stack).pid
        s == Head(stack).signal IN
    /\ Top("deliver") /\ s \in Uncatchable
    /\ status' = IF s = SIGSTOP THEN Stopped(p) ELSE status
    /\ Become(<<Frame("driver", p, s)>>)
    /\ UNCHANGED <<ppid, sig, waiters, timers, dispose, calls, threw>>

\* deliverSignal otherwise: SIGCONT resumes whatever becomes of the signal;
\* a blocked signal is queued, any other dispatched.
Deliver ==
    LET p == Head(stack).pid
        s == Head(stack).signal IN
    /\ Top("deliver") /\ s \notin Uncatchable
    /\ status' = IF s = SIGCONT THEN Continued(p) ELSE status
    /\ IF s \in blocked[p]
         THEN Return /\ pending' = [pending EXCEPT ![p] = @ \cup {s}]
         ELSE Become(<<Frame("dispatch", p, s)>>) /\ UNCHANGED pending
    /\ UNCHANGED <<ppid, disp, blocked, mask, waiters, timers, dispose, calls, threw>>

\* dispatchSignal for a signal that is ignored, or ignored by default.
DispatchIgnored ==
    LET p == Head(stack).pid
        s == Head(stack).signal IN
    /\ Top("dispatch")
    /\ \/ disp[p][s] = "ignore"
       \/ disp[p][s] = "default" /\ s \in {SIGCHLD, SIGWINCH}
    /\ Return
    /\ UNCHANGED <<status, ppid, sig, waiters, timers, dispose, calls, threw>>

\* dispatchSignal, applyDefaultAction: stop, continue or terminate, each time
\* by telling the driver.
DispatchDefault ==
    LET p == Head(stack).pid
        s == Head(stack).signal IN
    /\ Top("dispatch") /\ disp[p][s] = "default"
    /\ s \notin {SIGCHLD, SIGWINCH}
    /\ status' = CASE s = SIGTSTP -> Stopped(p)
                   [] s = SIGCONT -> Continued(p)
                   [] OTHER       -> status
    /\ Become(<<Frame("driver", p, s)>>)
    /\ UNCHANGED <<ppid, sig, waiters, timers, dispose, calls, threw>>

\* Slip: the signal itself stays unblocked.
MutHandlerMask(s) == SaMask

\* The signals a handler of s runs with, besides those already blocked.
HandlerMask(s) == SaMask \cup {s}

\* dispatchSignal with a handler: the handler starts.
DispatchCaught ==
    LET p == Head(stack).pid
        s == Head(stack).signal IN
    /\ Top("dispatch") /\ disp[p][s] \in {"catch", "oneshot"}
    /\ blocked' = [blocked EXCEPT ![p] = @ \cup HandlerMask(s)]
    /\ Become(<<[kind |-> "handler", pid |-> p, signal |-> s,
                 saved |-> blocked[p], once |-> disp[p][s] = "oneshot",
                 touched |-> FALSE]>>)
    /\ UNCHANGED <<status, ppid, disp, pending, mask, waiters, timers, dispose,
                   calls, threw>>

\* Slip: sa_mask stays blocked.
MutRestored(f) == blocked[f.pid] \ {f.signal}

\* The mask a handler leaves behind.
Restored(f) == f.saved

\* The handler returns: the mask is restored, a one-shot handler reset, and
\* what became pending meanwhile is delivered.
HandlerReturns ==
    LET f == Head(stack) IN
    /\ Top("handler")
    /\ blocked' = [blocked EXCEPT ![f.pid] = Restored(f)]
    /\ disp' = [disp EXCEPT ![f.pid][f.signal] = IF f.once THEN "default" ELSE @]
    /\ Become(<<PendingLoop(f.pid, pending[f.pid])>>)
    /\ UNCHANGED <<status, ppid, pending, mask, waiters, timers, dispose, calls, threw>>

\* The handler throws: every call in progress is abandoned up to the try/catch in
\* the loop of terminateAll, which goes on; of the `finally' blocks on the way the
\* outermost one decides a process's mask.
HandlerThrows ==
    LET framesOf(p) == {i \in DOMAIN stack :
                          stack[i].kind = "handler" /\ stack[i].pid = p}
        outermost(p) == CHOOSE i \in framesOf(p) : \A j \in framesOf(p) : j <= i
    IN
    /\ Top("handler")
    /\ blocked' = [p \in Pids |-> IF framesOf(p) = {} THEN blocked[p]
                                    ELSE stack[outermost(p)].saved]
    /\ \E k \in 0 .. Len(stack) :
         /\ \A i \in 1 .. k : stack[i].kind # "guarded"
         /\ k < Len(stack) => stack[k + 1].kind = "guarded"
         /\ stack' = SubSeq(stack, k + 1, Len(stack))
    /\ threw' = TRUE
    /\ UNCHANGED <<status, ppid, disp, pending, mask, waiters, timers, dispose,
                   calls>>

\* One round of deliverPendingSignals: over when the list is, or when the
\* signal just dispatched ended the process.
PendingRound ==
    LET f == Head(stack)
        s == Head(f.todo)
        rest(ran) == [f EXCEPT !.todo = Tail(@), !.ran = ran] IN
    /\ Top("pending")
    /\ IF f.todo = <<>> \/ (f.ran /\ status[f.pid] = "exited")
         THEN Return /\ UNCHANGED pending
         ELSE IF s \in pending[f.pid] \ blocked[f.pid]
           THEN /\ pending' = [pending EXCEPT ![f.pid] = @ \ {s}]
                /\ Become(<<Frame("dispatch", f.pid, s), rest(TRUE)>>)
           ELSE /\ Become(<<rest(FALSE)>>)
                /\ UNCHANGED pending
    /\ UNCHANGED <<status, ppid, disp, blocked, mask, waiters, timers, dispose,
                   calls, threw>>

\* driverProcess.kill returns, and the process may exit later ...
DriverKill ==
    /\ Top("driver") \/ Top("guarded")
    /\ Return
    /\ UNCHANGED <<status, ppid, sig, waiters, timers, dispose, calls, threw>>

\* ... or it reports the exit before it returns, as the Node driver does for a
\* process that has no isolate yet.
DriverKillExits ==
    LET p == Head(stack).pid IN
    /\ Top("driver") \/ Top("guarded")
    /\ Live(p)
    /\ MarkExited(p, Tail(stack))
    /\ UNCHANGED <<ppid, sig, waiters, zombie, dispose, calls, threw>>

\* Slip: waiters are not told.
MutNotify ==
    /\ Top("notify")
    /\ zombie' = zombie \cup {Head(stack).pid}
    /\ Return
    /\ UNCHANGED <<status, ppid, sig, waiters, alarms, dispose, calls, threw>>

\* Slip: no timer is set.
MutNotifyNoTimer ==
    /\ Top("notify")
    /\ waiters' = [waiters EXCEPT ![Head(stack).pid] = 0]
    /\ Return
    /\ UNCHANGED <<status, ppid, sig, timers, dispose, calls, threw>>

\* The tail of markExited: waiters get the status, the zombie timer is set.
Notify ==
    /\ Top("notify")
    /\ waiters' = [waiters EXCEPT ![Head(stack).pid] = 0]
    /\ zombie' = zombie \cup {Head(stack).pid}
    /\ Return
    /\ UNCHANGED <<status, ppid, sig, alarms, dispose, calls, threw>>

----------------------------------------------------------------------------

Init ==
    /\ status = [p \in Pids |-> "none"]
    /\ ppid = [p \in Pids |-> 0]
    /\ disp = [p \in Pids |-> [s \in Signals |-> "default"]]
    /\ blocked = [p \in Pids |-> {}]
    /\ pending = [p \in Pids |-> {}]
    /\ waiters = [p \in Pids |-> 0]
    /\ zombie = {} /\ alarms = {}
    /\ dispose = "no"
    /\ stack = <<>> /\ calls = 0
    /\ mask = [p \in Pids |-> {}]
    /\ threw = FALSE

\* A call in progress.
Running ==
    \/ DeliverUncatchable \/ Deliver
    \/ DispatchIgnored \/ DispatchDefault \/ DispatchCaught
    \/ HandlerReturns \/ HandlerThrows
    \/ PendingRound \/ DriverKill \/ DriverKillExits \/ Notify

Next ==
    \/ Running
    \/ TerminateAll \/ Escalate \/ Disposed
    \/ \E p \in Pids :
         \/ DriverExit(p) \/ Waitpid(p) \/ AlarmFires(p) \/ ZombieTimer(p)
         \/ \E parent \in Pids \cup {0} : Register(p, parent)
         \/ \E s \in Signals : Kill(p, s)
         \/ \E s \in Handled, d \in Dispositions : Sigaction(p, s, d)
         \/ \E set \in Masks : Sigprocmask(p, set)
         \/ \E on \in BOOLEAN : Alarm(p, on)

Spec == Init /\ [][Next]_vars

\* Calls in progress run to their end and timers fire.
FairSpec ==
    Spec /\ WF_vars(Running) /\ \A p \in Pids : WF_vars(ZombieTimer(p))

----------------------------------------------------------------------------

\* Each variable stays in its type; above all, sigprocmask never blocks SIGKILL
\* or SIGSTOP, and neither is ever left pending, sa_mask or not (deliverSignal).
TypeOK ==
    /\ status \in [Pids -> {"none", "running", "stopped", "exited", "reaped"}]
    /\ ppid \in [Pids -> Pids \cup {0}]
    /\ disp \in [Pids -> [Signals -> Dispositions]]
    /\ blocked \in [Pids -> SUBSET Signals]
    /\ pending \in [Pids -> SUBSET (Signals \ Uncatchable)]
    /\ waiters \in [Pids -> 0 .. MaxWaiters]
    /\ zombie \subseteq Pids /\ alarms \subseteq Pids
    /\ dispose \in {"no", "term", "kill", "done"}
    /\ \A i \in DOMAIN stack : stack[i].pid \in Pids
    /\ mask \in [Pids -> SUBSET (Signals \ Uncatchable)]
    /\ threw \in BOOLEAN

\* Once the calls in progress are done, no live process is left with a signal
\* that is pending although it is not blocked: nothing would deliver it any
\* more.  Holds through nested handlers; a handler that throws breaks it.
NoStuckPending ==
    (stack = <<>> /\ ~threw) =>
        \A p \in Pids : Live(p) => pending[p] \subseteq blocked[p]

\* Handlers nest and interleave across processes, yet once they are done every
\* process has the mask it last asked for, even when one of them threw.
MaskRestored == stack = <<>> => blocked = mask

\* A handler is not entered again for the signal it is running for, unless its
\* process unblocked that signal meanwhile: whatever other signals are caught
\* inside it, and whatever masks their handlers leave behind.
NoHandlerReentry ==
    \A i, j \in DOMAIN stack :
        (/\ i < j
         /\ stack[i].kind = "handler" /\ stack[j].kind = "handler"
         /\ stack[i].pid = stack[j].pid /\ stack[i].signal = stack[j].signal)
        => stack[j].touched

\* Nobody waits for a process that is gone: whoever is blocked in waitpid is
\* blocked on a live process, or markExited is about to resolve it.  Until a
\* handler throws: if that goes through markExited, its waiters are not told.
NoLostWaiter ==
    ~threw => \A p \in Pids : waiters[p] > 0 =>
        \/ Live(p)
        \/ \E i \in DOMAIN stack : stack[i].kind = "notify" /\ stack[i].pid = p

\* Zombies do not stay: an exited process is reaped, unless the kernel is
\* disposed or some handler threw (out of markExited, which then schedules no
\* reaping).
ZombiesReaped ==
    \A p \in Pids : status[p] = "exited" ~>
        (status[p] = "reaped" \/ dispose # "no" \/ threw)
=============================================================================
