----------------------------- MODULE V8Session -----------------------------
(***************************************************************************)
(* Sessions of the V8 runtime process and the client that drives them:     *)
(* native/v8-runtime/src/session.rs (manager, session threads, event       *)
(* loop), host_call.rs (bridge calls), timeout.rs (the time limit),        *)
(* main.rs (the connection handler) and packages/v8/src/runtime.ts.        *)
(*                                                                         *)
(* One connection.  Client and runtime exchange frames over a socket, so   *)
(* each direction is a FIFO.  In the runtime there are three kinds of      *)
(* threads: the connection handler, which owns the session manager; one    *)
(* thread per session; one timer thread per execution with a time limit.   *)
(* User code is a nondeterministic sequence of bridge calls.  An Execute   *)
(* frame stands for the InjectGlobals/Execute pair execute() writes.       *)
(***************************************************************************)
EXTENDS Integers, Sequences, FiniteSets

CONSTANTS Sessions,        \* session ids
          MaxConcurrency,  \* slots (SECURE_EXEC_V8_MAX_SESSIONS)
          Workloads        \* what a behaviour keeps to: the sessions opened, whether
                           \* they have a cpuTimeLimitMs, whether they may be destroyed
                           \* before the last result (terminate()), and as bounds the
                           \* execute() calls of each and the bridge calls and stream
                           \* events of all

ASSUME SlotsAssumption == MaxConcurrency \in Nat \ {0}
ASSUME WorkloadsAssumption ==
    Workloads \subseteq [opens : SUBSET Sessions, limit : BOOLEAN, early : BOOLEAN,
                         execs : Nat, calls : Nat, events : Nat]

VARIABLES
    opened,     \* client: sessions created
    destroyed,  \* client: sessions whose destroy() was called
    execs,      \* client: number of execute() calls of a session
    handler,    \* client: sessionHandlers, the execution awaited (0: none)
    settled,    \* client: the last execute() of a session whose promise settled
    handling,   \* client: bridge calls whose handler is running
    events,     \* stream events written so far
    wire,       \* frames from the client to the runtime
    back,       \* frames from the runtime to the client
    proc,       \* the runtime process: "up", "dead", or "seen" dead by the client
    conn,       \* handle_connection: "reading", or the session it joins
    sessions,   \* SessionManager.sessions: registered session ids
    slots,      \* slot_control: slots taken
    at,         \* where a session's thread is
    chan,       \* a session's command channel
    pending,    \* PendingPromises: async calls not answered
    deferred,   \* frames a sync call read that were not its answer
    batch,      \* frames of deferred being dispatched
    run,        \* the execution in progress: a record, see NoRun
    timer,      \* TimeoutGuard of the execution in progress
    doomed,     \* terminate_execution was requested on the isolate
    load,       \* the workload
    calls,      \* every bridge call made: its session and execution
    routed      \* call_id_router: calls whose answer has not come in

client == <<opened, destroyed, execs, handler, settled, handling, events>>
thread == <<at, chan, pending, deferred, batch, run, timer, doomed>>
runtime == <<proc, conn, sessions, slots, thread, calls, routed>>
outside == <<client, wire, back, proc, conn, sessions, slots, load, calls, routed>>
vars == <<client, wire, back, proc, conn, sessions, slots, thread, load, calls, routed>>

Frame(type, s, n) == [type |-> type, s |-> s, n |-> n]
Shutdown(s) == Frame("shutdown", s, 0)

(* n: which execution; mode "run" is an ES module; pass 2 is the call of   *)
(* _waitForActiveHandles; ret: where user code returns to; throws: an      *)
(* exception it raises ends the event loop; waits: the module's or script's*)
(* promise is pending; call: the sync call blocked in; error, stopped: how *)
(* the execution went; verdict: its result.  For the properties only: cut, *)
(* the time limit interrupted it; stale, it began on a doomed isolate.     *)
NoRun == [n |-> 0, mode |-> "exec", pass |-> 1, ret |-> "main", throws |-> TRUE,
          waits |-> FALSE, call |-> 0, error |-> FALSE, stopped |-> FALSE,
          verdict |-> "none", cut |-> FALSE, stale |-> FALSE]

All(x) == [s \in Sessions |-> x]

Init ==
    /\ opened = {} /\ destroyed = {} /\ handling = {} /\ events = 0
    /\ execs = All(0) /\ handler = All(0) /\ settled = All(0)
    /\ wire = << >> /\ back = << >> /\ proc = "up"
    /\ conn = "reading" /\ sessions = {} /\ slots = 0
    /\ at = All("none") /\ chan = All(<< >>) /\ pending = All({}) /\ deferred = All(<< >>)
    /\ batch = All(<< >>) /\ run = All(NoRun) /\ timer = All("off") /\ doomed = All(FALSE)
    /\ load \in Workloads /\ calls = << >> /\ routed = {}

------------------------------------------------------------------------------
(* The client: packages/v8/src/runtime.ts                                  *)

alive == proc = "up"

(* client.send: once the process is gone nobody reads it.                  *)
Written(f) == IF alive THEN Append(wire, f) ELSE wire

CreateSession(s) ==
    /\ proc # "seen" /\ s \in load.opens \ opened
    /\ opened' = opened \cup {s}
    /\ wire' = Written(Frame("create", s, 0))
    /\ UNCHANGED <<destroyed, execs, handler, settled, handling, events, runtime, back, load>>

Execute(s) ==
    /\ proc # "seen" /\ s \in opened \ destroyed /\ handler[s] = 0 /\ execs[s] < load.execs
    /\ execs' = [execs EXCEPT ![s] = @ + 1]
    /\ handler' = [handler EXCEPT ![s] = execs'[s]]
    /\ wire' = Written(Frame("execute", s, execs'[s]))
    /\ UNCHANGED <<opened, destroyed, settled, handling, events, runtime, back, load>>

SendStreamEvent(s) ==
    /\ proc # "seen" /\ s \in opened \ destroyed /\ events < load.events
    /\ events' = events + 1
    /\ wire' = Written(Frame("stream", s, 0))
    /\ UNCHANGED <<opened, destroyed, execs, handler, settled, handling, runtime, back, load>>

Served(s) == execs[s] = load.execs /\ handler[s] = 0

(* An execution in flight loses its handler and its reject: its promise    *)
(* is neither resolved nor rejected.                                       *)
DestroySession(s) ==
    /\ proc # "seen" /\ s \in opened \ destroyed /\ (load.early \/ Served(s))
    /\ destroyed' = destroyed \cup {s}
    /\ handler' = [handler EXCEPT ![s] = 0]
    /\ wire' = Written(Frame("destroy", s, 0))
    /\ UNCHANGED <<opened, execs, settled, handling, events, runtime, back, load>>

Settle(s) == IF handler[s] = 0 THEN settled[s] ELSE handler[s]

(* onMessage: a frame for a session without a handler is dropped.          *)
OnMessage ==
    /\ back # << >>
    /\ back' = Tail(back)
    /\ LET f == Head(back) IN
         /\ handling' = IF f.type = "call" /\ handler[f.s] # 0
                        THEN handling \cup {f.n} ELSE handling
         /\ handler' = IF f.type = "result" THEN [handler EXCEPT ![f.s] = 0] ELSE handler
         /\ settled' = IF f.type = "result" THEN [settled EXCEPT ![f.s] = Settle(f.s)]
                       ELSE settled
    /\ UNCHANGED <<opened, destroyed, execs, events, wire, proc, conn, sessions, slots,
                   thread, load, calls, routed>>

HandlerReturns(c) ==
    /\ c \in handling
    /\ handling' = handling \ {c}
    /\ wire' = Written(Frame("response", calls[c].s, c))
    /\ UNCHANGED <<opened, destroyed, execs, handler, settled, events, runtime, back, load>>

(* The process dies, out of memory or killed; its threads go with it and   *)
(* nobody reads what the client wrote.                                     *)
RuntimeExits ==
    /\ alive /\ proc' = "dead"
    /\ wire' = << >> /\ conn' = "reading" /\ sessions' = {} /\ slots' = 0 /\ routed' = {}
    /\ at' = All("none") /\ chan' = All(<< >>) /\ pending' = All({}) /\ deferred' = All(<< >>)
    /\ batch' = All(<< >>) /\ run' = All(NoRun) /\ timer' = All("off") /\ doomed' = All(FALSE)
    /\ UNCHANGED <<client, back, load, calls>>

(* rejectPendingSessions: every awaited execution gets a crash result.     *)
OnExit ==
    /\ proc = "dead" /\ proc' = "seen"
    /\ handler' = All(0) /\ settled' = [s \in Sessions |-> Settle(s)]
    /\ UNCHANGED <<opened, destroyed, execs, handling, events, wire, back, conn, sessions,
                   slots, thread, load, calls, routed>>

------------------------------------------------------------------------------
(* The connection handler: main.rs, with the SessionManager it locks       *)

NextFrame(type) == alive /\ conn = "reading" /\ wire # << >> /\ Head(wire).type = type

ConnCreates ==
    /\ NextFrame("create")
    /\ wire' = Tail(wire)
    /\ sessions' = sessions \cup {Head(wire).s}
    /\ at' = [at EXCEPT ![Head(wire).s] = "queued"]
    /\ UNCHANGED <<client, back, proc, conn, slots, chan, pending, deferred, batch,
                   run, timer, doomed, load, calls, routed>>

(* Shutdown is sent, the only sender dropped, and the thread joined.       *)
ConnDestroys ==
    /\ NextFrame("destroy")
    /\ wire' = Tail(wire)
    /\ LET s == Head(wire).s IN
         /\ chan' = [chan EXCEPT ![s] = Append(@, Shutdown(s))]
         /\ sessions' = sessions \ {s}
         /\ conn' = s
    /\ UNCHANGED <<client, back, proc, slots, at, pending, deferred, batch, run, timer,
                   doomed, load, calls, routed>>

ConnJoins ==
    /\ alive /\ conn \in Sessions /\ at[conn] = "done"
    /\ conn' = "reading"
    /\ UNCHANGED <<client, wire, back, proc, sessions, slots, thread, load, calls,
                   routed>>

(* send_to_session                                                         *)
Sent(f) == IF f.s \in sessions THEN [chan EXCEPT ![f.s] = Append(@, f)] ELSE chan

ConnRoutesResponse ==
    /\ NextFrame("response")
    /\ wire' = Tail(wire)
    /\ routed' = routed \ {Head(wire).n}
    /\ chan' = IF Head(wire).n \in routed THEN Sent(Head(wire)) ELSE chan
    /\ UNCHANGED <<client, back, proc, conn, sessions, slots, at, pending, deferred,
                   batch, run, timer, doomed, load, calls>>

ConnForwards ==
    /\ NextFrame("execute") \/ NextFrame("stream")
    /\ wire' = Tail(wire)
    /\ chan' = Sent(Head(wire))
    /\ UNCHANGED <<client, back, proc, conn, sessions, slots, at, pending, deferred,
                   batch, run, timer, doomed, load, calls, routed>>

------------------------------------------------------------------------------
(* A session thread: session_thread and run_event_loop in session.rs       *)

\* Slip: the capacity test is off by one.
MutAcquireSlot(s) ==
    /\ alive /\ at[s] = "queued" /\ slots <= MaxConcurrency
    /\ slots' = slots + 1
    /\ at' = [at EXCEPT ![s] = "idle"]
    /\ UNCHANGED <<client, wire, back, proc, conn, sessions, chan, pending, deferred,
                   batch, run, timer, doomed, load, calls, routed>>

(* A new thread waits until a slot is free.                                *)
AcquireSlot(s) ==
    /\ alive /\ at[s] = "queued" /\ slots < MaxConcurrency
    /\ slots' = slots + 1
    /\ at' = [at EXCEPT ![s] = "idle"]
    /\ UNCHANGED <<client, wire, back, proc, conn, sessions, chan, pending, deferred,
                   batch, run, timer, doomed, load, calls, routed>>

Heard(s, type) == chan[s] # << >> /\ Head(chan[s]).type = type
Closed(s) == chan[s] = << >> /\ s \notin sessions

(* The thread ends: isolate and channel dropped, slot released.            *)
Stop(s) ==
    /\ alive /\ at[s] = "idle" /\ (Heard(s, "shutdown") \/ Closed(s))
    /\ at' = [at EXCEPT ![s] = "done"]
    /\ slots' = slots - 1
    /\ chan' = [chan EXCEPT ![s] = << >>]
    /\ pending' = [pending EXCEPT ![s] = {}]
    /\ doomed' = [doomed EXCEPT ![s] = FALSE]
    /\ UNCHANGED <<client, wire, back, proc, conn, sessions, deferred, batch, run,
                   timer, load, calls, routed>>

StartExecution(s, mode) ==
    /\ alive /\ at[s] = "idle" /\ Heard(s, "execute")
    /\ chan' = [chan EXCEPT ![s] = Tail(@)]
    /\ at' = [at EXCEPT ![s] = "js"]
    /\ run' = [run EXCEPT ![s] = [NoRun EXCEPT !.n = Head(chan[s]).n, !.mode = mode,
                                               !.stale = doomed[s]]]
    /\ timer' = [timer EXCEPT ![s] = IF load.limit THEN "armed" ELSE "off"]
    /\ UNCHANGED <<outside, pending, deferred, batch, doomed>>

\* Slip: "continue" without sending the result.
MutInitScriptFails(s) ==
    /\ alive /\ at[s] = "idle" /\ Heard(s, "execute")
    /\ chan' = [chan EXCEPT ![s] = Tail(@)]
    /\ UNCHANGED <<outside, at, pending, deferred, batch, run, timer, doomed>>

(* run_init_script fails: the result is sent before a timer is started.    *)
InitScriptFails(s) ==
    /\ alive /\ at[s] = "idle" /\ Heard(s, "execute")
    /\ chan' = [chan EXCEPT ![s] = Tail(@)]
    /\ doomed' = [doomed EXCEPT ![s] = FALSE]
    /\ back' = Append(back, Frame("result", s, Head(chan[s]).n))
    /\ UNCHANGED <<client, wire, proc, conn, sessions, slots, at, pending, deferred,
                   batch, run, timer, load, calls, routed>>

(* Answers and stream events that reach an idle session are dropped.       *)
IgnoreFrame(s) ==
    /\ alive /\ at[s] = "idle" /\ (Heard(s, "response") \/ Heard(s, "stream"))
    /\ chan' = [chan EXCEPT ![s] = Tail(@)]
    /\ UNCHANGED <<outside, at, pending, deferred, batch, run, timer, doomed>>

------------------------------------------------------------------------------
(* User code: host_call.rs and bridge.rs are what it can do                *)

Call(s) ==
    /\ alive /\ at[s] = "js" /\ Len(calls) < load.calls
    /\ calls' = Append(calls, [s |-> s, n |-> run[s].n])
    /\ routed' = routed \cup {Len(calls')}
    /\ back' = Append(back, Frame("call", s, Len(calls')))

CallSync(s) ==
    /\ Call(s)
    /\ at' = [at EXCEPT ![s] = "sync"]
    /\ run' = [run EXCEPT ![s].call = Len(calls')]
    /\ UNCHANGED <<client, wire, proc, conn, sessions, slots, chan, pending, deferred,
                   batch, timer, doomed, load>>

CallAsync(s) ==
    /\ Call(s)
    /\ pending' = [pending EXCEPT ![s] = @ \cup {Len(calls')}]
    /\ UNCHANGED <<client, wire, proc, conn, sessions, slots, at, chan, deferred,
                   batch, run, timer, doomed, load>>

\* Slip: frames that are not the awaited answer are discarded.
MutKeep(s, f) == deferred

(* recv_response: what a blocked sync call does with the next command.     *)
Keep(s, f) == [deferred EXCEPT ![s] = Append(@, f)]

SyncReceives(s) ==
    /\ alive /\ at[s] = "sync" /\ chan[s] # << >> /\ ~Heard(s, "shutdown")
    /\ chan' = [chan EXCEPT ![s] = Tail(@)]
    /\ LET f == Head(chan[s])
           answer == f.type = "response" /\ f.n = run[s].call
       IN /\ at' = IF answer THEN [at EXCEPT ![s] = "js"] ELSE at
          /\ run' = IF answer THEN [run EXCEPT ![s].call = 0] ELSE run
          /\ deferred' = IF answer THEN deferred ELSE Keep(s, f)
    /\ UNCHANGED <<outside, pending, batch, timer, doomed>>

\* Slip: the wait for an answer does not select on the abort channel.
MutSyncFails(s) ==
    /\ alive /\ at[s] = "sync" /\ (Heard(s, "shutdown") \/ Closed(s))
    /\ at' = [at EXCEPT ![s] = "js"]
    /\ run' = [run EXCEPT ![s].call = 0]
    /\ chan' = [chan EXCEPT ![s] = << >>]
    /\ UNCHANGED <<outside, pending, deferred, batch, timer, doomed>>

(* Shutdown (consumed), a closed channel or the time limit throws into     *)
(* user code, which may catch it.                                          *)
SyncFails(s) ==
    /\ alive /\ at[s] = "sync"
    /\ at' = [at EXCEPT ![s] = "js"]
    /\ run' = [run EXCEPT ![s].call = 0]
    /\ \/ Heard(s, "shutdown") /\ chan' = [chan EXCEPT ![s] = Tail(@)]
       \/ (Closed(s) \/ timer[s] = "dropped") /\ chan' = chan
    /\ UNCHANGED <<outside, pending, deferred, batch, timer, doomed>>

------------------------------------------------------------------------------
(* The event loop                                                          *)

Quiet(s, r) == pending[s] = {} /\ ~r.waits
Idle(s, r) == Quiet(s, r) /\ deferred[s] = << >>

(* The loop is over, or was not needed: an ES module that went well has    *)
(* _waitForActiveHandles called once and the loop run again.               *)
Leave(s, r) ==
    LET again == r.mode = "run" /\ r.pass = 1 /\ ~r.error /\ ~r.stopped IN
    /\ at' = [at EXCEPT ![s] = IF again THEN "js" ELSE "check"]
    /\ run' = [run EXCEPT ![s] = IF again THEN [r EXCEPT !.pass = 2, !.ret = "main"] ELSE r]
    /\ batch' = [batch EXCEPT ![s] = << >>]

(* User code called by the thread itself returned: should_enter_event_loop.*)
Proceed(s, r) ==
    \/ Idle(s, r) /\ Leave(s, r)
    \/ /\ ~Idle(s, r)
       /\ at' = [at EXCEPT ![s] = "top"] /\ run' = [run EXCEPT ![s] = r]
       /\ UNCHANGED batch

(* User code returns, or throws.  What _waitForActiveHandles (pass 2) or   *)
(* the continuation of an answered call throws is not looked at.           *)
Returns(s) ==
    /\ alive /\ at[s] = "js"
    /\ LET r == run[s] IN
       \/ r.ret = "main" /\ \E w \in BOOLEAN : Proceed(s, [r EXCEPT !.waits = w])
       \/ r.ret = "main" /\ r.pass = 1 /\ Proceed(s, [r EXCEPT !.error = TRUE])
       \/ /\ r.ret # "main" /\ at' = [at EXCEPT ![s] = r.ret] /\ UNCHANGED batch
          /\ \E w \in {r.waits, FALSE} : run' = [run EXCEPT ![s].waits = w]
       \/ r.ret # "main" /\ r.throws /\ Leave(s, [r EXCEPT !.error = TRUE])
    /\ UNCHANGED <<outside, chan, pending, deferred, timer, doomed>>

(* V8 interrupts user code whose termination was requested.                *)
Interrupt(s) ==
    /\ alive /\ at[s] = "js" /\ doomed[s]
    /\ doomed' = [doomed EXCEPT ![s] = FALSE]
    /\ LET r == [run[s] EXCEPT !.cut = TRUE] IN
       \/ r.ret = "main" /\ Proceed(s, [r EXCEPT !.error = (r.pass = 1)])
       \/ /\ r.ret # "main" /\ ~r.throws /\ at' = [at EXCEPT ![s] = r.ret]
          /\ run' = [run EXCEPT ![s] = r] /\ UNCHANGED batch
       \/ r.ret # "main" /\ r.throws /\ Leave(s, [r EXCEPT !.error = TRUE])
    /\ UNCHANGED <<outside, chan, pending, deferred, timer>>

(* dispatch_event_loop_frame                                               *)
Dispatch(s, f, ret) ==
    LET enters == f.type = "stream" \/ (f.type = "response" /\ f.n \in pending[s]) IN
    /\ pending' = [pending EXCEPT ![s] = IF f.type = "response" THEN @ \ {f.n} ELSE @]
    /\ at' = [at EXCEPT ![s] = IF enters THEN "js" ELSE ret]
    /\ run' = [run EXCEPT ![s] = IF enters THEN [@ EXCEPT !.ret = ret, !.throws = (f.type = "stream")]
                                 ELSE @]

(* The test of the while loop, then the deferred frames are taken.         *)
LoopTop(s) ==
    /\ alive /\ at[s] = "top"
    /\ \/ Idle(s, run[s]) /\ Leave(s, run[s]) /\ UNCHANGED deferred
       \/ /\ ~Idle(s, run[s])
          /\ batch' = [batch EXCEPT ![s] = deferred[s]]
          /\ deferred' = [deferred EXCEPT ![s] = << >>]
          /\ at' = [at EXCEPT ![s] = "drain"] /\ UNCHANGED run
    /\ UNCHANGED <<outside, chan, pending, timer, doomed>>

LoopDispatches(s) ==
    /\ alive /\ at[s] \in {"drain", "poll"} /\ batch[s] # << >>
    /\ Dispatch(s, Head(batch[s]), at[s])
    /\ batch' = [batch EXCEPT ![s] = Tail(@)]
    /\ UNCHANGED <<outside, chan, deferred, timer, doomed>>

(* After the first batch the loop ends even if frames were deferred while  *)
(* it was dispatched; in the polling loop it does not.                     *)
LoopDrained(s) ==
    /\ alive /\ at[s] \in {"drain", "poll"} /\ batch[s] = << >>
    /\ \/ at[s] = "drain" /\ Quiet(s, run[s]) /\ Leave(s, run[s])
       \/ /\ at[s] = "poll" \/ ~Quiet(s, run[s])
          /\ at' = [at EXCEPT ![s] = "wait"] /\ UNCHANGED <<run, batch>>
    /\ UNCHANGED <<outside, chan, pending, deferred, timer, doomed>>

(* A disconnected channel is no event here: the loop keeps polling it.     *)
LoopReceives(s) ==
    /\ alive /\ at[s] = "wait" /\ chan[s] # << >>
    /\ chan' = [chan EXCEPT ![s] = Tail(@)]
    /\ \/ ~Heard(s, "shutdown") /\ Dispatch(s, Head(chan[s]), "top") /\ UNCHANGED batch
       \/ /\ Heard(s, "shutdown") /\ Leave(s, [run[s] EXCEPT !.stopped = TRUE])
          /\ UNCHANGED pending
    /\ UNCHANGED <<outside, deferred, timer, doomed>>

LoopAborts(s) ==
    /\ alive /\ at[s] = "wait" /\ timer[s] = "dropped"
    /\ doomed' = [doomed EXCEPT ![s] = TRUE]
    /\ Leave(s, [run[s] EXCEPT !.stopped = TRUE, !.cut = TRUE])
    /\ UNCHANGED <<outside, chan, pending, deferred, timer>>

LoopPolls(s) ==
    /\ alive /\ at[s] = "wait"
    /\ \/ /\ deferred[s] # << >>
          /\ batch' = [batch EXCEPT ![s] = deferred[s]]
          /\ deferred' = [deferred EXCEPT ![s] = << >>]
          /\ at' = [at EXCEPT ![s] = "poll"] /\ UNCHANGED run
       \/ Idle(s, run[s]) /\ Leave(s, run[s]) /\ UNCHANGED deferred
    /\ UNCHANGED <<outside, chan, pending, timer, doomed>>

------------------------------------------------------------------------------
(* The end of an execution, and its timer: timeout.rs                      *)

\* Slip: the flag is stored after the termination request.
Muttimed_out(s) == timer[s] = "dropped"

(* The flag the timer thread sets before it requests the termination.      *)
timed_out(s) == timer[s] \in {"fired", "requested", "dropped"}

CheckTimeout(s) ==
    /\ alive /\ at[s] = "check"
    /\ at' = [at EXCEPT ![s] = "cancel"]
    /\ run' = [run EXCEPT ![s].verdict = IF timed_out(s) THEN "timeout"
                                         ELSE IF run[s].stopped THEN "terminated"
                                         ELSE IF run[s].error THEN "failed" ELSE "ok"]
    /\ UNCHANGED <<outside, chan, pending, deferred, batch, timer, doomed>>

(* cancel() joins the timer thread: one that has fired ends first.  What   *)
(* is still deferred goes with the execution; pending promises stay.       *)
SendResult(s) ==
    /\ alive /\ at[s] = "cancel" /\ timer[s] \in {"off", "armed", "dropped"}
    /\ timer' = [timer EXCEPT ![s] = "off"]
    /\ back' = Append(back, Frame("result", s, run[s].n))
    /\ at' = [at EXCEPT ![s] = "idle"]
    /\ run' = [run EXCEPT ![s] = NoRun]
    /\ deferred' = [deferred EXCEPT ![s] = << >>]
    /\ UNCHANGED <<client, wire, proc, conn, sessions, slots, chan, pending, batch,
                   doomed, load, calls, routed>>

(* The timer thread: flag, terminate_execution, drop of the abort sender.  *)
TimerStep(s) ==
    /\ alive
    /\ \/ timer[s] = "armed" /\ timer' = [timer EXCEPT ![s] = "fired"] /\ UNCHANGED doomed
       \/ /\ timer[s] = "fired" /\ timer' = [timer EXCEPT ![s] = "requested"]
          /\ doomed' = [doomed EXCEPT ![s] = TRUE]
       \/ timer[s] = "requested" /\ timer' = [timer EXCEPT ![s] = "dropped"] /\ UNCHANGED doomed
    /\ UNCHANGED <<outside, at, chan, pending, deferred, batch, run>>

------------------------------------------------------------------------------
Client(s) == CreateSession(s) \/ Execute(s) \/ SendStreamEvent(s) \/ DestroySession(s)

Conn == ConnCreates \/ ConnDestroys \/ ConnJoins \/ ConnRoutesResponse \/ ConnForwards

Thread(s) ==
    \/ AcquireSlot(s) \/ Stop(s) \/ IgnoreFrame(s) \/ InitScriptFails(s)
    \/ \E mode \in {"exec", "run"} : StartExecution(s, mode)
    \/ SyncReceives(s) \/ SyncFails(s) \/ LoopTop(s) \/ LoopDispatches(s) \/ LoopDrained(s)
    \/ LoopReceives(s) \/ LoopAborts(s) \/ LoopPolls(s) \/ CheckTimeout(s) \/ SendResult(s)

UserCode(s) == CallSync(s) \/ CallAsync(s) \/ Returns(s) \/ Interrupt(s)

Next ==
    \/ OnMessage \/ RuntimeExits \/ OnExit \/ Conn
    \/ \E c \in handling : HandlerReturns(c)
    \/ \E s \in Sessions : Client(s) \/ Thread(s) \/ UserCode(s) \/ TimerStep(s)

Spec == Init /\ [][Next]_vars

(* Fairness.  Threads and promise continuations are scheduled; a timer     *)
(* fires; V8 honours a termination request; _waitForActiveHandles, which   *)
(* is bridge code, returns.  The execution driver runs a session it        *)
(* created and destroys it when the result is in.  Nothing is assumed of   *)
(* user code: it may loop for ever.                                        *)
Fairness ==
    /\ WF_vars(OnMessage) /\ WF_vars(OnExit) /\ WF_vars(Conn)
    /\ \A s \in Sessions :
          /\ WF_vars(Thread(s)) /\ WF_vars(TimerStep(s)) /\ WF_vars(Interrupt(s))
          /\ WF_vars(run[s].pass = 2 /\ run[s].ret = "main" /\ Returns(s))
          /\ WF_vars(Execute(s))
          /\ WF_vars(Served(s) /\ DestroySession(s))

FairSpec == Spec /\ Fairness

(* An assumption about user code, which no scheduler guarantees: the       *)
(* script or module may loop for ever, but the callbacks the event loop    *)
(* enters return.                                                          *)
CallbacksReturn == \A s \in Sessions : WF_vars(run[s].ret # "main" /\ Returns(s))

FairCallbacksSpec == FairSpec /\ CallbacksReturn

------------------------------------------------------------------------------
(* Properties                                                              *)

Holding == {s \in Sessions : at[s] \notin {"none", "queued", "done"}}

(* Types; and the slot counter counts the threads between acquisition and  *)
(* release and never exceeds max_concurrency (session.rs:286, 728).        *)
TypeOK ==
    /\ opened \subseteq Sessions /\ destroyed \subseteq opened /\ sessions \subseteq opened
    /\ routed \subseteq 1..Len(calls) /\ handling \subseteq 1..Len(calls)
    /\ \A s \in Sessions : handler[s] \in {0, execs[s]} /\ pending[s] \subseteq 1..Len(calls)
    /\ conn \in Sessions \cup {"reading"}
    /\ slots = Cardinality(Holding) /\ slots <= MaxConcurrency

Members(q) == {q[i] : i \in DOMAIN q}

(* The session thread waits for the answer to call c of its execution.     *)
Awaits(s, c) ==
    \/ at[s] = "sync" /\ run[s].call = c
    \/ at[s] \in {"js", "sync", "top", "drain", "wait", "poll"} /\ c \in pending[s]

(* Where a call, or its answer, is on its way.                             *)
OnItsWay(s, c) ==
    \/ Frame("call", s, c) \in Members(back)
    \/ c \in handling
    \/ /\ c \in routed /\ Frame("response", s, c) \in Members(wire)
    \/ Frame("response", s, c) \in Members(chan[s]) \cup Members(deferred[s]) \cup Members(batch[s])

(* A bridge call the running execution waits for, and whose host still     *)
(* listens, is on its way to the host or its answer on the way back: no    *)
(* answer is lost between the router, the channel, the sync call that read *)
(* it for another, and the loop (session.rs:1054, host_call.rs:217,        *)
(* main.rs:241).                                                           *)
AnswersArrive ==
    \A s \in sessions : \A c \in 1..Len(calls) :
        alive /\ handler[s] # 0 /\ calls[c].n = run[s].n /\ Awaits(s, c) => OnItsWay(s, c)

(* An execution the client awaits is in exactly one place: its frame on    *)
(* the way, its session thread running it, or its own result on the way    *)
(* back (runtime.ts:457, session.rs:475).                                  *)
ExecutionAccountedFor ==
    \A s \in Sessions : alive /\ handler[s] # 0 =>
        LET f == Frame("execute", s, handler[s]) IN
        Cardinality({p \in {"wire", "chan", "thread", "back"} :
            \/ p = "wire" /\ f \in Members(wire)
            \/ p = "chan" /\ f \in Members(chan[s])
            \/ p = "thread" /\ run[s].n = handler[s]
            \/ p = "back" /\ Frame("result", s, handler[s]) \in Members(back)}) = 1

(* An execution the time limit cut short is reported as timed out: the     *)
(* flag is stored before the termination it explains and read after it     *)
(* (timeout.rs:45, session.rs:661).  A termination left over from the      *)
(* previous execution of the session is not this execution's.              *)
TimeoutReported ==
    \A s \in Sessions :
        at[s] = "cancel" /\ run[s].cut /\ ~run[s].stale => run[s].verdict = "timeout"

(* The connection handler waits for a thread that waits for a slot.        *)
Wedged == conn \in Sessions /\ at[conn] = "queued"

(* destroy() was called while execute()'s promise was pending.             *)
Abandoned(s) == s \in destroyed /\ settled[s] < execs[s]

(* With a time limit, and as long as the callbacks the event loop enters   *)
(* return (CallbacksReturn; one that loops is TimeLimitEnforced's          *)
(* counterexample), the promise of every execute() settles, though the     *)
(* script or module may loop for ever and bridge handlers never answer.    *)
(* It does not in two cases: destroy() was called first, which drops it    *)
(* (runtime.ts:514), or the connection handler is for ever joining a       *)
(* session that is still queued for a slot (session.rs:286, 178).          *)
ExecuteSettles ==
    \A s \in Sessions :
        load.limit /\ settled[s] < execs[s]
            ~> (settled[s] = execs[s] \/ Abandoned(s) \/ []Wedged)

(* "WHEN a caller configures cpuTimeLimitMs and executes code that does    *)
(* not terminate THEN the runtime MUST interrupt execution once the        *)
(* configured budget is exhausted" (.agent/contracts/node-runtime.md:223): *)
(* an execution whose timer fired ends.                                    *)
TimeLimitEnforced == \A s \in Sessions : timer[s] = "fired" ~> timer[s] = "off"
==============================================================================
