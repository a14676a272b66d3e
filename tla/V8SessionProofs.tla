-------------------------- MODULE V8SessionProofs --------------------------
(***************************************************************************)
(* Proofs about V8Session, for any sessions, slots and workloads: the slot *)
(* counter is exact, a time limit is reported as such, an execution the    *)
(* client awaits is in exactly one place, and no answer to a bridge call   *)
(* is lost.                                                                *)
(***************************************************************************)
EXTENDS V8Session, FiniteSetTheorems, SequenceTheorems, TLAPS

----------------------------------------------------------------------------
(* Types *)

Kinds == {"create", "execute", "stream", "destroy", "response", "shutdown", "call", "result"}
Frames == [type : Kinds, s : Sessions, n : Nat]
Calls == [s : Sessions, n : Nat]
Verdicts == {"none", "timeout", "terminated", "failed", "ok"}
Runs == [n : Nat, mode : {"exec", "run"}, pass : 1 .. 2, ret : {"main", "top", "drain", "poll"},
         throws : BOOLEAN, waits : BOOLEAN, call : Nat, error : BOOLEAN, stopped : BOOLEAN,
         verdict : Verdicts, cut : BOOLEAN, stale : BOOLEAN]

\* Where a thread is while it runs an execution, and where else it can be.
Busy == {"js", "sync", "top", "drain", "wait", "poll", "check", "cancel"}
Points == Busy \cup {"none", "queued", "idle", "done"}
Timers == {"off", "armed", "fired", "requested", "dropped"}

ClientTypes ==
    /\ opened \subseteq Sessions /\ destroyed \subseteq opened
    /\ execs \in [Sessions -> Nat] /\ handler \in [Sessions -> Nat]
    /\ \A s \in Sessions : handler[s] \in {0, execs[s]}

ThreadTypes ==
    /\ at \in [Sessions -> Points] /\ run \in [Sessions -> Runs]
    /\ timer \in [Sessions -> Timers] /\ doomed \in [Sessions -> BOOLEAN]
    /\ chan \in [Sessions -> Seq(Frames)]
    /\ deferred \in [Sessions -> Seq(Frames)] /\ batch \in [Sessions -> Seq(Frames)]

\* The frames on the socket, and the bridge calls they are about.
WireTypes ==
    /\ wire \in Seq(Frames) /\ back \in Seq(Frames) /\ calls \in Seq(Calls)
    /\ routed \subseteq 1 .. Len(calls) /\ handling \subseteq 1 .. Len(calls)
    /\ \A i \in 1 .. Len(back) : back[i].type = "call" => /\ back[i].n \in 1 .. Len(calls)
                                                         /\ back[i].s = calls[back[i].n].s
    /\ pending \in [Sessions -> SUBSET (1 .. Len(calls))]
    /\ conn \in Sessions \cup {"reading"}

Types == ClientTypes /\ ThreadTypes /\ WireTypes

LEMMA FrameType ==
    ASSUME NEW t \in Kinds, NEW s \in Sessions, NEW n \in Nat
    PROVE  Frame(t, s, n) \in Frames /\ Frame(t, s, n).type = t /\ Frame(t, s, n).s = s
           /\ Frame(t, s, n).n = n
  BY DEF Frame, Frames

LEMMA NoRunType == NoRun \in Runs
  BY DEF NoRun, Runs, Verdicts

LEMMA ClientTypesKept ==
    ASSUME Types, NEW s \in Sessions, Client(s)
    PROVE  Types'
  <1>1. UNCHANGED <<runtime, back>>
    BY DEF Client, CreateSession, Execute, SendStreamEvent, DestroySession
  <1>2. UNCHANGED <<at, run, timer, doomed, chan, deferred, batch, calls, routed, pending, conn, back>>
    BY <1>1 DEF runtime, thread
  <1>3. handling' = handling
    BY DEF Client, CreateSession, Execute, SendStreamEvent, DestroySession
  <1>4. ClientTypes'
    BY DEF Types, ClientTypes, Client, CreateSession, Execute, SendStreamEvent, DestroySession
  <1>5. wire' \in Seq(Frames)
    <2>1. \A k \in Kinds, n \in Nat : Written(Frame(k, s, n)) \in Seq(Frames)
      BY FrameType DEF Written, Types, WireTypes
    <2>2. execs[s] + 1 \in Nat
      BY DEF Types, ClientTypes
    <2>3. execs'[s] \in Nat
      BY <1>4 DEF ClientTypes
    <2> QED
      BY <2>1, <2>3 DEF Client, CreateSession, Execute, SendStreamEvent, DestroySession, Kinds
  <1>6. ThreadTypes' /\ WireTypes'
    BY <1>2, <1>3, <1>5 DEF Types, ThreadTypes, WireTypes
  <1> QED
    BY <1>4, <1>6 DEF Types

LEMMA MessageTypesKept ==
    ASSUME Types, OnMessage \/ RuntimeExits \/ OnExit
    PROVE  Types'
  <1>1. CASE OnMessage
    <2>1. UNCHANGED <<opened, destroyed, execs, wire, conn, at, run, timer, doomed, chan,
                      deferred, batch, pending, calls, routed>>
      BY <1>1 DEF OnMessage, thread
    <2>2. back # <<>> /\ back' = Tail(back) /\ Head(back) = back[1] /\ Head(back) \in Frames
      BY <1>1 DEF OnMessage, Types, WireTypes
    <2>3. ClientTypes'
      BY <1>1, <2>1, <2>2 DEF OnMessage, Types, ClientTypes, Frames
    <2>4. back' \in Seq(Frames) /\ Len(back') = Len(back) - 1
          /\ \A i \in 1 .. Len(back') : back'[i] = back[i + 1] /\ i + 1 \in 1 .. Len(back)
      BY <2>2 DEF Types, WireTypes
    <2>5. handling' \subseteq 1 .. Len(calls)
      <3>1. 1 \in 1 .. Len(back)
        BY <2>2 DEF Types, WireTypes
      <3> QED
        BY <1>1, <2>2, <3>1 DEF OnMessage, Types, WireTypes
    <2>6. WireTypes'
      BY <2>1, <2>4, <2>5 DEF Types, WireTypes
    <2>7. ThreadTypes'
      BY <2>1 DEF Types, ThreadTypes
    <2> QED
      BY <2>3, <2>6, <2>7 DEF Types
  <1>2. CASE RuntimeExits
    <2>1. UNCHANGED <<opened, destroyed, execs, handler, handling, back, calls>>
      BY <1>2 DEF RuntimeExits, client
    <2>2. ClientTypes'
      BY <2>1 DEF Types, ClientTypes
    <2>3. ThreadTypes'
      BY <1>2, NoRunType DEF RuntimeExits, ThreadTypes, All, Points, Timers
    <2>4. WireTypes'
      BY <1>2, <2>1 DEF RuntimeExits, Types, WireTypes, All
    <2> QED
      BY <2>2, <2>3, <2>4 DEF Types
  <1>3. CASE OnExit
    <2>1. UNCHANGED <<opened, destroyed, execs, handling, wire, back, conn, at, run, timer, doomed,
                      chan, deferred, batch, pending, calls, routed>>
      BY <1>3 DEF OnExit, thread
    <2>2. ClientTypes'
      BY <1>3, <2>1 DEF OnExit, Types, ClientTypes, All
    <2>3. ThreadTypes' /\ WireTypes'
      BY <2>1 DEF Types, ThreadTypes, WireTypes
    <2> QED
      BY <2>2, <2>3 DEF Types
  <1> QED
    BY <1>1, <1>2, <1>3

LEMMA HandlerTypesKept ==
    ASSUME Types, NEW c \in handling, HandlerReturns(c)
    PROVE  Types'
  <1>1. UNCHANGED <<runtime, back, opened, destroyed, execs, handler>> /\ handling' \subseteq handling
    BY DEF HandlerReturns
  <1>2. UNCHANGED <<at, run, timer, doomed, chan, deferred, batch, calls, routed, pending, conn, back>>
    BY <1>1 DEF runtime, thread
  <1>3. c \in 1 .. Len(calls) /\ calls[c].s \in Sessions
    <2>1. c \in 1 .. Len(calls) /\ calls \in Seq(Calls)
      BY DEF Types, WireTypes
    <2>2. calls[c] \in Calls
      BY ONLY <2>1
    <2> QED
      BY <2>1, <2>2 DEF Calls
  <1>4. wire' \in Seq(Frames)
    <2>1. Frame("response", calls[c].s, c) \in Frames
      BY <1>3, FrameType DEF Kinds
    <2> QED
      BY <2>1 DEF HandlerReturns, Written, Types, WireTypes
  <1> QED
    BY <1>1, <1>2, <1>4 DEF Types, ClientTypes, ThreadTypes, WireTypes

LEMMA ConnTypesKept ==
    ASSUME Types, Conn
    PROVE  Types'
  <1>1. UNCHANGED <<opened, destroyed, execs, handler, handling, back, calls, pending, deferred,
                    batch, run, timer, doomed>>
    BY DEF Conn, ConnCreates, ConnDestroys, ConnJoins, ConnRoutesResponse, ConnForwards, client, thread
  <1>2. wire' = wire \/ (wire # <<>> /\ wire' = Tail(wire))
    BY DEF Conn, ConnCreates, ConnDestroys, ConnJoins, ConnRoutesResponse, ConnForwards, NextFrame
  <1>3. wire \in Seq(Frames) /\ (wire # <<>> => Head(wire) \in Frames /\ Head(wire).s \in Sessions)
    <2>1. wire \in Seq(Frames)
      BY DEF Types, WireTypes
    <2>2. wire # <<>> => Head(wire) \in Frames
      BY ONLY <2>1
    <2> QED
      BY <2>1, <2>2 DEF Frames
  <1>4. at' \in [Sessions -> Points]
    BY DEF Conn, ConnCreates, ConnDestroys, ConnJoins, ConnRoutesResponse, ConnForwards, thread,
           Types, ThreadTypes, Points
  <1>5. chan' \in [Sessions -> Seq(Frames)]
    <2>1. wire # <<>> => Sent(Head(wire)) \in [Sessions -> Seq(Frames)]
      BY <1>3 DEF Sent, Types, ThreadTypes
    <2>2. wire # <<>> => Shutdown(Head(wire).s) \in Frames
      BY <1>3, FrameType DEF Shutdown, Kinds
    <2>3. chan \in [Sessions -> Seq(Frames)]
      BY DEF Types, ThreadTypes
    <2>4. CASE ConnDestroys
      <3>1. wire # <<>> /\ chan' = [chan EXCEPT ![Head(wire).s] = Append(@, Shutdown(Head(wire).s))]
        BY <2>4 DEF ConnDestroys, NextFrame
      <3> QED
        BY ONLY <3>1, <2>2, <2>3, <1>3
    <2>5. CASE ~ConnDestroys
      <3>1. chan' = chan \/ (wire # <<>> /\ chan' = Sent(Head(wire)))
        BY <2>5 DEF Conn, ConnCreates, ConnJoins, ConnRoutesResponse, ConnForwards, NextFrame, thread
      <3> QED
        BY <3>1, <2>1, <2>3
    <2> QED
      BY <2>4, <2>5
  <1>6. routed' \subseteq routed /\ conn' \in Sessions \cup {"reading"}
    BY <1>3 DEF Conn, ConnCreates, ConnDestroys, ConnJoins, ConnRoutesResponse, ConnForwards, NextFrame,
           Types, WireTypes
  <1>7. wire' \in Seq(Frames)
    BY ONLY <1>2, <1>3
  <1> QED
    BY <1>1, <1>7, <1>4, <1>5, <1>6 DEF Types, ClientTypes, ThreadTypes, WireTypes

LEMMA QueueTypes ==
    ASSUME NEW q \in [Sessions -> Seq(Frames)], NEW s \in Sessions
    PROVE  /\ q[s] \in Seq(Frames)
           /\ q[s] # <<>> => /\ Head(q[s]) \in Frames
                             /\ [q EXCEPT ![s] = Tail(@)] \in [Sessions -> Seq(Frames)]
           /\ \A f \in Frames : [q EXCEPT ![s] = Append(@, f)] \in [Sessions -> Seq(Frames)]
           /\ \A w \in Seq(Frames) : [q EXCEPT ![s] = w] \in [Sessions -> Seq(Frames)]
  OBVIOUS

LEMMA RunUpdates ==
    ASSUME NEW r \in Runs
    PROVE  /\ [r EXCEPT !.pass = 2] \in Runs
           /\ \A x \in {"main", "top", "drain", "poll"} : [r EXCEPT !.ret = x] \in Runs
           /\ \A n \in Nat : [r EXCEPT !.n = n] \in Runs /\ [r EXCEPT !.call = n] \in Runs
           /\ \A x \in {"exec", "run"} : [r EXCEPT !.mode = x] \in Runs
           /\ \A v \in Verdicts : [r EXCEPT !.verdict = v] \in Runs
           /\ \A b \in BOOLEAN : /\ [r EXCEPT !.throws = b] \in Runs
                                /\ [r EXCEPT !.waits = b] \in Runs
                                /\ [r EXCEPT !.error = b] \in Runs
                                /\ [r EXCEPT !.stopped = b] \in Runs
                                /\ [r EXCEPT !.cut = b] \in Runs
                                /\ [r EXCEPT !.stale = b] \in Runs
  BY DEF Runs

LEMMA LeaveTypes ==
    ASSUME Types, NEW s \in Sessions, NEW r \in Runs, Leave(s, r)
    PROVE  /\ at' \in [Sessions -> Points] /\ run' \in [Sessions -> Runs]
           /\ batch' \in [Sessions -> Seq(Frames)]
  <1>1. [r EXCEPT !.pass = 2, !.ret = "main"] \in Runs
    BY RunUpdates
  <1> QED
    BY <1>1 DEF Leave, Types, ThreadTypes, Points, Busy

LEMMA ProceedTypes ==
    ASSUME Types, NEW s \in Sessions, NEW r \in Runs, Proceed(s, r)
    PROVE  /\ at' \in [Sessions -> Points] /\ run' \in [Sessions -> Runs]
           /\ batch' \in [Sessions -> Seq(Frames)]
  <1>1. CASE Leave(s, r)
    BY <1>1, LeaveTypes
  <1>2. CASE ~Leave(s, r)
    BY <1>2 DEF Proceed, Types, ThreadTypes, Points, Busy
  <1> QED
    BY <1>1, <1>2

LEMMA DispatchTypes ==
    ASSUME Types, NEW s \in Sessions, NEW f \in Frames, NEW ret \in {"top", "drain", "poll"},
           Dispatch(s, f, ret)
    PROVE  /\ at' \in [Sessions -> Points] /\ run' \in [Sessions -> Runs]
           /\ pending' \in [Sessions -> SUBSET (1 .. Len(calls))]
  <1>1. [run[s] EXCEPT !.ret = ret, !.throws = (f.type = "stream")] \in Runs /\ run[s] \in Runs
    <2>1. run[s] \in Runs /\ (f.type = "stream") \in BOOLEAN
      BY DEF Types, ThreadTypes
    <2> QED
      BY ONLY <2>1, RunUpdates
  <1>2. at' \in [Sessions -> Points] /\ run' \in [Sessions -> Runs]
    BY <1>1 DEF Dispatch, Types, ThreadTypes, Points, Busy
  <1>3. pending' \in [Sessions -> SUBSET (1 .. Len(calls))]
    BY DEF Dispatch, Types, WireTypes
  <1> QED
    BY <1>2, <1>3

LEMMA InsideTypes ==
    ASSUME Types, UNCHANGED outside, ThreadTypes', pending' \in [Sessions -> SUBSET (1 .. Len(calls))]
    PROVE  Types'
  BY DEF Types, ClientTypes, WireTypes, outside, client

LEMMA IdleTypesKept ==
    ASSUME Types, NEW s \in Sessions,
           \/ AcquireSlot(s) \/ Stop(s) \/ IgnoreFrame(s) \/ InitScriptFails(s)
           \/ \E mode \in {"exec", "run"} : StartExecution(s, mode)
    PROVE  Types'
  <1>1. chan \in [Sessions -> Seq(Frames)]
    BY DEF Types, ThreadTypes
  <1>2. CASE AcquireSlot(s)
    BY <1>2 DEF AcquireSlot, Types, ClientTypes, ThreadTypes, WireTypes, Points, client
  <1>3. CASE Stop(s)
    <2>1. chan' \in [Sessions -> Seq(Frames)]
      BY <1>1, <1>3, QueueTypes DEF Stop
    <2> QED
      BY <1>3, <2>1 DEF Stop, Types, ClientTypes, ThreadTypes, WireTypes, Points, client
  <1>4. CASE IgnoreFrame(s)
    <2>1. chan' \in [Sessions -> Seq(Frames)]
      BY <1>1, <1>4, QueueTypes DEF IgnoreFrame, Heard
    <2>2. ThreadTypes' /\ pending' = pending
      BY <1>4, <2>1 DEF IgnoreFrame, Types, ThreadTypes
    <2> QED
      BY <1>4, <2>2, InsideTypes DEF IgnoreFrame, Types, WireTypes
  <1>5. CASE InitScriptFails(s)
    <2>1. Head(chan[s]) \in Frames /\ chan' \in [Sessions -> Seq(Frames)]
      BY <1>1, <1>5, QueueTypes DEF InitScriptFails, Heard
    <2>2. ThreadTypes'
      BY <1>5, <2>1 DEF InitScriptFails, Types, ThreadTypes
    <2>3. Frame("result", s, Head(chan[s]).n) \in Frames
          /\ Frame("result", s, Head(chan[s]).n).type = "result"
      <3>1. Head(chan[s]).n \in Nat
        BY <2>1 DEF Frames
      <3> QED
        BY <3>1, FrameType DEF Kinds
    <2>4. back \in Seq(Frames) /\ back' = Append(back, Frame("result", s, Head(chan[s]).n))
      BY <1>5 DEF InitScriptFails, Types, WireTypes
    <2>5. /\ back' \in Seq(Frames)
          /\ \A i \in 1 .. Len(back') : (i \in 1 .. Len(back) /\ back'[i] = back[i]) \/ back'[i].type = "result"
      BY ONLY <2>3, <2>4
    <2>6. WireTypes'
      BY <1>5, <2>5 DEF InitScriptFails, Types, WireTypes, client
    <2>7. ClientTypes'
      BY <1>5 DEF InitScriptFails, Types, ClientTypes, client
    <2> QED
      BY <2>2, <2>6, <2>7 DEF Types
  <1>6. ASSUME NEW mode \in {"exec", "run"}, StartExecution(s, mode)
        PROVE  Types'
    <2>1. Head(chan[s]) \in Frames /\ chan' \in [Sessions -> Seq(Frames)]
      BY <1>1, <1>6, QueueTypes DEF StartExecution, Heard
    <2>2. [NoRun EXCEPT !.n = Head(chan[s]).n, !.mode = mode, !.stale = doomed[s]] \in Runs
      <3>1. Head(chan[s]).n \in Nat /\ doomed[s] \in BOOLEAN
        BY <2>1 DEF Frames, Types, ThreadTypes
      <3> QED
        BY ONLY <3>1, mode \in {"exec", "run"}, NoRunType, RunUpdates
    <2>3. ThreadTypes' /\ pending' = pending
      BY <1>6, <2>1, <2>2 DEF StartExecution, Types, ThreadTypes, Points, Busy, Timers
    <2> QED
      BY <1>6, <2>3, InsideTypes DEF StartExecution, Types, WireTypes
  <1> QED
    BY <1>2, <1>3, <1>4, <1>5, <1>6

LEMMA SyncTypesKept ==
    ASSUME Types, NEW s \in Sessions, SyncReceives(s) \/ SyncFails(s)
    PROVE  Types'
  <1>1. chan \in [Sessions -> Seq(Frames)] /\ deferred \in [Sessions -> Seq(Frames)]
    BY DEF Types, ThreadTypes
  <1>2. UNCHANGED <<outside, pending, batch, timer, doomed>>
    BY DEF SyncReceives, SyncFails
  <1>3. run' \in [Sessions -> Runs]
    <2>1. [run[s] EXCEPT !.call = 0] \in Runs
      BY RunUpdates DEF Types, ThreadTypes
    <2> QED
      BY <2>1 DEF SyncReceives, SyncFails, Types, ThreadTypes
  <1>4. at' \in [Sessions -> Points]
    BY DEF SyncReceives, SyncFails, Types, ThreadTypes, Points, Busy
  <1>5. chan' \in [Sessions -> Seq(Frames)]
    BY <1>1, QueueTypes DEF SyncReceives, SyncFails, Heard
  <1>6. deferred' \in [Sessions -> Seq(Frames)]
    <2>1. chan[s] # <<>> => Keep(s, Head(chan[s])) \in [Sessions -> Seq(Frames)]
      BY <1>1, QueueTypes DEF Keep
    <2> QED
      BY <1>1, <2>1 DEF SyncReceives, SyncFails
  <1>7. ThreadTypes'
    BY <1>2, <1>3, <1>4, <1>5, <1>6 DEF Types, ThreadTypes
  <1> QED
    BY <1>2, <1>7, InsideTypes DEF Types, WireTypes

LEMMA LoopTypesKept ==
    ASSUME Types, NEW s \in Sessions,
           \/ LoopTop(s) \/ LoopDispatches(s) \/ LoopDrained(s)
           \/ LoopReceives(s) \/ LoopAborts(s) \/ LoopPolls(s)
    PROVE  Types'
  <1>1. /\ chan \in [Sessions -> Seq(Frames)] /\ deferred \in [Sessions -> Seq(Frames)]
        /\ batch \in [Sessions -> Seq(Frames)] /\ run[s] \in Runs
        /\ pending \in [Sessions -> SUBSET (1 .. Len(calls))]
    BY DEF Types, ThreadTypes, WireTypes
  <1>2. UNCHANGED <<outside, timer>> /\ doomed' \in [Sessions -> BOOLEAN]
    BY DEF LoopTop, LoopDispatches, LoopDrained, LoopReceives, LoopAborts, LoopPolls, Types, ThreadTypes
  <1> SUFFICES /\ at' \in [Sessions -> Points] /\ run' \in [Sessions -> Runs]
               /\ batch' \in [Sessions -> Seq(Frames)] /\ chan' \in [Sessions -> Seq(Frames)]
               /\ deferred' \in [Sessions -> Seq(Frames)]
               /\ pending' \in [Sessions -> SUBSET (1 .. Len(calls))]
    BY <1>2, InsideTypes DEF Types, ThreadTypes
  <1>3. /\ at \in [Sessions -> Points] /\ run \in [Sessions -> Runs]
    BY DEF Types, ThreadTypes
  <1>4. CASE LoopTop(s)
    <2>1. CASE Leave(s, run[s]) /\ UNCHANGED deferred
      BY <1>1, <1>4, <2>1, LeaveTypes DEF LoopTop
    <2>2. CASE ~(Leave(s, run[s]) /\ UNCHANGED deferred)
      <3>1. /\ batch' = [batch EXCEPT ![s] = deferred[s]] /\ deferred' = [deferred EXCEPT ![s] = <<>>]
            /\ at' = [at EXCEPT ![s] = "drain"] /\ UNCHANGED <<run, chan, pending>>
        BY <1>4, <2>2 DEF LoopTop
      <3>2. deferred[s] \in Seq(Frames) /\ "drain" \in Points
        BY <1>1 DEF Points, Busy
      <3> QED
        BY ONLY <1>1, <1>3, <3>1, <3>2
    <2> QED
      BY <2>1, <2>2
  <1>5. CASE LoopDispatches(s)
    <2>1. Head(batch[s]) \in Frames /\ batch' \in [Sessions -> Seq(Frames)]
      BY <1>1, <1>5, QueueTypes DEF LoopDispatches
    <2> QED
      BY <1>1, <1>5, <2>1, DispatchTypes DEF LoopDispatches
  <1>6. CASE LoopDrained(s)
    <2>1. CASE Leave(s, run[s])
      BY <1>1, <1>6, <2>1, LeaveTypes DEF LoopDrained
    <2>2. CASE ~Leave(s, run[s])
      BY <1>1, <1>3, <1>6, <2>2 DEF LoopDrained, Points, Busy
    <2> QED
      BY <2>1, <2>2
  <1>7. CASE LoopReceives(s)
    <2>1. Head(chan[s]) \in Frames /\ chan' \in [Sessions -> Seq(Frames)]
      BY <1>1, <1>7, QueueTypes DEF LoopReceives
    <2>2. CASE Dispatch(s, Head(chan[s]), "top") /\ UNCHANGED batch
      BY <1>1, <1>7, <2>1, <2>2, DispatchTypes DEF LoopReceives
    <2>3. CASE ~(Dispatch(s, Head(chan[s]), "top") /\ UNCHANGED batch)
      <3>1. [run[s] EXCEPT !.stopped = TRUE] \in Runs
        BY <1>1, RunUpdates
      <3> QED
        BY <1>1, <1>7, <2>1, <2>3, <3>1, LeaveTypes DEF LoopReceives
    <2> QED
      BY <2>2, <2>3
  <1>8. CASE LoopAborts(s)
    <2>1. [run[s] EXCEPT !.stopped = TRUE, !.cut = TRUE] \in Runs
      BY <1>1, RunUpdates
    <2> QED
      BY <1>1, <1>8, <2>1, LeaveTypes DEF LoopAborts
  <1>9. CASE LoopPolls(s)
    <2>1. CASE Leave(s, run[s]) /\ UNCHANGED deferred
      BY <1>1, <1>9, <2>1, LeaveTypes DEF LoopPolls
    <2>2. CASE ~(Leave(s, run[s]) /\ UNCHANGED deferred)
      <3>1. /\ batch' = [batch EXCEPT ![s] = deferred[s]] /\ deferred' = [deferred EXCEPT ![s] = <<>>]
            /\ at' = [at EXCEPT ![s] = "poll"] /\ UNCHANGED <<run, chan, pending>>
        BY <1>9, <2>2 DEF LoopPolls
      <3>2. deferred[s] \in Seq(Frames) /\ "poll" \in Points
        BY <1>1 DEF Points, Busy
      <3> QED
        BY ONLY <1>1, <1>3, <3>1, <3>2
    <2> QED
      BY <2>1, <2>2
  <1> QED
    BY <1>4, <1>5, <1>6, <1>7, <1>8, <1>9

LEMMA EndTypesKept ==
    ASSUME Types, NEW s \in Sessions, CheckTimeout(s) \/ SendResult(s) \/ TimerStep(s)
    PROVE  Types'
  <1>1. run[s] \in Runs
    BY DEF Types, ThreadTypes
  <1>2. CASE CheckTimeout(s)
    <2>1. \A v \in Verdicts : [run[s] EXCEPT !.verdict = v] \in Runs
      BY <1>1, RunUpdates
    <2>2. ThreadTypes' /\ pending' = pending
      BY <1>2, <2>1 DEF CheckTimeout, Types, ThreadTypes, Points, Busy, Verdicts
    <2> QED
      BY <1>2, <2>2, InsideTypes DEF CheckTimeout, Types, WireTypes
  <1>3. CASE SendResult(s)
    <2>1. ThreadTypes' /\ ClientTypes'
      <3>1. deferred' \in [Sessions -> Seq(Frames)]
        BY <1>3, QueueTypes DEF SendResult, Types, ThreadTypes
      <3> QED
        BY <1>3, <3>1, NoRunType DEF SendResult, Types, ThreadTypes, ClientTypes, Points, Timers, client
    <2>2. Frame("result", s, run[s].n) \in Frames /\ Frame("result", s, run[s].n).type = "result"
      <3>1. run[s].n \in Nat
        BY <1>1 DEF Runs
      <3> QED
        BY <3>1, FrameType DEF Kinds
    <2>3. back \in Seq(Frames) /\ back' = Append(back, Frame("result", s, run[s].n))
      BY <1>3 DEF SendResult, Types, WireTypes
    <2>4. /\ back' \in Seq(Frames)
          /\ \A i \in 1 .. Len(back') : (i \in 1 .. Len(back) /\ back'[i] = back[i]) \/ back'[i].type = "result"
      BY ONLY <2>2, <2>3
    <2>5. WireTypes'
      BY <1>3, <2>4 DEF SendResult, Types, WireTypes, client
    <2> QED
      BY <2>1, <2>5 DEF Types
  <1>4. CASE TimerStep(s)
    <2>1. ThreadTypes' /\ pending' = pending
      BY <1>4 DEF TimerStep, Types, ThreadTypes, Timers
    <2> QED
      BY <1>4, <2>1, InsideTypes DEF TimerStep, Types, WireTypes
  <1> QED
    BY <1>2, <1>3, <1>4

LEMMA UserTypesKept ==
    ASSUME Types, NEW s \in Sessions, UserCode(s)
    PROVE  Types'
  <1>1. run[s] \in Runs
    BY DEF Types, ThreadTypes
  <1>2. CASE Call(s) /\ (CallSync(s) \/ CallAsync(s))
    <2>1. [s |-> s, n |-> run[s].n] \in Calls
      BY <1>1 DEF Runs, Calls
    <2>2. calls \in Seq(Calls) /\ calls' = Append(calls, [s |-> s, n |-> run[s].n])
      BY <1>2 DEF Call, Types, WireTypes
    <2>3. /\ calls' \in Seq(Calls) /\ Len(calls') = Len(calls) + 1 /\ Len(calls') \in Nat
          /\ \A c \in 1 .. Len(calls) : calls'[c] = calls[c]
          /\ calls'[Len(calls')] = [s |-> s, n |-> run[s].n]
          /\ Len(calls) \in Nat
      BY ONLY <2>1, <2>2
    <2>4. /\ Frame("call", s, Len(calls')) \in Frames
          /\ Frame("call", s, Len(calls')).s = s /\ Frame("call", s, Len(calls')).n = Len(calls')
      BY <2>3, FrameType DEF Kinds
    <2>5. back \in Seq(Frames) /\ back' = Append(back, Frame("call", s, Len(calls')))
      BY <1>2 DEF Call, Types, WireTypes
    <2>6. /\ back' \in Seq(Frames)
          /\ \A i \in 1 .. Len(back') : \/ i \in 1 .. Len(back) /\ back'[i] = back[i]
                                        \/ back'[i].s = s /\ back'[i].n = Len(calls')
      BY ONLY <2>4, <2>5
    <2>7. 1 .. Len(calls) \subseteq 1 .. Len(calls') /\ Len(calls') \in 1 .. Len(calls')
      BY ONLY <2>3
    <2>8. \A i \in 1 .. Len(back') : back'[i].type = "call" =>
            back'[i].n \in 1 .. Len(calls') /\ back'[i].s = calls'[back'[i].n].s
      <3> SUFFICES ASSUME NEW i \in 1 .. Len(back'), back'[i].type = "call"
                   PROVE  back'[i].n \in 1 .. Len(calls') /\ back'[i].s = calls'[back'[i].n].s
        OBVIOUS
      <3>1. CASE i \in 1 .. Len(back) /\ back'[i] = back[i]
        <4>1. back[i].n \in 1 .. Len(calls) /\ back[i].s = calls[back[i].n].s
          BY <3>1 DEF Types, WireTypes
        <4> QED
          BY ONLY <2>3, <2>7, <3>1, <4>1
      <3>2. CASE back'[i].s = s /\ back'[i].n = Len(calls')
        BY ONLY <2>3, <2>7, <3>2
      <3> QED
        BY ONLY <2>6, <3>1, <3>2
    <2>9. routed' \subseteq 1 .. Len(calls') /\ handling' \subseteq 1 .. Len(calls')
      BY <1>2, <2>7 DEF Call, CallSync, CallAsync, client, Types, WireTypes
    <2>10. pending' \in [Sessions -> SUBSET (1 .. Len(calls'))]
      <3>1. pending \in [Sessions -> SUBSET (1 .. Len(calls))]
        BY DEF Types, WireTypes
      <3>2. pending' = pending \/ pending' = [pending EXCEPT ![s] = @ \cup {Len(calls')}]
        BY <1>2 DEF CallSync, CallAsync
      <3>3. \A x \in Sessions : pending[x] \in SUBSET (1 .. Len(calls'))
        BY ONLY <3>1, <2>7
      <3>4. pending[s] \cup {Len(calls')} \in SUBSET (1 .. Len(calls'))
        BY ONLY <3>3, <2>7, s \in Sessions
      <3> HIDE <2>2, <2>3
      <3> QED
        BY ONLY <3>1, <3>2, <3>3, <3>4, s \in Sessions
    <2>11. conn' = conn /\ wire' = wire
      BY <1>2 DEF CallSync, CallAsync
    <2>12. WireTypes'
      BY <2>3, <2>6, <2>8, <2>9, <2>10, <2>11 DEF Types, WireTypes
    <2>13. [run[s] EXCEPT !.call = Len(calls')] \in Runs
      BY <1>1, <2>3, RunUpdates
    <2>14. ThreadTypes'
      BY <1>2, <2>13 DEF CallSync, CallAsync, Types, ThreadTypes, Points, Busy
    <2>15. ClientTypes'
      BY <1>2 DEF CallSync, CallAsync, Types, ClientTypes, client
    <2> QED
      BY <2>12, <2>14, <2>15 DEF Types
  <1>3. CASE Returns(s)
    <2>1. UNCHANGED <<outside, chan, pending, deferred, timer, doomed>>
      BY <1>3 DEF Returns
    <2>2. \A w \in BOOLEAN : [run[s] EXCEPT !.waits = w] \in Runs /\ [run[s] EXCEPT !.error = w] \in Runs
      BY <1>1, RunUpdates
    <2>3. run[s].waits \in BOOLEAN /\ run[s].ret \in Points \cup {"main"}
      BY <1>1 DEF Runs, Points, Busy
    <2>4. /\ at' \in [Sessions -> Points] /\ run' \in [Sessions -> Runs]
          /\ batch' \in [Sessions -> Seq(Frames)]
      <3>1. CASE \E w \in BOOLEAN : Proceed(s, [run[s] EXCEPT !.waits = w])
        BY <2>2, <3>1, ProceedTypes
      <3>2. CASE Proceed(s, [run[s] EXCEPT !.error = TRUE])
        BY <2>2, <3>2, ProceedTypes
      <3>3. CASE /\ run[s].ret # "main" /\ at' = [at EXCEPT ![s] = run[s].ret] /\ UNCHANGED batch
                 /\ \E w \in {run[s].waits, FALSE} : run' = [run EXCEPT ![s].waits = w]
        BY <2>2, <2>3, <3>3 DEF Types, ThreadTypes
      <3>4. CASE Leave(s, [run[s] EXCEPT !.error = TRUE])
        BY <2>2, <3>4, LeaveTypes
      <3> QED
        BY <1>3, <3>1, <3>2, <3>3, <3>4 DEF Returns
    <2>5. ThreadTypes'
      BY <2>1, <2>4 DEF Types, ThreadTypes
    <2> QED
      BY <2>1, <2>5, InsideTypes DEF Types, WireTypes
  <1>4. CASE Interrupt(s)
    <2> DEFINE r == [run[s] EXCEPT !.cut = TRUE]
    <2>1. UNCHANGED <<outside, chan, pending, deferred, timer>> /\ doomed' \in [Sessions -> BOOLEAN]
      BY <1>4 DEF Interrupt, Types, ThreadTypes
    <2>2. r \in Runs /\ \A b \in BOOLEAN : [r EXCEPT !.error = b] \in Runs
      BY <1>1, RunUpdates
    <2>3. r.ret \in Points \cup {"main"} /\ (r.pass = 1) \in BOOLEAN
      <3>1. \A x \in Runs : x.ret \in {"main", "top", "drain", "poll"}
        BY DEF Runs
      <3> QED
        BY <2>2, <3>1 DEF Points, Busy
    <2>4. \/ Proceed(s, [r EXCEPT !.error = (r.pass = 1)])
          \/ /\ r.ret # "main" /\ at' = [at EXCEPT ![s] = r.ret]
             /\ run' = [run EXCEPT ![s] = r] /\ UNCHANGED batch
          \/ Leave(s, [r EXCEPT !.error = TRUE])
      BY <1>4 DEF Interrupt
    <2> HIDE DEF r
    <2>5. /\ at' \in [Sessions -> Points] /\ run' \in [Sessions -> Runs]
          /\ batch' \in [Sessions -> Seq(Frames)]
      BY <2>2, <2>3, <2>4, ProceedTypes, LeaveTypes DEF Types, ThreadTypes
    <2>6. ThreadTypes'
      BY <2>1, <2>5 DEF Types, ThreadTypes
    <2> QED
      BY <2>1, <2>6, InsideTypes DEF Types, WireTypes
  <1> QED
    BY <1>2, <1>3, <1>4 DEF UserCode, CallSync, CallAsync

(* The steps of the session s and of its timer.                            *)
Own(s) == Thread(s) \/ UserCode(s) \/ TimerStep(s)

LEMMA OwnTypesKept ==
    ASSUME Types, NEW s \in Sessions, Own(s)
    PROVE  Types'
  BY IdleTypesKept, SyncTypesKept, LoopTypesKept, EndTypesKept, UserTypesKept DEF Own, Thread

LEMMA TypesInit == Init => Types
  <1> SUFFICES ASSUME Init PROVE Types
    OBVIOUS
  <1>1. ClientTypes
    BY DEF Init, ClientTypes, All
  <1>2. ThreadTypes
    BY NoRunType DEF Init, ThreadTypes, All, Points, Timers
  <1>3. WireTypes
    BY DEF Init, WireTypes, All
  <1> QED
    BY <1>1, <1>2, <1>3 DEF Types

LEMMA TypesUnchanged == Types /\ UNCHANGED vars => Types'
  BY DEF vars, client, thread, Types, ClientTypes, ThreadTypes, WireTypes

LEMMA TypesKept == Types /\ [Next]_vars => Types'
  <1> SUFFICES ASSUME Types, [Next]_vars PROVE Types'
    OBVIOUS
  <1>1. ASSUME NEW c \in handling, HandlerReturns(c) PROVE Types'
    BY <1>1, HandlerTypesKept
  <1>2. ASSUME NEW s \in Sessions, Client(s) \/ Own(s) PROVE Types'
    BY <1>2, ClientTypesKept, OwnTypesKept
  <1> QED
    BY <1>1, <1>2, MessageTypesKept, ConnTypesKept, TypesUnchanged DEF Next, Own

LEMMA TypesAlways == Spec => []Types
  BY TypesInit, TypesKept, PTL DEF Spec

----------------------------------------------------------------------------
(* What the steps of a session thread do to its point and its execution    *)

\* The steps of a thread inside an execution.
Working(s) ==
    \/ SyncReceives(s) \/ SyncFails(s) \/ LoopTop(s) \/ LoopDispatches(s) \/ LoopDrained(s)
    \/ LoopReceives(s) \/ LoopAborts(s) \/ LoopPolls(s) \/ UserCode(s)

\* Two records of the same execution.
SameRun(r, q) == r.n = q.n /\ r.stale = q.stale

LEMMA SameRunUpdates ==
    ASSUME NEW r \in Runs
    PROVE  /\ SameRun([r EXCEPT !.pass = 2, !.ret = "main"], r)
           /\ [r EXCEPT !.pass = 2, !.ret = "main"].cut = r.cut
           /\ \A b : /\ SameRun([r EXCEPT !.waits = b], r) /\ [r EXCEPT !.waits = b].cut = r.cut
                     /\ SameRun([r EXCEPT !.error = b], r) /\ [r EXCEPT !.error = b].cut = r.cut
                     /\ SameRun([r EXCEPT !.stopped = b], r) /\ [r EXCEPT !.stopped = b].cut = r.cut
                     /\ SameRun([r EXCEPT !.cut = b], r)
  BY DEF Runs, SameRun

LEMMA SameRunCall ==
    ASSUME NEW r \in Runs, NEW n \in Nat
    PROVE  SameRun([r EXCEPT !.call = n], r) /\ [r EXCEPT !.call = n].cut = r.cut
  BY DEF Runs, SameRun

LEMMA SameRunEnter ==
    ASSUME NEW r \in Runs, NEW x, NEW b \in BOOLEAN
    PROVE  /\ SameRun([r EXCEPT !.ret = x, !.throws = b], r)
           /\ [r EXCEPT !.ret = x, !.throws = b].cut = r.cut
  BY DEF Runs, SameRun

LEMMA LeaveEffect ==
    ASSUME Types, NEW s \in Sessions, NEW r \in Runs, Leave(s, r)
    PROVE  at'[s] \in {"js", "check"} /\ SameRun(run'[s], r) /\ run'[s].cut = r.cut
  <1>1. at'[s] \in {"js", "check"}
    BY DEF Leave, Types, ThreadTypes
  <1>2. run'[s] = r \/ run'[s] = [r EXCEPT !.pass = 2, !.ret = "main"]
    BY DEF Leave, Types, ThreadTypes
  <1> QED
    BY ONLY <1>1, <1>2, r \in Runs, SameRunUpdates DEF SameRun

LEMMA ProceedEffect ==
    ASSUME Types, NEW s \in Sessions, NEW r \in Runs, Proceed(s, r)
    PROVE  at'[s] \in {"js", "check", "top"} /\ SameRun(run'[s], r) /\ run'[s].cut = r.cut
  <1>1. CASE Leave(s, r)
    BY <1>1, LeaveEffect
  <1>2. CASE ~Leave(s, r)
    BY <1>2 DEF Proceed, Types, ThreadTypes, SameRun
  <1> QED
    BY <1>1, <1>2

LEMMA DispatchEffect ==
    ASSUME Types, NEW s \in Sessions, NEW f, NEW ret, Dispatch(s, f, ret)
    PROVE  at'[s] \in {"js", ret} /\ SameRun(run'[s], run[s]) /\ run'[s].cut = run[s].cut
  <1>1. at'[s] \in {"js", ret}
    BY DEF Dispatch, Types, ThreadTypes
  <1>2. \/ run'[s] = run[s] \/ run'[s] = [run[s] EXCEPT !.ret = ret, !.throws = TRUE]
        \/ run'[s] = [run[s] EXCEPT !.ret = ret, !.throws = FALSE]
    <2>1. CASE f.type = "stream"
      BY <2>1 DEF Dispatch, Types, ThreadTypes
    <2>2. CASE f.type # "stream"
      <3>1. (f.type = "stream") = FALSE
        BY <2>2
      <3> QED
        BY <3>1 DEF Dispatch, Types, ThreadTypes
    <2> QED
      BY <2>1, <2>2
  <1>3. run[s] \in Runs /\ SameRun(run[s], run[s])
    BY DEF Types, ThreadTypes, SameRun
  <1>4. \A b \in BOOLEAN : /\ SameRun([run[s] EXCEPT !.ret = ret, !.throws = b], run[s])
                          /\ [run[s] EXCEPT !.ret = ret, !.throws = b].cut = run[s].cut
    BY ONLY <1>3, SameRunEnter
  <1>5. CASE run'[s] = run[s]
    BY ONLY <1>1, <1>3, <1>5
  <1>6. CASE run'[s] = [run[s] EXCEPT !.ret = ret, !.throws = TRUE]
    BY ONLY <1>1, <1>4, <1>6
  <1>7. CASE run'[s] = [run[s] EXCEPT !.ret = ret, !.throws = FALSE]
    BY ONLY <1>1, <1>4, <1>7
  <1> QED
    BY ONLY <1>2, <1>5, <1>6, <1>7

LEMMA WorkingEffect ==
    ASSUME Types, NEW s \in Sessions, Working(s)
    PROVE  /\ at[s] \in Busy \ {"check", "cancel"} /\ at'[s] \in Busy \ {"cancel"}
           /\ SameRun(run'[s], run[s]) /\ timer' = timer
           /\ run'[s].cut => run[s].cut \/ doomed[s] \/ timer[s] = "dropped"
           /\ doomed'[s] => doomed[s] \/ timer[s] = "dropped"
  <1>1. run[s] \in Runs /\ run \in [Sessions -> Runs] /\ at \in [Sessions -> Points]
        /\ doomed \in [Sessions -> BOOLEAN]
    BY DEF Types, ThreadTypes
  <1>2. SameRun(run[s], run[s])
    BY DEF SameRun
  <1>3. CASE SyncReceives(s) \/ SyncFails(s)
    <2>1. at'[s] \in {"js", "sync"} /\ at[s] = "sync" /\ UNCHANGED <<timer, doomed>>
      BY <1>1, <1>3 DEF SyncReceives, SyncFails
    <2>4. 0 \in Nat
      OBVIOUS
    <2>2. run'[s] = run[s] \/ run'[s] = [run[s] EXCEPT !.call = 0]
      BY <1>1, <1>3 DEF SyncReceives, SyncFails
    <2>3. SameRun(run'[s], run[s]) /\ run'[s].cut = run[s].cut
      BY ONLY <1>1, <1>2, <2>2, <2>4, SameRunCall
    <2> QED
      BY <2>1, <2>3 DEF Busy
  <1>4. CASE LoopTop(s) \/ LoopDrained(s) \/ LoopPolls(s)
    <2>1. at[s] \in {"top", "drain", "poll", "wait"} /\ UNCHANGED <<timer, doomed>>
      BY <1>1, <1>4 DEF LoopTop, LoopDrained, LoopPolls
    <2>2. Leave(s, run[s]) \/ (at'[s] \in {"drain", "poll", "wait"} /\ run' = run)
      BY <1>1, <1>4 DEF LoopTop, LoopDrained, LoopPolls
    <2>3. SameRun(run'[s], run[s]) /\ run'[s].cut = run[s].cut /\ at'[s] \in Busy \ {"cancel"}
      BY <1>1, <1>2, <2>2, LeaveEffect DEF Busy
    <2> QED
      BY <2>1, <2>3 DEF Busy
  <1>5. CASE LoopDispatches(s) \/ LoopReceives(s)
    <2>1. at[s] \in {"drain", "poll", "wait"} /\ UNCHANGED <<timer, doomed>>
      BY <1>1, <1>5 DEF LoopDispatches, LoopReceives
    <2>2. [run[s] EXCEPT !.stopped = TRUE] \in Runs
          /\ SameRun([run[s] EXCEPT !.stopped = TRUE], run[s])
          /\ [run[s] EXCEPT !.stopped = TRUE].cut = run[s].cut
      BY ONLY <1>1, RunUpdates, SameRunUpdates
    <2>3. \/ Dispatch(s, Head(batch[s]), at[s]) /\ at[s] # "wait"
          \/ Dispatch(s, Head(chan[s]), "top")
          \/ Leave(s, [run[s] EXCEPT !.stopped = TRUE])
      BY <1>5 DEF LoopDispatches, LoopReceives
    <2>4. SameRun(run'[s], run[s]) /\ run'[s].cut = run[s].cut /\ at'[s] \in Busy \ {"cancel"}
      <3>1. CASE Dispatch(s, Head(batch[s]), at[s]) /\ at[s] # "wait"
        BY <2>1, <3>1, DispatchEffect DEF Busy
      <3>2. CASE Dispatch(s, Head(chan[s]), "top")
        BY <3>2, DispatchEffect DEF Busy
      <3>3. CASE Leave(s, [run[s] EXCEPT !.stopped = TRUE])
        BY <2>2, <3>3, LeaveEffect DEF Busy, SameRun
      <3> QED
        BY <2>1, <2>3, <3>1, <3>2, <3>3
    <2> QED
      BY <2>1, <2>4 DEF Busy
  <1>6. CASE LoopAborts(s)
    <2>1. [run[s] EXCEPT !.stopped = TRUE, !.cut = TRUE] \in Runs
          /\ SameRun([run[s] EXCEPT !.stopped = TRUE, !.cut = TRUE], run[s])
      <3> DEFINE q == [run[s] EXCEPT !.stopped = TRUE]
      <3>1. q \in Runs /\ SameRun(q, run[s])
        BY ONLY <1>1, RunUpdates, SameRunUpdates
      <3>2. [run[s] EXCEPT !.stopped = TRUE, !.cut = TRUE] = [q EXCEPT !.cut = TRUE]
        BY <1>1
      <3> HIDE DEF q
      <3>3. [q EXCEPT !.cut = TRUE] \in Runs /\ SameRun([q EXCEPT !.cut = TRUE], q)
        BY ONLY <3>1, RunUpdates, SameRunUpdates
      <3> QED
        BY ONLY <3>1, <3>2, <3>3 DEF SameRun
    <2>2. at[s] = "wait" /\ timer[s] = "dropped" /\ timer' = timer
          /\ Leave(s, [run[s] EXCEPT !.stopped = TRUE, !.cut = TRUE])
      BY <1>6 DEF LoopAborts
    <2> QED
      BY <2>1, <2>2, LeaveEffect DEF Busy, SameRun
  <1>7. CASE CallSync(s) \/ CallAsync(s)
    <2>1. at[s] = "js" /\ at'[s] \in {"js", "sync"} /\ UNCHANGED <<timer, doomed>>
      BY <1>1, <1>7 DEF CallSync, CallAsync, Call
    <2>4. Len(calls') \in Nat
      <3>1. Types'
        BY <1>7, UserTypesKept DEF UserCode
      <3> QED
        BY <3>1 DEF Types, WireTypes
    <2>2. run'[s] = run[s] \/ run'[s] = [run[s] EXCEPT !.call = Len(calls')]
      BY <1>1, <1>7 DEF CallSync, CallAsync
    <2>3. SameRun(run'[s], run[s]) /\ run'[s].cut = run[s].cut
      BY ONLY <1>1, <1>2, <2>2, <2>4, SameRunCall
    <2> QED
      BY <2>1, <2>3 DEF Busy
  <1>8. CASE Returns(s)
    <2>1. at[s] = "js" /\ UNCHANGED <<timer, doomed>>
      BY <1>8 DEF Returns
    <2>2. \A b \in BOOLEAN : /\ [run[s] EXCEPT !.waits = b] \in Runs /\ [run[s] EXCEPT !.error = b] \in Runs
                             /\ SameRun([run[s] EXCEPT !.waits = b], run[s])
                             /\ [run[s] EXCEPT !.waits = b].cut = run[s].cut
                             /\ SameRun([run[s] EXCEPT !.error = b], run[s])
                             /\ [run[s] EXCEPT !.error = b].cut = run[s].cut
      BY ONLY <1>1, RunUpdates, SameRunUpdates
    <2>3. run[s].waits \in BOOLEAN /\ run[s].ret \in {"main", "top", "drain", "poll"}
      BY <1>1 DEF Runs
    <2>4. SameRun(run'[s], run[s]) /\ run'[s].cut = run[s].cut /\ at'[s] \in Busy \ {"cancel"}
      <3>1. CASE \E w \in BOOLEAN : Proceed(s, [run[s] EXCEPT !.waits = w])
        BY <2>2, <3>1, ProceedEffect DEF Busy, SameRun
      <3>2. CASE Proceed(s, [run[s] EXCEPT !.error = TRUE])
        BY <2>2, <3>2, ProceedEffect DEF Busy, SameRun
      <3>3. CASE /\ run[s].ret # "main" /\ at' = [at EXCEPT ![s] = run[s].ret] /\ UNCHANGED batch
                 /\ \E w \in {run[s].waits, FALSE} : run' = [run EXCEPT ![s].waits = w]
        <4>1. PICK w \in BOOLEAN : run'[s] = [run[s] EXCEPT !.waits = w]
          BY <1>1, <2>3, <3>3
        <4>2. at'[s] = run[s].ret
          BY <1>1, <3>3
        <4> QED
          BY <2>2, <2>3, <3>3, <4>1, <4>2 DEF Busy
      <3>4. CASE Leave(s, [run[s] EXCEPT !.error = TRUE])
        BY <2>2, <3>4, LeaveEffect DEF Busy, SameRun
      <3> QED
        BY <1>8, <3>1, <3>2, <3>3, <3>4 DEF Returns
    <2> QED
      BY <2>1, <2>4 DEF Busy
  <1>9. CASE Interrupt(s)
    <2> DEFINE r == [run[s] EXCEPT !.cut = TRUE]
    <2>1. at[s] = "js" /\ timer' = timer /\ doomed[s]
      BY <1>9 DEF Interrupt
    <2>2. r \in Runs /\ SameRun(r, run[s])
      BY ONLY <1>1, RunUpdates, SameRunUpdates
    <2>3. \/ Proceed(s, [r EXCEPT !.error = (r.pass = 1)])
          \/ /\ r.ret # "main" /\ at' = [at EXCEPT ![s] = r.ret]
             /\ run' = [run EXCEPT ![s] = r] /\ UNCHANGED batch
          \/ Leave(s, [r EXCEPT !.error = TRUE])
      BY <1>9 DEF Interrupt
    <2> HIDE DEF r
    <2>4. \E b \in BOOLEAN : (r.pass = 1) = b
      BY Zenon
    <2>5. \A b \in BOOLEAN : [r EXCEPT !.error = b] \in Runs /\ SameRun([r EXCEPT !.error = b], run[s])
      BY ONLY <2>2, RunUpdates, SameRunUpdates DEF SameRun
    <2>6. r.ret \in {"main", "top", "drain", "poll"}
      BY <2>2 DEF Runs
    <2>7. SameRun(run'[s], run[s]) /\ at'[s] \in Busy \ {"cancel"}
      <3>1. CASE Proceed(s, [r EXCEPT !.error = (r.pass = 1)])
        <4>1. PICK b \in BOOLEAN : (r.pass = 1) = b
          BY <2>4
        <4>2. Proceed(s, [r EXCEPT !.error = b])
          BY <3>1, <4>1
        <4> QED
          BY <2>5, <4>2, ProceedEffect DEF Busy, SameRun
      <3>2. CASE /\ r.ret # "main" /\ at' = [at EXCEPT ![s] = r.ret]
                 /\ run' = [run EXCEPT ![s] = r] /\ UNCHANGED batch
        BY <1>1, <2>2, <2>6, <3>2 DEF Busy
      <3>3. CASE Leave(s, [r EXCEPT !.error = TRUE])
        BY <2>5, <3>3, LeaveEffect DEF Busy, SameRun
      <3> QED
        BY <2>3, <3>1, <3>2, <3>3
    <2> QED
      BY <2>1, <2>7 DEF Busy
  <1> QED
    BY <1>3, <1>4, <1>5, <1>6, <1>7, <1>8, <1>9 DEF Working, UserCode

\* The variables of the thread x.
Untouched(x) ==
    /\ at'[x] = at[x] /\ run'[x] = run[x] /\ timer'[x] = timer[x] /\ doomed'[x] = doomed[x]
    /\ chan'[x] = chan[x] /\ deferred'[x] = deferred[x] /\ batch'[x] = batch[x]
    /\ pending'[x] = pending[x]

LEMMA LeaveOthers ==
    ASSUME Types, NEW s \in Sessions, NEW r, Leave(s, r), NEW x \in Sessions, x # s
    PROVE  at'[x] = at[x] /\ run'[x] = run[x] /\ batch'[x] = batch[x]
  BY DEF Leave, Types, ThreadTypes

LEMMA ProceedOthers ==
    ASSUME Types, NEW s \in Sessions, NEW r, Proceed(s, r), NEW x \in Sessions, x # s
    PROVE  at'[x] = at[x] /\ run'[x] = run[x] /\ batch'[x] = batch[x]
  BY LeaveOthers DEF Proceed, Types, ThreadTypes

LEMMA DispatchOthers ==
    ASSUME Types, NEW s \in Sessions, NEW f, NEW ret, Dispatch(s, f, ret), NEW x \in Sessions, x # s
    PROVE  at'[x] = at[x] /\ run'[x] = run[x] /\ pending'[x] = pending[x]
  BY DEF Dispatch, Types, ThreadTypes, WireTypes

LEMMA OthersUntouched ==
    ASSUME Types, NEW s \in Sessions, Own(s), NEW x \in Sessions, x # s
    PROVE  Untouched(x)
  <1>1. CASE \/ AcquireSlot(s) \/ Stop(s) \/ IgnoreFrame(s) \/ InitScriptFails(s)
             \/ \E mode \in {"exec", "run"} : StartExecution(s, mode)
    BY <1>1 DEF AcquireSlot, Stop, IgnoreFrame, InitScriptFails, StartExecution, Untouched, Types,
                ThreadTypes, WireTypes
  <1>2. CASE SyncReceives(s) \/ SyncFails(s)
    BY <1>2 DEF SyncReceives, SyncFails, Keep, Untouched, Types, ThreadTypes, WireTypes
  <1>3. CASE LoopTop(s) \/ LoopDrained(s) \/ LoopPolls(s) \/ LoopAborts(s)
    BY <1>3, LeaveOthers DEF LoopTop, LoopDrained, LoopPolls, LoopAborts, Untouched, Types,
                ThreadTypes, WireTypes
  <1>4. CASE LoopDispatches(s) \/ LoopReceives(s)
    BY <1>4, LeaveOthers, DispatchOthers DEF LoopDispatches, LoopReceives, Untouched, Types,
                ThreadTypes, WireTypes
  <1>5. CASE CallSync(s) \/ CallAsync(s)
    BY <1>5 DEF CallSync, CallAsync, Untouched, Types, ThreadTypes, WireTypes
  <1>6. CASE Returns(s)
    BY <1>6, LeaveOthers, ProceedOthers DEF Returns, Untouched, Types, ThreadTypes
  <1>7. CASE Interrupt(s)
    BY <1>7, LeaveOthers, ProceedOthers DEF Interrupt, Untouched, Types, ThreadTypes
  <1>8. CASE CheckTimeout(s) \/ SendResult(s) \/ TimerStep(s)
    BY <1>8 DEF CheckTimeout, SendResult, TimerStep, Untouched, Types, ThreadTypes
  <1> QED
    BY <1>1, <1>2, <1>3, <1>4, <1>5, <1>6, <1>7, <1>8 DEF Own, Thread, UserCode

----------------------------------------------------------------------------
(* The time limit *)

\* In an execution that did not begin on a doomed isolate, a termination request, and the cut it
\* made, are explained by the execution's own timer until the verdict is given.
TimerExplains(s) ==
    at[s] \in Busy /\ ~run[s].stale =>
        /\ doomed[s] => timer[s] \in {"requested", "dropped"}
        /\ run[s].cut /\ at[s] # "cancel" => timed_out(s)

CutReported(s) == at[s] = "cancel" /\ run[s].cut /\ ~run[s].stale => run[s].verdict = "timeout"

TimeInv == \A s \in Sessions : TimerExplains(s) /\ CutReported(s)

LEMMA SameTime ==
    ASSUME NEW x \in Sessions, TimerExplains(x) /\ CutReported(x),
           \/ /\ at'[x] = at[x] /\ run'[x] = run[x] /\ timer'[x] = timer[x] /\ doomed'[x] = doomed[x]
           \/ at'[x] \notin Busy
    PROVE  (TimerExplains(x) /\ CutReported(x))'
  BY DEF TimerExplains, CutReported, timed_out, Busy

LEMMA OwnTimeKept ==
    ASSUME Types, TimeInv, NEW s \in Sessions, Own(s)
    PROVE  (TimerExplains(s) /\ CutReported(s))'
  <1>1. TimerExplains(s) /\ CutReported(s)
    BY DEF TimeInv
  <1>2. at \in [Sessions -> Points] /\ run \in [Sessions -> Runs] /\ timer \in [Sessions -> Timers]
        /\ doomed \in [Sessions -> BOOLEAN] /\ run[s] \in Runs
    BY DEF Types, ThreadTypes
  <1>3. CASE Working(s)
    BY <1>1, <1>3, WorkingEffect DEF TimerExplains, CutReported, timed_out, SameRun, Busy
  <1>4. CASE AcquireSlot(s) \/ Stop(s) \/ SendResult(s)
    <2>1. at'[s] \in {"idle", "done"}
      BY <1>2, <1>4 DEF AcquireSlot, Stop, SendResult
    <2> QED
      BY <1>1, <2>1, SameTime DEF Busy
  <1>5. CASE IgnoreFrame(s) \/ InitScriptFails(s)
    <2>1. at'[s] = "idle"
      BY <1>5 DEF IgnoreFrame, InitScriptFails
    <2> QED
      BY <1>1, <2>1, SameTime DEF Busy
  <1>6. ASSUME NEW mode \in {"exec", "run"}, StartExecution(s, mode)
        PROVE  (TimerExplains(s) /\ CutReported(s))'
    <2>1. at'[s] = "js" /\ doomed' = doomed
          /\ run'[s] = [NoRun EXCEPT !.n = Head(chan[s]).n, !.mode = mode, !.stale = doomed[s]]
      BY <1>2, <1>6 DEF StartExecution
    <2>2. run'[s].stale = doomed[s] /\ ~run'[s].cut
      BY ONLY <2>1 DEF NoRun
    <2> QED
      BY ONLY <2>1, <2>2 DEF TimerExplains, CutReported
  <1>7. CASE CheckTimeout(s)
    <2>1. at[s] = "check" /\ at'[s] = "cancel" /\ UNCHANGED <<timer, doomed>>
          /\ run'[s] = [run[s] EXCEPT !.verdict = IF timed_out(s) THEN "timeout"
                                         ELSE IF run[s].stopped THEN "terminated"
                                         ELSE IF run[s].error THEN "failed" ELSE "ok"]
      BY <1>2, <1>7 DEF CheckTimeout
    <2>2. SameRun(run'[s], run[s]) /\ run'[s].cut = run[s].cut /\ (timed_out(s) => run'[s].verdict = "timeout")
      BY ONLY <1>2, <2>1 DEF Runs, SameRun
    <2> QED
      BY ONLY <1>1, <2>1, <2>2 DEF TimerExplains, CutReported, SameRun, timed_out, Busy
  <1>8. CASE TimerStep(s)
    <2>1. UNCHANGED <<at, run>>
      BY <1>8 DEF TimerStep
    <2>2. \/ timer[s] = "armed" /\ timer'[s] = "fired" /\ doomed'[s] = doomed[s]
          \/ timer[s] = "fired" /\ timer'[s] = "requested"
          \/ timer[s] = "requested" /\ timer'[s] = "dropped" /\ doomed'[s] = doomed[s]
      BY <1>2, <1>8 DEF TimerStep
    <2> QED
      BY ONLY <1>1, <2>1, <2>2 DEF TimerExplains, CutReported, timed_out, Busy
  <1> QED
    BY <1>3, <1>4, <1>5, <1>6, <1>7, <1>8 DEF Own, Thread, Working

LEMMA TimeInvInit == Init => TimeInv
  BY DEF Init, TimeInv, TimerExplains, CutReported, All, Busy

LEMMA TimeInvKept == Types /\ TimeInv /\ [Next]_vars => TimeInv'
  <1> SUFFICES ASSUME Types, TimeInv, [Next]_vars, NEW x \in Sessions
               PROVE  (TimerExplains(x) /\ CutReported(x))'
    BY DEF TimeInv
  <1>1. TimerExplains(x) /\ CutReported(x)
    BY DEF TimeInv
  <1>2. ASSUME UNCHANGED <<at, run, timer, doomed>>
        PROVE  (TimerExplains(x) /\ CutReported(x))'
    BY <1>1, <1>2, SameTime
  <1>3. CASE OnMessage \/ OnExit \/ (\E c \in handling : HandlerReturns(c))
             \/ (\E s \in Sessions : Client(s)) \/ UNCHANGED vars
    BY <1>2, <1>3 DEF OnMessage, OnExit, HandlerReturns, Client, CreateSession, Execute,
          SendStreamEvent, DestroySession, runtime, thread, vars
  <1>4. CASE RuntimeExits
    <2>1. at'[x] \notin Busy
      BY <1>4 DEF RuntimeExits, All, Busy
    <2> QED
      BY <1>1, <2>1, SameTime
  <1>5. CASE Conn
    <2>1. UNCHANGED <<run, timer, doomed>>
      BY <1>5 DEF Conn, ConnCreates, ConnDestroys, ConnJoins, ConnRoutesResponse, ConnForwards, thread
    <2>2. at' = at \/ at' = [at EXCEPT ![Head(wire).s] = "queued"]
      BY <1>5 DEF Conn, ConnCreates, ConnDestroys, ConnJoins, ConnRoutesResponse, ConnForwards, thread
    <2>3. at'[x] = at[x] \/ at'[x] = "queued"
      BY <2>2 DEF Types, ThreadTypes
    <2> QED
      BY <1>1, <2>1, <2>3, SameTime DEF Busy
  <1>6. ASSUME NEW s \in Sessions, Own(s)
        PROVE  (TimerExplains(x) /\ CutReported(x))'
    <2>1. CASE s = x
      BY <1>6, <2>1, OwnTimeKept
    <2>2. CASE s # x
      BY <1>1, <1>6, <2>2, OthersUntouched, SameTime DEF Untouched
    <2> QED
      BY <2>1, <2>2
  <1> QED
    BY <1>3, <1>4, <1>5, <1>6 DEF Next, Own

(* An execution the time limit cut short is reported as timed out: the timer thread stores the    *)
(* flag before it requests the termination, the session thread reads it after the cut, and        *)
(* cancel() joins a timer that has fired (timeout.rs, session.rs run_event_loop).                 *)
THEOREM TimeLimitReported == Spec => []TimeoutReported
  <1>1. TimeInv => TimeoutReported
    BY DEF TimeInv, CutReported, TimeoutReported
  <1> QED
    BY <1>1, TypesAlways, TimeInvInit, TimeInvKept, PTL DEF Spec

----------------------------------------------------------------------------
(* Slots *)

\* A session is created by one frame, which finds no thread of that session.
CreatedOnce ==
    /\ sessions \subseteq opened
    /\ \A s \in Sessions : at[s] # "none" => s \in opened
    /\ \A i \in 1 .. Len(wire) : wire[i].type = "create" =>
          /\ wire[i].s \in opened /\ at[wire[i].s] = "none"
          /\ \A j \in 1 .. Len(wire) : wire[j].type = "create" /\ wire[j].s = wire[i].s => i = j

SlotsCounted ==
    IsFiniteSet(Holding) /\ slots = Cardinality(Holding) /\ slots <= MaxConcurrency

LEMMA WireTail ==
    ASSUME Types, wire # <<>>, wire' = Tail(wire)
    PROVE  /\ 1 \in 1 .. Len(wire) /\ Head(wire) = wire[1]
           /\ Len(wire') = Len(wire) - 1 /\ Len(wire) \in Nat
           /\ \A i \in 1 .. Len(wire') : wire'[i] = wire[i + 1] /\ i + 1 \in 1 .. Len(wire)
           /\ \A i, j \in 1 .. Len(wire') : i + 1 = j + 1 => i = j
           /\ \A i \in 1 .. Len(wire') : i + 1 # 1
  BY DEF Types, WireTypes

LEMMA WireAppend ==
    ASSUME Types, NEW f \in Frames, wire' = Append(wire, f)
    PROVE  /\ Len(wire') = Len(wire) + 1 /\ wire'[Len(wire) + 1] = f /\ Len(wire) \in Nat
           /\ \A i \in 1 .. Len(wire) : wire'[i] = wire[i] /\ i \in 1 .. Len(wire')
           /\ \A i \in 1 .. Len(wire') : i \in 1 .. Len(wire) \/ i = Len(wire) + 1
  BY DEF Types, WireTypes

LEMMA CreatedOnceKept ==
    Types /\ CreatedOnce /\ [Next]_vars => CreatedOnce'
  <1> SUFFICES ASSUME Types, CreatedOnce, [Next]_vars PROVE CreatedOnce'
    OBVIOUS
  <1>1. CASE OnMessage \/ OnExit \/ UNCHANGED vars
    BY <1>1 DEF OnMessage, OnExit, vars, client, thread, CreatedOnce
  <1>2. CASE RuntimeExits
    BY <1>2 DEF RuntimeExits, CreatedOnce, All
  <1>3. ASSUME NEW s \in Sessions, CreateSession(s) PROVE CreatedOnce'
    <2>1. s \notin opened /\ opened' = opened \cup {s} /\ sessions' = sessions /\ at' = at
          /\ wire' = Written(Frame("create", s, 0))
      BY <1>3 DEF CreateSession, runtime, thread
    <2>2. Frame("create", s, 0) \in Frames /\ Frame("create", s, 0).s = s
      BY FrameType DEF Kinds
    <2>3. at[s] = "none"
      BY <2>1 DEF CreatedOnce
    <2>4. CASE wire' = wire
      BY <2>1, <2>4 DEF CreatedOnce
    <2>5. CASE wire' = Append(wire, Frame("create", s, 0))
      <3>1. ASSUME NEW i \in 1 .. Len(wire'), wire'[i].type = "create"
            PROVE  wire'[i].s \in opened' /\ at'[wire'[i].s] = "none"
        BY <2>1, <2>2, <2>3, <2>5, <3>1, WireAppend DEF CreatedOnce
      <3>2. ASSUME NEW i \in 1 .. Len(wire'), NEW j \in 1 .. Len(wire'), wire'[i].type = "create",
                   wire'[j].type = "create", wire'[i].s = wire'[j].s
            PROVE  i = j
        <4>1. \A k \in 1 .. Len(wire) : wire'[k].type = "create" => wire'[k].s # s
          BY <2>1, <2>2, <2>5, WireAppend DEF CreatedOnce
        <4>2. wire'[Len(wire) + 1].s = s
          BY <2>2, <2>5, WireAppend
        <4>3. \A k \in 1 .. Len(wire') : (k \in 1 .. Len(wire) /\ wire'[k] = wire[k]) \/ k = Len(wire) + 1
          BY <2>2, <2>5, WireAppend
        <4> QED
          BY <3>2, <4>1, <4>2, <4>3 DEF CreatedOnce
      <3> QED
        BY <2>1, <3>1, <3>2 DEF CreatedOnce
    <2> QED
      BY <2>1, <2>4, <2>5 DEF Written
  <1>4. ASSUME NEW f \in Frames, f.type # "create", wire' = wire \/ wire' = Append(wire, f),
               UNCHANGED <<opened, sessions, at>>
        PROVE  CreatedOnce'
    <2>1. CASE wire' = wire
      BY <1>4, <2>1 DEF CreatedOnce
    <2>2. CASE wire' = Append(wire, f)
      <3>1. \A k \in 1 .. Len(wire') : wire'[k].type = "create" => k \in 1 .. Len(wire) /\ wire'[k] = wire[k]
        BY <1>4, <2>2, WireAppend
      <3> QED
        BY <1>4, <3>1 DEF CreatedOnce
    <2> QED
      BY <1>4, <2>1, <2>2
  <1>5. ASSUME NEW s \in Sessions, Execute(s) \/ SendStreamEvent(s) \/ DestroySession(s)
        PROVE  CreatedOnce'
    <2>1. execs'[s] \in Nat
      <3>1. Types'
        BY <1>5, ClientTypesKept DEF Client
      <3> QED
        BY <3>1 DEF Types, ClientTypes
    <2>2. \A k \in {"execute", "stream", "destroy"}, n \in Nat :
              Frame(k, s, n) \in Frames /\ Frame(k, s, n).type # "create"
      BY FrameType DEF Kinds
    <2>3. PICK k \in {"execute", "stream", "destroy"}, n \in Nat : wire' = Written(Frame(k, s, n))
      BY <1>5, <2>1 DEF Execute, SendStreamEvent, DestroySession
    <2>4. UNCHANGED <<opened, sessions, at>>
      BY <1>5 DEF Execute, SendStreamEvent, DestroySession, runtime, thread
    <2> QED
      BY <1>4, <2>2, <2>3, <2>4 DEF Written
  <1>6. ASSUME NEW c \in handling, HandlerReturns(c) PROVE CreatedOnce'
    <2>1. calls[c].s \in Sessions /\ c \in Nat
      <3>1. c \in 1 .. Len(calls) /\ calls \in Seq(Calls)
        BY DEF Types, WireTypes
      <3>2. calls[c] \in Calls /\ c \in Nat
        BY ONLY <3>1
      <3> QED
        BY <3>2 DEF Calls
    <2>2. Frame("response", calls[c].s, c) \in Frames /\ Frame("response", calls[c].s, c).type = "response"
      BY <2>1, FrameType DEF Kinds
    <2>3. UNCHANGED <<opened, sessions, at>> /\ wire' = Written(Frame("response", calls[c].s, c))
      BY <1>6 DEF HandlerReturns, runtime, thread
    <2> QED
      BY <1>4, <2>2, <2>3 DEF Written
  <1>7. CASE Conn
    <2>1. CASE ConnJoins
      BY <2>1 DEF ConnJoins, client, thread, CreatedOnce
    <2>2. CASE ~ConnJoins
      <3>1. wire # <<>> /\ wire' = Tail(wire) /\ opened' = opened
        BY <1>7, <2>2 DEF Conn, ConnCreates, ConnDestroys, ConnRoutesResponse, ConnForwards, NextFrame, client
      <3>2. \/ at' = at /\ sessions' \subseteq sessions
            \/ /\ wire[1].type = "create" /\ at' = [at EXCEPT ![wire[1].s] = "queued"]
               /\ sessions' = sessions \cup {wire[1].s}
        BY <1>7, <2>2, <3>1, WireTail DEF Conn, ConnCreates, ConnDestroys, ConnRoutesResponse, ConnForwards,
              NextFrame
      <3>3. /\ 1 \in 1 .. Len(wire)
            /\ \A i \in 1 .. Len(wire') : wire'[i] = wire[i + 1] /\ i + 1 \in 1 .. Len(wire) /\ i + 1 # 1
            /\ \A i, j \in 1 .. Len(wire') : i + 1 = j + 1 => i = j
        BY <3>1, WireTail
      <3>4. \A i \in 1 .. Len(wire') : wire'[i].type = "create" =>
               /\ wire'[i].s \in opened' /\ at'[wire'[i].s] = "none"
               /\ \A j \in 1 .. Len(wire') : wire'[j].type = "create" /\ wire'[j].s = wire'[i].s => i = j
        <4> SUFFICES ASSUME NEW i \in 1 .. Len(wire'), wire'[i].type = "create"
                     PROVE  /\ wire'[i].s \in opened' /\ at'[wire'[i].s] = "none"
                            /\ \A j \in 1 .. Len(wire') :
                                  wire'[j].type = "create" /\ wire'[j].s = wire'[i].s => i = j
          OBVIOUS
        <4>1. wire'[i] = wire[i + 1] /\ i + 1 \in 1 .. Len(wire) /\ i + 1 # 1
          BY ONLY <3>3, i \in 1 .. Len(wire')
        <4>2. /\ wire'[i].s \in opened /\ at[wire'[i].s] = "none"
              /\ wire[1].type = "create" => wire[1].s # wire'[i].s
          BY <3>3, <4>1 DEF CreatedOnce
        <4>3. at'[wire'[i].s] = at[wire'[i].s]
          <5>1. at \in [Sessions -> Points] /\ opened \subseteq Sessions
            BY DEF Types, ThreadTypes, ClientTypes
          <5> QED
            BY ONLY <3>2, <4>2, <5>1
        <4>4. ASSUME NEW j \in 1 .. Len(wire'), wire'[j].type = "create", wire'[j].s = wire'[i].s
              PROVE  i = j
          <5>1. wire'[j] = wire[j + 1] /\ j + 1 \in 1 .. Len(wire)
            BY ONLY <3>3, j \in 1 .. Len(wire')
          <5>2. i + 1 = j + 1
            BY <4>1, <4>4, <5>1 DEF CreatedOnce
          <5> QED
            BY ONLY <3>3, <5>2, i \in 1 .. Len(wire'), j \in 1 .. Len(wire')
        <4> QED
          BY ONLY <3>1, <4>2, <4>3, <4>4
      <3>5. sessions' \subseteq opened' /\ \A s \in Sessions : at'[s] # "none" => s \in opened'
        BY <3>1, <3>2, WireTail DEF CreatedOnce, Types, ThreadTypes
      <3> QED
        BY <3>4, <3>5 DEF CreatedOnce
    <2> QED
      BY <2>1, <2>2
  <1>8. ASSUME NEW s \in Sessions, Own(s) PROVE CreatedOnce'
    <2>1. UNCHANGED <<opened, sessions, wire>>
      BY <1>8 DEF Own, Thread, UserCode, AcquireSlot, Stop, IgnoreFrame, InitScriptFails, StartExecution,
         SyncReceives, SyncFails, LoopTop, LoopDispatches, LoopDrained, LoopReceives, LoopAborts, LoopPolls,
         CheckTimeout, SendResult, CallSync, CallAsync, Returns, Interrupt, TimerStep, outside, client
    <2>2. at'[s] = at[s] \/ (at[s] # "none" /\ at'[s] # "none")
      BY <1>8, WorkingEffect DEF Own, Thread, Working, AcquireSlot, Stop, IgnoreFrame, InitScriptFails,
         StartExecution, CheckTimeout, SendResult, TimerStep, Types, ThreadTypes, Busy
    <2>3. \A x \in Sessions : x # s => at'[x] = at[x]
      BY <1>8, OthersUntouched DEF Untouched
    <2>4. \A i \in 1 .. Len(wire) : wire[i].s \in Sessions
      <3>1. wire \in Seq(Frames)
        BY DEF Types, WireTypes
      <3>2. \A i \in 1 .. Len(wire) : wire[i] \in Frames
        BY ONLY <3>1
      <3> QED
        BY <3>2 DEF Frames
    <2> QED
      BY <2>1, <2>2, <2>3, <2>4 DEF CreatedOnce
  <1> QED
    BY <1>1, <1>2, <1>3, <1>5, <1>6, <1>7, <1>8 DEF Next, Own, Client

LEMMA HoldingSame ==
    ASSUME SlotsCounted, slots' = slots,
           \A x \in Sessions : at'[x] \in {"none", "queued", "done"} <=> at[x] \in {"none", "queued", "done"}
    PROVE  SlotsCounted'
  <1>1. Holding' = Holding
    BY DEF Holding
  <1> QED
    BY <1>1 DEF SlotsCounted

LEMMA SlotsCountedKept ==
    Types /\ CreatedOnce /\ SlotsCounted /\ [Next]_vars => SlotsCounted'
  <1> SUFFICES ASSUME Types, CreatedOnce, SlotsCounted, [Next]_vars PROVE SlotsCounted'
    OBVIOUS
  <1>0. at \in [Sessions -> Points]
    BY DEF Types, ThreadTypes
  <1>1. CASE OnMessage \/ OnExit \/ (\E c \in handling : HandlerReturns(c))
             \/ (\E s \in Sessions : Client(s)) \/ UNCHANGED vars
    <2>1. UNCHANGED <<at, slots>>
      BY <1>1 DEF OnMessage, OnExit, HandlerReturns, Client, CreateSession, Execute,
         SendStreamEvent, DestroySession, runtime, thread, vars
    <2> QED
      BY <2>1, HoldingSame
  <1>2. CASE RuntimeExits
    <2>1. Holding' = {} /\ slots' = 0
      BY <1>2 DEF RuntimeExits, Holding, All
    <2> QED
      BY <2>1, FS_EmptySet, SlotsAssumption DEF SlotsCounted
  <1>3. CASE Conn
    <2>1. CASE ConnCreates
      <3>1. wire # <<>> /\ wire' = Tail(wire) /\ at' = [at EXCEPT ![Head(wire).s] = "queued"] /\ slots' = slots
            /\ Head(wire).type = "create"
        BY <2>1 DEF ConnCreates, NextFrame
      <3>2. at[Head(wire).s] = "none"
        BY <3>1, WireTail DEF CreatedOnce
      <3> QED
        BY <1>0, <3>1, <3>2, HoldingSame
    <2>2. CASE ~ConnCreates
      <3>1. UNCHANGED <<at, slots>>
        BY <1>3, <2>2 DEF Conn, ConnDestroys, ConnJoins, ConnRoutesResponse, ConnForwards, thread
      <3> QED
        BY <3>1, HoldingSame
    <2> QED
      BY <2>1, <2>2
  <1>4. ASSUME NEW s \in Sessions, AcquireSlot(s) PROVE SlotsCounted'
    <2>1. at[s] = "queued" /\ at' = [at EXCEPT ![s] = "idle"] /\ slots < MaxConcurrency /\ slots' = slots + 1
      BY <1>4 DEF AcquireSlot
    <2>2. s \notin Holding /\ Holding' = Holding \cup {s}
      BY <1>0, <2>1 DEF Holding
    <2>3. Cardinality(Holding') = Cardinality(Holding) + 1 /\ IsFiniteSet(Holding')
          /\ Cardinality(Holding) \in Nat
      BY <2>2, FS_AddElement, FS_CardinalityType DEF SlotsCounted
    <2> QED
      BY <2>1, <2>3, SlotsAssumption DEF SlotsCounted
  <1>5. ASSUME NEW s \in Sessions, Stop(s) PROVE SlotsCounted'
    <2>1. at[s] = "idle" /\ at' = [at EXCEPT ![s] = "done"] /\ slots' = slots - 1
      BY <1>5 DEF Stop
    <2>2. s \in Holding /\ Holding' = Holding \ {s}
      BY <1>0, <2>1 DEF Holding
    <2>3. Cardinality(Holding') = Cardinality(Holding) - 1 /\ IsFiniteSet(Holding')
          /\ Cardinality(Holding) \in Nat
      BY <2>2, FS_RemoveElement, FS_CardinalityType DEF SlotsCounted
    <2> QED
      BY <2>1, <2>3, SlotsAssumption DEF SlotsCounted
  <1>6. ASSUME NEW s \in Sessions, Own(s), ~AcquireSlot(s), ~Stop(s) PROVE SlotsCounted'
    <2>1. slots' = slots
      BY <1>6 DEF Own, Thread, UserCode, IgnoreFrame, InitScriptFails, StartExecution,
         SyncReceives, SyncFails, LoopTop, LoopDispatches, LoopDrained, LoopReceives, LoopAborts, LoopPolls,
         CheckTimeout, SendResult, CallSync, CallAsync, Returns, Interrupt, TimerStep, outside
    <2>2. at'[s] = at[s] \/ (at[s] \in Busy \cup {"idle"} /\ at'[s] \in Busy \cup {"idle"})
      BY <1>0, <1>6, WorkingEffect DEF Own, Thread, Working, IgnoreFrame, InitScriptFails,
         StartExecution, CheckTimeout, SendResult, TimerStep, Busy
    <2>3. \A x \in Sessions : x # s => at'[x] = at[x]
      BY <1>6, OthersUntouched DEF Untouched
    <2> QED
      BY <2>1, <2>2, <2>3, HoldingSame DEF Busy
  <1> QED
    BY <1>1, <1>2, <1>3, <1>4, <1>5, <1>6 DEF Next, Own

LEMMA CreatedOnceAlways == Spec => []CreatedOnce
  <1>1. Init => CreatedOnce
    BY DEF Init, CreatedOnce, All
  <1> QED
    BY <1>1, TypesAlways, CreatedOnceKept, PTL DEF Spec

(* The slots taken are the threads between acquire_slot and their end, never more than the        *)
(* configured maximum, whatever the frames, crashes and interleavings; and the tables of client   *)
(* and runtime hold only sessions and calls that exist (session.rs acquire_slot, session_thread). *)
THEOREM SlotsExact == Spec => []TypeOK
  <1>1. Init => SlotsCounted
    <2> SUFFICES ASSUME Init PROVE SlotsCounted
      OBVIOUS
    <2>1. Holding = {} /\ slots = 0
      BY DEF Init, Holding, All
    <2> QED
      BY <2>1, FS_EmptySet, SlotsAssumption DEF SlotsCounted
  <1>2. Types /\ CreatedOnce /\ SlotsCounted => TypeOK
    <2> SUFFICES ASSUME Types, CreatedOnce, SlotsCounted PROVE TypeOK
      OBVIOUS
    <2>1. \A s \in Sessions : handler[s] \in {0, execs[s]} /\ pending[s] \subseteq 1 .. Len(calls)
      BY DEF Types, ClientTypes, WireTypes
    <2> QED
      BY <2>1 DEF Types, ClientTypes, WireTypes, CreatedOnce, SlotsCounted, TypeOK
  <1> QED
    BY <1>1, <1>2, TypesAlways, CreatedOnceAlways, SlotsCountedKept, PTL DEF Spec

----------------------------------------------------------------------------
(* Frames in a queue *)

Is(f, t, s) == f.type = t /\ f.s = s

\* No frame of type t for session s; exactly one, and its number is n.
NoneIn(q, t, s) == \A i \in 1 .. Len(q) : ~Is(q[i], t, s)
OneIn(q, t, s, n) ==
    \E i \in 1 .. Len(q) : /\ Is(q[i], t, s) /\ q[i].n = n
                           /\ \A j \in 1 .. Len(q) : Is(q[j], t, s) => j = i

\* The frame that creates s, ahead of those that execute in it.
CreateFirst(q, s) ==
    \E i \in 1 .. Len(q) : /\ Is(q[i], "create", s)
                           /\ \A j \in 1 .. Len(q) : Is(q[j], "execute", s) => i < j

LEMMA FramesAppend ==
    ASSUME NEW q \in Seq(Frames), NEW f \in Frames
    PROVE  /\ Append(q, f) \in Seq(Frames) /\ Len(Append(q, f)) = Len(q) + 1 /\ Len(q) \in Nat
           /\ Append(q, f)[Len(q) + 1] = f
           /\ \A i \in 1 .. Len(q) : Append(q, f)[i] = q[i] /\ i \in 1 .. Len(Append(q, f)) /\ i # Len(q) + 1
                                     /\ i < Len(q) + 1
           /\ \A i \in 1 .. Len(Append(q, f)) : i \in 1 .. Len(q) \/ i = Len(q) + 1
           /\ Len(q) + 1 \in 1 .. Len(Append(q, f))
  OBVIOUS

LEMMA FramesTail ==
    ASSUME NEW q \in Seq(Frames), q # <<>>
    PROVE  /\ Tail(q) \in Seq(Frames) /\ Head(q) = q[1] /\ 1 \in 1 .. Len(q)
           /\ \A i \in 1 .. Len(Tail(q)) : Tail(q)[i] = q[i + 1] /\ i + 1 \in 1 .. Len(q)
           /\ \A i \in 1 .. Len(q) : i = 1 \/ (i - 1 \in 1 .. Len(Tail(q)) /\ Tail(q)[i - 1] = q[i])
           /\ \A i \in 1 .. Len(q) : \A j \in 1 .. Len(Tail(q)) : j + 1 = i => j = i - 1
           /\ \A i \in 1 .. Len(q) : \A j \in 1 .. Len(Tail(q)) : i < j + 1 => i - 1 < j
           /\ \A i \in 1 .. Len(q) : ~(i < 1)
           /\ \A j \in 1 .. Len(Tail(q)) : j + 1 # 1
  OBVIOUS

LEMMA NoneAppend ==
    ASSUME NEW q \in Seq(Frames), NEW f \in Frames, NEW t, NEW s, NoneIn(q, t, s)
    PROVE  /\ ~Is(f, t, s) => NoneIn(Append(q, f), t, s)
           /\ Is(f, t, s) => OneIn(Append(q, f), t, s, f.n)
  <1> DEFINE p == Append(q, f)
             k == Len(q) + 1
  <1>1. p[k] = f /\ k \in 1 .. Len(p) /\ \A i \in 1 .. Len(p) : (i \in 1 .. Len(q) /\ p[i] = q[i]) \/ i = k
    BY FramesAppend
  <1> HIDE DEF p, k
  <1>2. /\ ~Is(f, t, s) => NoneIn(p, t, s)
        /\ Is(f, t, s) => OneIn(p, t, s, f.n)
    BY ONLY <1>1, NoneIn(q, t, s) DEF NoneIn, OneIn, Is
  <1> QED
    BY <1>2 DEF p

LEMMA OneAppend ==
    ASSUME NEW q \in Seq(Frames), NEW f \in Frames, NEW t, NEW s, NEW n, OneIn(q, t, s, n), ~Is(f, t, s)
    PROVE  OneIn(Append(q, f), t, s, n)
  <1> DEFINE p == Append(q, f)
             k == Len(q) + 1
  <1>1. /\ p[k] = f /\ \A i \in 1 .. Len(p) : (i \in 1 .. Len(q) /\ p[i] = q[i]) \/ i = k
        /\ \A i \in 1 .. Len(q) : i \in 1 .. Len(p) /\ p[i] = q[i]
    BY FramesAppend
  <1> HIDE DEF p, k
  <1>2. OneIn(p, t, s, n)
    BY ONLY <1>1, OneIn(q, t, s, n), ~Is(f, t, s) DEF OneIn, Is
  <1> QED
    BY <1>2 DEF p

LEMMA CreateAppend ==
    ASSUME NEW q \in Seq(Frames), NEW f \in Frames, NEW s,
           CreateFirst(q, s) \/ (NoneIn(q, "execute", s) /\ Is(f, "create", s))
    PROVE  CreateFirst(Append(q, f), s)
  <1> DEFINE p == Append(q, f)
             k == Len(q) + 1
  <1>1. /\ p[k] = f /\ k \in 1 .. Len(p) /\ \A i \in 1 .. Len(p) : (i \in 1 .. Len(q) /\ p[i] = q[i]) \/ i = k
        /\ \A i \in 1 .. Len(q) : i \in 1 .. Len(p) /\ p[i] = q[i] /\ i < k
    BY FramesAppend
  <1> HIDE DEF p, k
  <1>2. CASE CreateFirst(q, s)
    <2>1. CreateFirst(p, s)
      BY ONLY <1>1, <1>2 DEF CreateFirst
    <2> QED
      BY <2>1 DEF p
  <1>3. CASE NoneIn(q, "execute", s) /\ Is(f, "create", s)
    <2>1. CreateFirst(p, s)
      BY ONLY <1>1, <1>3 DEF CreateFirst, NoneIn, Is
    <2> QED
      BY <2>1 DEF p
  <1> QED
    BY <1>2, <1>3

LEMMA NoneTail ==
    ASSUME NEW q \in Seq(Frames), q # <<>>, NEW t, NEW s, NoneIn(q, t, s)
    PROVE  ~Is(Head(q), t, s) /\ NoneIn(Tail(q), t, s)
  <1>1. NoneIn(Tail(q), t, s)
    BY FramesTail DEF NoneIn
  <1> QED
    BY <1>1, FramesTail DEF NoneIn

LEMMA OneTail ==
    ASSUME NEW q \in Seq(Frames), q # <<>>, NEW t, NEW s, NEW n, OneIn(q, t, s, n)
    PROVE  /\ Is(Head(q), t, s) => Head(q).n = n /\ NoneIn(Tail(q), t, s)
           /\ ~Is(Head(q), t, s) => OneIn(Tail(q), t, s, n)
  <1>1. PICK k \in 1 .. Len(q) : /\ Is(q[k], t, s) /\ q[k].n = n
                                 /\ \A j \in 1 .. Len(q) : Is(q[j], t, s) => j = k
    BY DEF OneIn
  <1>2. CASE Is(Head(q), t, s)
    <2>1. k = 1
      BY <1>1, <1>2, FramesTail
    <2>2. ASSUME NEW j \in 1 .. Len(Tail(q)), Is(Tail(q)[j], t, s) PROVE FALSE
      BY <1>1, <2>1, <2>2, FramesTail
    <2> QED
      BY <1>1, <1>2, <2>1, <2>2, FramesTail DEF NoneIn
  <1>3. CASE ~Is(Head(q), t, s)
    <2>1. k - 1 \in 1 .. Len(Tail(q)) /\ Tail(q)[k - 1] = q[k]
      BY <1>1, <1>3, FramesTail
    <2>2. \A j \in 1 .. Len(Tail(q)) : Is(Tail(q)[j], t, s) => j = k - 1
      BY <1>1, FramesTail
    <2> QED
      BY <1>1, <1>3, <2>1, <2>2 DEF OneIn
  <1> QED
    BY <1>2, <1>3

LEMMA CreateTail ==
    ASSUME NEW q \in Seq(Frames), q # <<>>, NEW s, CreateFirst(q, s)
    PROVE  /\ ~Is(Head(q), "execute", s)
           /\ ~Is(Head(q), "create", s) => CreateFirst(Tail(q), s)
  <1>1. PICK k \in 1 .. Len(q) : /\ Is(q[k], "create", s)
                                 /\ \A j \in 1 .. Len(q) : Is(q[j], "execute", s) => k < j
    BY DEF CreateFirst
  <1>2. ~Is(Head(q), "execute", s)
    BY <1>1, FramesTail
  <1>3. ASSUME ~Is(Head(q), "create", s) PROVE CreateFirst(Tail(q), s)
    <2>1. k - 1 \in 1 .. Len(Tail(q)) /\ Tail(q)[k - 1] = q[k]
      BY <1>1, <1>3, FramesTail
    <2>2. \A j \in 1 .. Len(Tail(q)) : Is(Tail(q)[j], "execute", s) => k - 1 < j
      BY <1>1, FramesTail
    <2> QED
      BY <1>1, <2>1, <2>2 DEF CreateFirst
  <1> QED
    BY <1>2, <1>3

----------------------------------------------------------------------------
(* The order of the frames of a session *)

\* Until destroy() is called the runtime knows the session, or will before it is to execute in it.
Ordered(s) ==
    s \notin destroyed =>
        /\ s \notin opened => NoneIn(wire, "execute", s)
        /\ s \in opened => s \in sessions \/ CreateFirst(wire, s)
        /\ at[s] # "none" => s \in sessions
        /\ NoneIn(wire, "destroy", s) /\ NoneIn(chan[s], "shutdown", s)

OwnFrames(s) == \A i \in 1 .. Len(chan[s]) : chan[s][i].s = s

OrderInv == alive => \A s \in Sessions : Ordered(s) /\ OwnFrames(s)

LEMMA OwnEffect ==
    ASSUME Types, NEW s \in Sessions, Own(s)
    PROVE  /\ alive /\ alive'
           /\ UNCHANGED <<opened, destroyed, sessions, wire, handler, execs, handling>>
           /\ at'[s] = at[s] \/ at[s] # "none"
           /\ \/ chan'[s] = chan[s] \/ (chan[s] # <<>> /\ chan'[s] = Tail(chan[s]))
              \/ chan'[s] = <<>>
  <1>1. CASE Working(s)
    <2>1. /\ alive /\ proc' = proc
          /\ UNCHANGED <<opened, destroyed, sessions, wire, handler, execs, handling>>
      BY <1>1 DEF Working, UserCode, SyncReceives, SyncFails, LoopTop, LoopDispatches, LoopDrained,
         LoopReceives, LoopAborts, LoopPolls, CallSync, CallAsync, Call, Returns, Interrupt, outside, client
    <2>2. chan'[s] = chan[s] \/ (chan[s] # <<>> /\ chan'[s] = Tail(chan[s]))
      BY <1>1 DEF Working, UserCode, SyncReceives, SyncFails, LoopTop, LoopDispatches, LoopDrained, Heard,
         LoopReceives, LoopAborts, LoopPolls, CallSync, CallAsync, Returns, Interrupt, Types, ThreadTypes
    <2> QED
      BY <1>1, <2>1, <2>2, WorkingEffect DEF Busy, alive
  <1>2. CASE ~Working(s)
    <2>1. \/ AcquireSlot(s) \/ Stop(s) \/ IgnoreFrame(s) \/ InitScriptFails(s)
          \/ (\E mode \in {"exec", "run"} : StartExecution(s, mode))
          \/ CheckTimeout(s) \/ SendResult(s) \/ TimerStep(s)
      BY <1>2 DEF Own, Thread, Working
    <2> QED
      BY <2>1 DEF AcquireSlot, Stop, IgnoreFrame, InitScriptFails, StartExecution, CheckTimeout, SendResult,
         TimerStep, Heard, Types, ThreadTypes, outside, client, alive
  <1> QED
    BY <1>1, <1>2

LEMMA OrderSame ==
    ASSUME Types, NEW x \in Sessions, Ordered(x) /\ OwnFrames(x),
           UNCHANGED <<opened, sessions, wire>>, destroyed \subseteq destroyed',
           at'[x] = at[x] \/ at[x] # "none",
           \/ chan'[x] = chan[x] \/ (chan[x] # <<>> /\ chan'[x] = Tail(chan[x])) \/ chan'[x] = <<>>
    PROVE  (Ordered(x) /\ OwnFrames(x))'
  <1>1. chan[x] \in Seq(Frames)
    BY DEF Types, ThreadTypes
  <1>2. NoneIn(chan[x], "shutdown", x) => NoneIn(chan'[x], "shutdown", x)
    <2>1. NoneIn(<<>>, "shutdown", x)
      BY DEF NoneIn
    <2> QED
      BY <1>1, <2>1, NoneTail
  <1>3. OwnFrames(x)'
    <2>1. CASE chan'[x] = <<>> \/ chan'[x] = chan[x]
      BY <2>1 DEF OwnFrames
    <2>2. CASE chan[x] # <<>> /\ chan'[x] = Tail(chan[x])
      BY <1>1, <2>2, FramesTail DEF OwnFrames
    <2> QED
      BY <2>1, <2>2
  <1>4. Ordered(x)'
    BY <1>2 DEF Ordered
  <1> QED
    BY <1>3, <1>4

LEMMA OrderWritten ==
    ASSUME Types, NEW x \in Sessions, Ordered(x) /\ OwnFrames(x), NEW f \in Frames, wire' = Append(wire, f),
           UNCHANGED <<sessions, at, chan>>, destroyed \subseteq destroyed',
           x \notin destroyed' => /\ x \in opened' => x \in opened \/ Is(f, "create", x)
                                  /\ x \in opened => x \in opened'
                                  /\ Is(f, "execute", x) => x \in opened
                                  /\ ~Is(f, "destroy", x)
    PROVE  (Ordered(x) /\ OwnFrames(x))'
  <1>1. wire \in Seq(Frames)
    BY DEF Types, WireTypes
  <1>2. OwnFrames(x)'
    BY DEF OwnFrames
  <1>3. ASSUME x \notin destroyed' PROVE Ordered(x)'
    <2>1. x \notin destroyed
      BY <1>3
    <2>2. NoneIn(wire', "destroy", x)
      BY <1>1, <1>3, <2>1, NoneAppend DEF Ordered
    <2>3. x \notin opened' => NoneIn(wire', "execute", x)
      BY <1>1, <1>3, <2>1, NoneAppend DEF Ordered
    <2>4. x \in opened' => x \in sessions \/ CreateFirst(wire', x)
      <3>1. CASE x \in opened
        BY <1>1, <2>1, <3>1, CreateAppend DEF Ordered
      <3>2. CASE x \notin opened /\ Is(f, "create", x)
        BY <1>1, <2>1, <3>2, CreateAppend DEF Ordered
      <3> QED
        BY <1>3, <3>1, <3>2
    <2> QED
      BY <2>1, <2>2, <2>3, <2>4 DEF Ordered
  <1> QED
    BY <1>2, <1>3 DEF Ordered

LEMMA ClientOrderKept ==
    ASSUME Types, OrderInv, alive, NEW s \in Sessions, Client(s), NEW x \in Sessions
    PROVE  (Ordered(x) /\ OwnFrames(x))'
  <1>1. Ordered(x) /\ OwnFrames(x)
    BY DEF OrderInv
  <1>2. UNCHANGED <<sessions, at, chan>>
    BY DEF Client, CreateSession, Execute, SendStreamEvent, DestroySession, runtime, thread
  <1>3. execs'[s] \in Nat
    BY ClientTypesKept DEF Types, ClientTypes
  <1>4. \A k \in {"create", "execute", "stream", "destroy"}, n \in Nat :
            /\ Frame(k, s, n) \in Frames
            /\ Frame(k, s, n).type = k /\ Frame(k, s, n).s = s
    BY FrameType DEF Kinds
  <1>5. PICK k \in {"create", "execute", "stream", "destroy"}, n \in Nat :
            /\ wire' = Append(wire, Frame(k, s, n))
            /\ \/ k = "create" /\ opened' = opened \cup {s} /\ destroyed' = destroyed
               \/ k \in {"execute", "stream"} /\ s \in opened /\ UNCHANGED <<opened, destroyed>>
               \/ k = "destroy" /\ destroyed' = destroyed \cup {s} /\ opened' = opened
    BY <1>3 DEF Client, CreateSession, Execute, SendStreamEvent, DestroySession, Written
  <1>6. PICK f \in Frames : f = Frame(k, s, n) /\ f.type = k /\ f.s = s
    BY <1>4
  <1>7. x \notin destroyed' => /\ x \in opened' => x \in opened \/ Is(f, "create", x)
                               /\ x \in opened => x \in opened'
                               /\ Is(f, "execute", x) => x \in opened
                               /\ ~Is(f, "destroy", x)
    BY <1>5, <1>6 DEF Is
  <1> QED
    BY <1>1, <1>2, <1>5, <1>6, <1>7, OrderWritten

LEMMA HandlerOrderKept ==
    ASSUME Types, OrderInv, alive, NEW c \in handling, HandlerReturns(c), NEW x \in Sessions
    PROVE  (Ordered(x) /\ OwnFrames(x))'
  <1>1. Ordered(x) /\ OwnFrames(x)
    BY DEF OrderInv
  <1>2. UNCHANGED <<opened, destroyed, sessions, at, chan>>
    BY DEF HandlerReturns, runtime, thread
  <1>3. calls[c].s \in Sessions /\ c \in Nat
    <2>1. c \in 1 .. Len(calls) /\ calls \in Seq(Calls)
      BY DEF Types, WireTypes
    <2>2. calls[c] \in Calls /\ c \in Nat
      BY ONLY <2>1
    <2> QED
      BY <2>2 DEF Calls
  <1>4. PICK f \in Frames : wire' = Append(wire, f) /\ f.type = "response"
    BY <1>3, FrameType DEF HandlerReturns, Written, Kinds
  <1> QED
    BY <1>1, <1>2, <1>4, OrderWritten DEF Is

LEMMA ConnOrderKept ==
    ASSUME Types, OrderInv, alive, Conn, NEW x \in Sessions
    PROVE  (Ordered(x) /\ OwnFrames(x))'
  <1>1. Ordered(x) /\ OwnFrames(x)
    BY DEF OrderInv
  <1>2. UNCHANGED <<opened, destroyed>>
    BY DEF Conn, ConnCreates, ConnDestroys, ConnJoins, ConnRoutesResponse, ConnForwards, client
  <1>3. CASE ConnJoins
    BY <1>1, <1>3, OrderSame DEF ConnJoins, client, thread
  <1>4. CASE ~ConnJoins
    <2>1. wire \in Seq(Frames) /\ wire # <<>> /\ wire' = Tail(wire)
      BY <1>4 DEF Conn, ConnCreates, ConnDestroys, ConnRoutesResponse, ConnForwards, NextFrame, Types, WireTypes
    <2> DEFINE h == Head(wire)
    <2>2. h \in Frames /\ h.s \in Sessions
      <3>1. h \in Frames
        BY ONLY <2>1
      <3> QED
        BY <3>1 DEF Frames
    <2>3. \/ /\ h.type = "create" /\ sessions' = sessions \cup {h.s} /\ chan' = chan
             /\ at' = [at EXCEPT ![h.s] = "queued"]
          \/ /\ h.type = "destroy" /\ sessions' = sessions \ {h.s} /\ at' = at
             /\ chan' = [chan EXCEPT ![h.s] = Append(@, Shutdown(h.s))]
          \/ /\ h.type \in {"response", "execute", "stream"} /\ sessions' = sessions /\ at' = at
             /\ chan' = chan \/ chan' = [chan EXCEPT ![h.s] = Append(@, h)]
      BY <1>4 DEF Conn, ConnCreates, ConnDestroys, ConnRoutesResponse, ConnForwards, NextFrame, Sent
    <2> HIDE DEF h
    <2>4. at \in [Sessions -> Points] /\ chan \in [Sessions -> Seq(Frames)] /\ chan[x] \in Seq(Frames)
      BY DEF Types, ThreadTypes
    <2>5. Shutdown(h.s) \in Frames /\ Is(Shutdown(h.s), "shutdown", h.s)
      BY <2>2, FrameType DEF Shutdown, Kinds, Is
    <2>6. \/ chan'[x] = chan[x]
          \/ \E f \in Frames : chan'[x] = Append(chan[x], f) /\ f.s = x
                               /\ (f.type = "shutdown" => Is(h, "destroy", x))
      BY <2>2, <2>3, <2>4, <2>5 DEF Is
    <2>7. OwnFrames(x)'
      <3>1. CASE chan'[x] = chan[x]
        BY <1>1, <3>1 DEF OwnFrames
      <3>2. ASSUME NEW f \in Frames, chan'[x] = Append(chan[x], f), f.s = x PROVE OwnFrames(x)'
        BY <1>1, <2>4, <3>2, FramesAppend DEF OwnFrames
      <3> QED
        BY <2>6, <3>1, <3>2
    <2>8. ASSUME x \notin destroyed PROVE Ordered(x)'
      <3>1. /\ ~Is(h, "destroy", x) /\ NoneIn(wire', "destroy", x)
            /\ x \notin opened => NoneIn(wire', "execute", x)
        BY <1>1, <2>1, <2>8, NoneTail DEF Ordered, h
      <3>2. NoneIn(chan'[x], "shutdown", x)
        <4>1. ASSUME NEW f \in Frames, chan'[x] = Append(chan[x], f), f.type # "shutdown"
              PROVE  NoneIn(chan'[x], "shutdown", x)
          <5>1. ~Is(f, "shutdown", x) /\ NoneIn(chan[x], "shutdown", x)
            BY <1>1, <2>8, <4>1 DEF Is, Ordered
          <5> QED
            BY <2>4, <4>1, <5>1, NoneAppend
        <4> QED
          BY <1>1, <2>6, <2>8, <3>1, <4>1 DEF Ordered
      <3>3. x \in opened => x \in sessions' \/ CreateFirst(wire', x)
        <4>1. x \in sessions => x \in sessions'
          BY <2>3, <3>1 DEF Is
        <4>2. Is(h, "create", x) => x \in sessions'
          BY <2>3 DEF Is
        <4>3. CreateFirst(wire, x) /\ ~Is(h, "create", x) => CreateFirst(wire', x)
          BY <2>1, CreateTail DEF h
        <4> QED
          BY <1>1, <2>8, <4>1, <4>2, <4>3 DEF Ordered
      <3>4. at'[x] # "none" => x \in sessions'
        BY <1>1, <2>2, <2>3, <2>4, <2>8, <3>1 DEF Is, Ordered
      <3> QED
        BY <1>2, <3>1, <3>2, <3>3, <3>4 DEF Ordered
    <2> QED
      BY <1>2, <2>7, <2>8 DEF Ordered
  <1> QED
    BY <1>3, <1>4

LEMMA OrderInvKept == Types /\ OrderInv /\ [Next]_vars => OrderInv'
  <1> SUFFICES ASSUME Types, OrderInv, [Next]_vars, alive', NEW x \in Sessions
               PROVE  (Ordered(x) /\ OwnFrames(x))'
    BY DEF OrderInv
  <1>1. CASE OnMessage \/ UNCHANGED vars
    <2>1. alive /\ UNCHANGED <<opened, destroyed, sessions, wire, at, chan>>
      BY <1>1 DEF OnMessage, vars, client, thread, alive
    <2> QED
      BY <2>1, OrderSame DEF OrderInv
  <1>2. CASE RuntimeExits \/ OnExit
    BY <1>2 DEF RuntimeExits, OnExit, alive
  <1>3. ASSUME NEW c \in handling, HandlerReturns(c) PROVE (Ordered(x) /\ OwnFrames(x))'
    <2>1. alive
      BY <1>3 DEF HandlerReturns, runtime, alive
    <2> QED
      BY <1>3, <2>1, HandlerOrderKept
  <1>4. ASSUME NEW s \in Sessions, Client(s) PROVE (Ordered(x) /\ OwnFrames(x))'
    <2>1. alive
      BY <1>4 DEF Client, CreateSession, Execute, SendStreamEvent, DestroySession, runtime, alive
    <2> QED
      BY <1>4, <2>1, ClientOrderKept
  <1>5. CASE Conn
    <2>1. alive
      BY <1>5 DEF Conn, ConnCreates, ConnDestroys, ConnJoins, ConnRoutesResponse, ConnForwards, NextFrame
    <2> QED
      BY <1>5, <2>1, ConnOrderKept
  <1>6. ASSUME NEW s \in Sessions, Own(s) PROVE (Ordered(x) /\ OwnFrames(x))'
    <2>1. alive /\ UNCHANGED <<opened, destroyed, sessions, wire>> /\ Ordered(x) /\ OwnFrames(x)
      BY <1>6, OwnEffect DEF OrderInv
    <2>2. /\ at'[x] = at[x] \/ at[x] # "none"
          /\ chan'[x] = chan[x] \/ (chan[x] # <<>> /\ chan'[x] = Tail(chan[x])) \/ chan'[x] = <<>>
      BY <1>6, OwnEffect, OthersUntouched DEF Untouched
    <2> QED
      BY <2>1, <2>2, OrderSame
  <1> QED
    BY <1>1, <1>2, <1>3, <1>4, <1>5, <1>6 DEF Next, Own

LEMMA OrderAlways == Spec => []OrderInv
  <1>1. Init => OrderInv
    BY DEF Init, OrderInv, Ordered, OwnFrames, NoneIn, All
  <1> QED
    BY <1>1, TypesAlways, OrderInvKept, PTL DEF Spec

----------------------------------------------------------------------------
(* The one place of an execution *)

\* The queue p has the frames of type t for session s that q had, as far as none and one go.
Keeps(q, p, t, s) ==
    /\ NoneIn(q, t, s) => NoneIn(p, t, s)
    /\ \A n : OneIn(q, t, s, n) => OneIn(p, t, s, n)

LEMMA KeepsAppend ==
    ASSUME NEW q \in Seq(Frames), NEW f \in Frames, NEW t, NEW s, ~Is(f, t, s)
    PROVE  Keeps(q, Append(q, f), t, s)
  BY NoneAppend, OneAppend DEF Keeps

LEMMA KeepsTail ==
    ASSUME NEW q \in Seq(Frames), q # <<>>, NEW t, NEW s, ~Is(Head(q), t, s)
    PROVE  Keeps(q, Tail(q), t, s)
  BY NoneTail, OneTail DEF Keeps

LEMMA KeepsSame ==
    ASSUME NEW q, NEW t, NEW s
    PROVE  Keeps(q, q, t, s)
  BY DEF Keeps

Places == {"nowhere", "wire", "chan", "thread", "back"}

\* The execution the client awaits in s is at one place, and no other is anywhere.
PlacedAt(s, place) ==
    /\ place = "nowhere" <=> handler[s] = 0
    /\ IF place = "wire" THEN OneIn(wire, "execute", s, handler[s]) ELSE NoneIn(wire, "execute", s)
    /\ IF place = "chan" THEN OneIn(chan[s], "execute", s, handler[s]) ELSE NoneIn(chan[s], "execute", s)
    /\ run[s].n = IF place = "thread" THEN handler[s] ELSE 0
    /\ IF place = "back" THEN OneIn(back, "result", s, handler[s]) ELSE NoneIn(back, "result", s)

Placed(s) ==
    /\ \E place \in Places : PlacedAt(s, place)
    /\ at[s] \in Busy => run[s].n # 0

AwaitedInv == \A s \in Sessions : handler[s] # 0 => s \in opened \ destroyed

PlaceInv == alive => \A s \in Sessions \ destroyed : Placed(s)

LEMMA PlacedSame ==
    ASSUME NEW x \in Sessions, Placed(x), handler'[x] = handler[x], run'[x].n = run[x].n,
           Keeps(wire, wire', "execute", x), Keeps(chan[x], chan'[x], "execute", x),
           Keeps(back, back', "result", x), at'[x] \in Busy => at[x] \in Busy
    PROVE  Placed(x)'
  <1>1. PICK place \in Places : PlacedAt(x, place)
    BY DEF Placed
  <1>2. PlacedAt(x, place)'
    BY <1>1 DEF PlacedAt, Keeps
  <1> QED
    BY <1>2 DEF Placed

LEMMA AwaitedKept == Types /\ AwaitedInv /\ [Next]_vars => AwaitedInv'
  <1> SUFFICES ASSUME Types, AwaitedInv, [Next]_vars, NEW x \in Sessions, handler'[x] # 0
               PROVE  x \in opened' \ destroyed'
    BY DEF AwaitedInv
  <1>1. ASSUME NEW s \in Sessions, Client(s) PROVE x \in opened' \ destroyed'
    BY <1>1 DEF Client, CreateSession, Execute, SendStreamEvent, DestroySession, AwaitedInv, Types, ClientTypes
  <1>2. CASE OnMessage
    <2>1. UNCHANGED <<opened, destroyed>> /\ handler'[x] \in {0, handler[x]}
      BY <1>2 DEF OnMessage, Types, ClientTypes
    <2> QED
      BY <2>1 DEF AwaitedInv
  <1>3. CASE OnExit
    BY <1>3 DEF OnExit, All
  <1>4. CASE RuntimeExits \/ Conn \/ (\E c \in handling : HandlerReturns(c)) \/ UNCHANGED vars
    BY <1>4 DEF RuntimeExits, Conn, ConnCreates, ConnDestroys, ConnJoins, ConnRoutesResponse, ConnForwards,
          HandlerReturns, vars, client, AwaitedInv
  <1>5. ASSUME NEW s \in Sessions, Own(s) PROVE x \in opened' \ destroyed'
    BY <1>5, OwnEffect DEF AwaitedInv
  <1> QED
    BY <1>1, <1>2, <1>3, <1>4, <1>5 DEF Next, Own

LEMMA ClientPlaceKept ==
    ASSUME Types, PlaceInv, alive, NEW s \in Sessions, Client(s), NEW x \in Sessions \ destroyed'
    PROVE  Placed(x)'
  <1>0. x \notin destroyed /\ Placed(x)
    BY DEF Client, CreateSession, Execute, SendStreamEvent, DestroySession, PlaceInv
  <1>1. UNCHANGED <<back, at, chan, run>>
    BY DEF Client, CreateSession, Execute, SendStreamEvent, DestroySession, runtime, thread
  <1>2. wire \in Seq(Frames) /\ execs[s] \in Nat /\ handler \in [Sessions -> Nat] /\ execs \in [Sessions -> Nat]
    BY DEF Types, ClientTypes, WireTypes
  <1>3. CASE Execute(s) /\ x = s
    <2>1. /\ handler[s] = 0 /\ execs'[s] = execs[s] + 1 /\ handler'[s] = execs[s] + 1
          /\ wire' = Append(wire, Frame("execute", s, execs[s] + 1))
      BY <1>2, <1>3 DEF Execute, Written
    <2>2. PICK f \in Frames : /\ f = Frame("execute", s, execs[s] + 1)
                              /\ Is(f, "execute", s) /\ f.n = execs[s] + 1
      BY <1>2, FrameType DEF Kinds, Is
    <2>3. PlacedAt(s, "nowhere")
      BY <1>0, <1>3, <2>1 DEF Placed, PlacedAt, Places
    <2>4. OneIn(wire', "execute", s, handler'[s])
      BY <1>2, <2>1, <2>2, <2>3, NoneAppend DEF PlacedAt
    <2>5. PlacedAt(s, "wire")'
      BY <1>1, <1>2, <2>1, <2>3, <2>4 DEF PlacedAt
    <2> QED
      BY <1>0, <1>1, <1>3, <2>5 DEF Placed, Places
  <1>4. CASE ~(Execute(s) /\ x = s)
    <2>1. handler'[x] = handler[x]
      BY <1>2, <1>4 DEF Client, CreateSession, Execute, SendStreamEvent, DestroySession
    <2>2. execs'[s] \in Nat
      BY ClientTypesKept DEF Types, ClientTypes
    <2>3. PICK k \in {"create", "execute", "stream", "destroy"}, n \in Nat :
              wire' = Append(wire, Frame(k, s, n)) /\ (k = "execute" => x # s)
      BY <1>4, <2>2 DEF Client, CreateSession, Execute, SendStreamEvent, DestroySession, Written
    <2>4. PICK f \in Frames : f = Frame(k, s, n) /\ ~Is(f, "execute", x)
      BY <2>3, FrameType DEF Kinds, Is
    <2>5. Keeps(wire, wire', "execute", x)
      BY <1>2, <2>3, <2>4, KeepsAppend
    <2> QED
      BY <1>0, <1>1, <2>1, <2>5, PlacedSame, KeepsSame
  <1> QED
    BY <1>3, <1>4

LEMMA MessagePlaceKept ==
    ASSUME Types, PlaceInv, alive, OnMessage, NEW x \in Sessions \ destroyed
    PROVE  Placed(x)'
  <1>0. Placed(x)
    BY DEF PlaceInv
  <1>1. UNCHANGED <<wire, at, chan, run>>
    BY DEF OnMessage, thread
  <1>2. back \in Seq(Frames) /\ back # <<>> /\ back' = Tail(back) /\ handler \in [Sessions -> Nat]
    BY DEF OnMessage, Types, ClientTypes, WireTypes
  <1>3. CASE Is(Head(back), "result", x)
    <2>1. PlacedAt(x, "back")
      BY <1>0, <1>2, <1>3, NoneTail DEF Placed, PlacedAt, Places
    <2>2. NoneIn(back', "result", x)
      BY <1>2, <1>3, <2>1, OneTail DEF PlacedAt
    <2>3. handler'[x] = 0
      BY <1>2, <1>3 DEF OnMessage, Is
    <2>4. PlacedAt(x, "nowhere")'
      BY <1>1, <2>1, <2>2, <2>3 DEF PlacedAt
    <2> QED
      BY <1>0, <1>1, <2>4 DEF Placed, Places
  <1>4. CASE ~Is(Head(back), "result", x)
    <2>1. handler'[x] = handler[x]
      BY <1>2, <1>4 DEF OnMessage, Is
    <2>2. Keeps(back, back', "result", x)
      BY <1>2, <1>4, KeepsTail
    <2> QED
      BY <1>0, <1>1, <2>1, <2>2, PlacedSame, KeepsSame
  <1> QED
    BY <1>3, <1>4

LEMMA HandlerPlaceKept ==
    ASSUME Types, PlaceInv, alive, NEW c \in handling, HandlerReturns(c), NEW x \in Sessions \ destroyed
    PROVE  Placed(x)'
  <1>1. UNCHANGED <<back, at, chan, run, handler>> /\ Placed(x) /\ wire \in Seq(Frames)
    BY DEF HandlerReturns, runtime, thread, PlaceInv, Types, WireTypes
  <1>2. calls[c].s \in Sessions /\ c \in Nat
    <2>1. c \in 1 .. Len(calls) /\ calls \in Seq(Calls)
      BY DEF Types, WireTypes
    <2>2. calls[c] \in Calls /\ c \in Nat
      BY ONLY <2>1
    <2> QED
      BY <2>2 DEF Calls
  <1>3. PICK f \in Frames : wire' = Append(wire, f) /\ f.type = "response"
    BY <1>2, FrameType DEF HandlerReturns, Written, Kinds
  <1>4. Keeps(wire, wire', "execute", x)
    BY <1>1, <1>3, KeepsAppend DEF Is
  <1> QED
    BY <1>1, <1>4, PlacedSame, KeepsSame

LEMMA ConnPlaceKept ==
    ASSUME Types, OrderInv, PlaceInv, alive, Conn, NEW x \in Sessions \ destroyed
    PROVE  Placed(x)'
  <1>0. Placed(x) /\ Ordered(x) /\ wire \in Seq(Frames) /\ chan \in [Sessions -> Seq(Frames)]
    BY DEF PlaceInv, OrderInv, Types, ThreadTypes, WireTypes
  <1>1. UNCHANGED <<back, run, handler>>
    BY DEF Conn, ConnCreates, ConnDestroys, ConnJoins, ConnRoutesResponse, ConnForwards, client, thread
  <1>2. at'[x] \in Busy => at[x] \in Busy
    BY DEF Conn, ConnCreates, ConnDestroys, ConnJoins, ConnRoutesResponse, ConnForwards, thread,
           Types, ThreadTypes, Busy
  <1>3. CASE ConnJoins
    BY <1>0, <1>1, <1>3, PlacedSame, KeepsSame DEF ConnJoins, thread
  <1>4. CASE ~ConnJoins
    <2>1. wire # <<>> /\ wire' = Tail(wire)
      BY <1>4 DEF Conn, ConnCreates, ConnDestroys, ConnRoutesResponse, ConnForwards, NextFrame
    <2> DEFINE h == Head(wire)
    <2>2. h \in Frames /\ h.s \in Sessions
      <3>1. h \in Frames
        BY ONLY <1>0, <2>1
      <3> QED
        BY <3>1 DEF Frames
    <2>3. CASE Is(h, "execute", x)
      <3>1. x \in sessions
        <4>1. x \in opened
          BY <1>0, <2>1, <2>3, NoneTail DEF Ordered
        <4>2. ~CreateFirst(wire, x)
          BY <1>0, <2>1, <2>3, CreateTail
        <4> QED
          BY <1>0, <4>1, <4>2 DEF Ordered
      <3>2. chan' = [chan EXCEPT ![x] = Append(@, h)]
        BY <1>4, <2>3, <3>1 DEF Conn, ConnCreates, ConnDestroys, ConnRoutesResponse, ConnForwards, NextFrame,
              Sent, Is
      <3>3. PlacedAt(x, "wire")
        BY <1>0, <2>1, <2>3, NoneTail DEF Placed, PlacedAt, Places
      <3>4. h.n = handler[x] /\ NoneIn(wire', "execute", x)
        BY <1>0, <2>1, <2>3, <3>3, OneTail DEF PlacedAt
      <3> HIDE DEF h
      <3>5. chan[x] \in Seq(Frames) /\ chan'[x] = Append(chan[x], h)
        BY <1>0, <3>2
      <3>6. OneIn(chan'[x], "execute", x, handler[x])
        BY <2>2, <2>3, <3>3, <3>4, <3>5, NoneAppend DEF PlacedAt
      <3>7. PlacedAt(x, "chan")'
        BY <1>1, <3>3, <3>4, <3>6 DEF PlacedAt
      <3> QED
        BY <1>0, <1>1, <1>2, <3>7 DEF Placed, Places
    <2>4. CASE ~Is(h, "execute", x)
      <3>1. Keeps(wire, wire', "execute", x)
        BY <1>0, <2>1, <2>4, KeepsTail
      <3>2. Keeps(chan[x], chan'[x], "execute", x)
        <4>1. \/ chan' = chan
              \/ h.type = "destroy" /\ chan' = [chan EXCEPT ![h.s] = Append(@, Shutdown(h.s))]
              \/ chan' = [chan EXCEPT ![h.s] = Append(@, h)]
          BY <1>4 DEF Conn, ConnCreates, ConnDestroys, ConnRoutesResponse, ConnForwards, NextFrame, Sent
        <4>2. Shutdown(h.s) \in Frames /\ Shutdown(h.s).type = "shutdown"
          BY <2>2, FrameType DEF Shutdown, Kinds
        <4> HIDE DEF h
        <4>3. chan'[x] = chan[x] \/ \E f \in Frames : chan'[x] = Append(chan[x], f) /\ ~Is(f, "execute", x)
          BY <1>0, <2>2, <2>4, <4>1, <4>2 DEF Is
        <4>4. chan[x] \in Seq(Frames)
          BY <1>0
        <4>5. ASSUME NEW f \in Frames, chan'[x] = Append(chan[x], f), ~Is(f, "execute", x)
              PROVE  Keeps(chan[x], chan'[x], "execute", x)
          BY <4>4, <4>5, KeepsAppend
        <4> QED
          BY <4>3, <4>5, KeepsSame
      <3> QED
        BY <1>0, <1>1, <1>2, <3>1, <3>2, PlacedSame, KeepsSame
    <2> QED
      BY <2>3, <2>4
  <1> QED
    BY <1>3, <1>4

\* What a session writes: a call or a result of its own.
LEMMA BackEffect ==
    ASSUME Types, NEW s \in Sessions, Own(s)
    PROVE  \/ back' = back /\ ~(CallSync(s) \/ CallAsync(s) \/ InitScriptFails(s) \/ SendResult(s))
           \/ /\ CallSync(s) \/ CallAsync(s)
              /\ \E f \in Frames : back' = Append(back, f) /\ f.type = "call" /\ f.s = s /\ f.n = Len(calls')
           \/ /\ InitScriptFails(s) \/ SendResult(s)
              /\ \E f \in Frames : back' = Append(back, f) /\ f.type = "result" /\ f.s = s
  <1>1. CASE CallSync(s) \/ CallAsync(s)
    <2>1. Types'
      BY <1>1, UserTypesKept DEF UserCode
    <2>2. Len(calls') \in Nat
      BY <2>1 DEF Types, WireTypes
    <2>3. back' = Append(back, Frame("call", s, Len(calls')))
      BY <1>1 DEF CallSync, CallAsync, Call
    <2> QED
      BY <1>1, <2>2, <2>3, FrameType DEF Kinds
  <1>2. CASE InitScriptFails(s)
    <2>1. Head(chan[s]) \in Frames
      BY <1>2, QueueTypes DEF InitScriptFails, Heard, Types, ThreadTypes
    <2>2. Head(chan[s]).n \in Nat
      BY <2>1 DEF Frames
    <2>3. back' = Append(back, Frame("result", s, Head(chan[s]).n))
      BY <1>2 DEF InitScriptFails
    <2> QED
      BY <1>2, <2>2, <2>3, FrameType DEF Kinds
  <1>3. CASE SendResult(s)
    <2>1. run[s].n \in Nat
      BY DEF Types, ThreadTypes, Runs
    <2>2. back' = Append(back, Frame("result", s, run[s].n))
      BY <1>3 DEF SendResult
    <2> QED
      BY <1>3, <2>1, <2>2, FrameType DEF Kinds
  <1>4. CASE ~(CallSync(s) \/ CallAsync(s) \/ InitScriptFails(s) \/ SendResult(s))
    BY <1>4 DEF Own, Thread, UserCode, AcquireSlot, Stop, IgnoreFrame, StartExecution,
         SyncReceives, SyncFails, LoopTop, LoopDispatches, LoopDrained, LoopReceives, LoopAborts, LoopPolls,
         CheckTimeout, Returns, Interrupt, TimerStep, outside
  <1> QED
    BY <1>1, <1>2, <1>3, <1>4

LEMMA OwnPlaceKept ==
    ASSUME Types, OrderInv, PlaceInv, NEW x \in Sessions \ destroyed, Own(x)
    PROVE  Placed(x)'
  <1>0. /\ Placed(x) /\ Ordered(x) /\ OwnFrames(x) /\ chan[x] \in Seq(Frames) /\ back \in Seq(Frames)
        /\ run[x] \in Runs /\ at \in [Sessions -> Points] /\ run \in [Sessions -> Runs]
        /\ chan \in [Sessions -> Seq(Frames)]
    BY OwnEffect DEF PlaceInv, OrderInv, Types, ThreadTypes, WireTypes
  <1>1. UNCHANGED <<wire, handler>>
    BY OwnEffect
  <1>2. chan[x] # <<>> => Is(Head(chan[x]), Head(chan[x]).type, x)
    BY <1>0, FramesTail DEF OwnFrames, Is
  <1>3. CASE Working(x)
    <2>1. at[x] \in Busy \ {"check", "cancel"} /\ at'[x] \in Busy /\ run'[x].n = run[x].n
      BY <1>3, WorkingEffect DEF SameRun
    <2>2. PlacedAt(x, "thread")
      BY <1>0, <2>1 DEF Placed, PlacedAt, Places
    <2>3. NoneIn(chan'[x], "execute", x)
      <3>1. NoneIn(chan[x], "execute", x)
        BY <2>2 DEF PlacedAt
      <3>2. CASE chan'[x] = <<>>
        BY <3>2 DEF NoneIn
      <3>3. CASE chan[x] # <<>> /\ chan'[x] = Tail(chan[x])
        BY <1>0, <3>1, <3>3, NoneTail
      <3> QED
        BY <3>1, <3>2, <3>3, OwnEffect
    <2>4. NoneIn(back', "result", x)
      <3>1. CASE back' = back
        BY <2>2, <3>1 DEF PlacedAt
      <3>2. CASE back' # back
        <4>1. ~InitScriptFails(x) /\ ~SendResult(x)
          BY <2>1 DEF InitScriptFails, SendResult, Busy
        <4>2. PICK f \in Frames : back' = Append(back, f) /\ f.type = "call"
          BY <3>2, <4>1, BackEffect
        <4>3. ~Is(f, "result", x) /\ NoneIn(back, "result", x)
          BY <2>2, <4>2 DEF Is, PlacedAt
        <4> QED
          BY <1>0, <4>2, <4>3, NoneAppend
      <3> QED
        BY <3>1, <3>2
    <2>5. PlacedAt(x, "thread")'
      BY <1>1, <2>1, <2>2, <2>3, <2>4 DEF PlacedAt
    <2> QED
      BY <1>0, <2>1, <2>5 DEF Placed, Places
  <1>4. CASE AcquireSlot(x) \/ TimerStep(x)
    <2>1. UNCHANGED <<chan, run, back>> /\ (at'[x] \in Busy => at[x] \in Busy)
      BY <1>0, <1>4 DEF AcquireSlot, TimerStep, outside, Busy
    <2> QED
      BY <1>0, <1>1, <2>1, PlacedSame, KeepsSame
  <1>5. CASE CheckTimeout(x)
    <2>1. UNCHANGED <<chan, back>> /\ at[x] \in Busy
      BY <1>5 DEF CheckTimeout, outside, Busy
    <2>2. run'[x].n = run[x].n
      BY <1>0, <1>5 DEF CheckTimeout, Runs
    <2> QED
      BY <1>0, <1>1, <2>1, <2>2, PlacedSame, KeepsSame
  <1>6. CASE Stop(x)
    <2>1. x \in sessions /\ NoneIn(chan[x], "shutdown", x)
      BY <1>0, <1>6 DEF Stop, Ordered
    <2>2. ~Heard(x, "shutdown")
      BY <1>0, <1>2, <2>1, NoneTail DEF Heard
    <2> QED
      BY <1>6, <2>1, <2>2 DEF Stop, Closed
  <1>7. CASE IgnoreFrame(x)
    <2>1. /\ UNCHANGED <<run, back, at>> /\ chan[x] # <<>> /\ chan'[x] = Tail(chan[x])
          /\ ~Is(Head(chan[x]), "execute", x)
      BY <1>0, <1>7 DEF IgnoreFrame, Heard, outside, Is
    <2>2. Keeps(chan[x], chan'[x], "execute", x)
      BY <1>0, <2>1, KeepsTail
    <2> QED
      BY <1>0, <1>1, <2>1, <2>2, PlacedSame, KeepsSame
  <1>8. ASSUME Heard(x, "execute"), chan'[x] = Tail(chan[x])
        PROVE  /\ PlacedAt(x, "chan") /\ NoneIn(chan'[x], "execute", x)
               /\ Head(chan[x]).n = handler[x] /\ handler[x] # 0
    <2>1. chan[x] # <<>> /\ Is(Head(chan[x]), "execute", x)
      BY <1>2, <1>8 DEF Heard
    <2>2. PlacedAt(x, "chan")
      BY <1>0, <2>1, NoneTail DEF Placed, PlacedAt, Places
    <2>3. NoneIn(chan'[x], "execute", x) /\ Head(chan[x]).n = handler[x]
      BY <1>0, <1>8, <2>1, <2>2, OneTail DEF PlacedAt
    <2> QED
      BY <2>2, <2>3 DEF PlacedAt
  <1>9. CASE InitScriptFails(x)
    <2>1. /\ Heard(x, "execute") /\ chan'[x] = Tail(chan[x]) /\ at' = at /\ run' = run
          /\ back' = Append(back, Frame("result", x, Head(chan[x]).n))
      BY <1>0, <1>9 DEF InitScriptFails
    <2>2. /\ PlacedAt(x, "chan") /\ NoneIn(chan'[x], "execute", x)
          /\ Head(chan[x]).n = handler[x] /\ handler[x] # 0
      BY <1>8, <2>1
    <2>3. handler[x] \in Nat
      BY DEF Types, ClientTypes
    <2>4. PICK f \in Frames : back' = Append(back, f) /\ Is(f, "result", x) /\ f.n = handler[x]
      BY <2>1, <2>2, <2>3, FrameType DEF Is, Kinds
    <2>5. OneIn(back', "result", x, handler[x])
      BY <1>0, <2>2, <2>4, NoneAppend DEF PlacedAt
    <2>6. PlacedAt(x, "back")'
      BY <1>1, <2>1, <2>2, <2>5 DEF PlacedAt
    <2> QED
      BY <1>0, <2>1, <2>6 DEF Placed, Places
  <1>10. ASSUME NEW mode \in {"exec", "run"}, StartExecution(x, mode) PROVE Placed(x)'
    <2>1. /\ Heard(x, "execute") /\ chan'[x] = Tail(chan[x]) /\ back' = back
          /\ run'[x] = [NoRun EXCEPT !.n = Head(chan[x]).n, !.mode = mode, !.stale = doomed[x]]
      BY <1>0, <1>10 DEF StartExecution, outside
    <2>2. /\ PlacedAt(x, "chan") /\ NoneIn(chan'[x], "execute", x)
          /\ Head(chan[x]).n = handler[x] /\ handler[x] # 0
      BY <1>8, <2>1
    <2>3. run'[x].n = handler[x]
      BY ONLY <2>1, <2>2 DEF NoRun
    <2>4. PlacedAt(x, "thread")'
      BY <1>1, <2>1, <2>2, <2>3 DEF PlacedAt
    <2> QED
      BY <1>1, <2>2, <2>3, <2>4 DEF Placed, Places
  <1>11. CASE SendResult(x)
    <2>1. /\ at[x] = "cancel" /\ at'[x] = "idle" /\ chan' = chan /\ run'[x] = NoRun
          /\ back' = Append(back, Frame("result", x, run[x].n))
      BY <1>0, <1>11 DEF SendResult
    <2>2. PlacedAt(x, "thread")
      BY <1>0, <2>1 DEF Placed, PlacedAt, Places, Busy
    <2>3. run[x].n = handler[x] /\ handler[x] \in Nat /\ run'[x].n = 0
      BY <2>1, <2>2 DEF PlacedAt, NoRun, Types, ClientTypes
    <2>4. PICK f \in Frames : back' = Append(back, f) /\ Is(f, "result", x) /\ f.n = handler[x]
      BY <2>1, <2>3, FrameType DEF Is, Kinds
    <2>5. OneIn(back', "result", x, handler[x])
      BY <1>0, <2>2, <2>4, NoneAppend DEF PlacedAt
    <2>6. PlacedAt(x, "back")'
      BY <1>1, <2>1, <2>2, <2>3, <2>5 DEF PlacedAt
    <2> QED
      BY <2>1, <2>6 DEF Placed, Places, Busy
  <1> QED
    BY <1>3, <1>4, <1>5, <1>6, <1>7, <1>9, <1>10, <1>11 DEF Own, Thread, Working

LEMMA PlaceInvKept == Types /\ OrderInv /\ PlaceInv /\ [Next]_vars => PlaceInv'
  <1> SUFFICES ASSUME Types, OrderInv, PlaceInv, [Next]_vars, alive', NEW x \in Sessions \ destroyed'
               PROVE  Placed(x)'
    BY DEF PlaceInv
  <1>1. CASE UNCHANGED vars
    <2>1. alive /\ destroyed' = destroyed /\ UNCHANGED <<handler, wire, chan, back, run, at>>
      BY <1>1 DEF vars, client, thread, alive
    <2>2. Placed(x)
      BY <2>1 DEF PlaceInv
    <2> QED
      BY <2>1, <2>2, PlacedSame, KeepsSame
  <1>2. CASE RuntimeExits \/ OnExit
    BY <1>2 DEF RuntimeExits, OnExit, alive
  <1>3. CASE OnMessage
    BY <1>3, MessagePlaceKept DEF OnMessage, alive
  <1>4. ASSUME NEW c \in handling, HandlerReturns(c) PROVE Placed(x)'
    BY <1>4, HandlerPlaceKept DEF HandlerReturns, runtime, alive
  <1>5. ASSUME NEW s \in Sessions, Client(s) PROVE Placed(x)'
    <2>1. alive
      BY <1>5 DEF Client, CreateSession, Execute, SendStreamEvent, DestroySession, runtime, alive
    <2> QED
      BY <1>5, <2>1, ClientPlaceKept
  <1>6. CASE Conn
    <2>1. alive /\ destroyed' = destroyed
      BY <1>6 DEF Conn, ConnCreates, ConnDestroys, ConnJoins, ConnRoutesResponse, ConnForwards, NextFrame, client
    <2> QED
      BY <1>6, <2>1, ConnPlaceKept
  <1>7. ASSUME NEW s \in Sessions, Own(s) PROVE Placed(x)'
    <2>1. alive /\ destroyed' = destroyed /\ UNCHANGED <<handler, wire>> /\ Placed(x)
      BY <1>7, OwnEffect DEF PlaceInv
    <2>2. CASE s = x
      BY <1>7, <2>1, <2>2, OwnPlaceKept
    <2>3. CASE s # x
      <3>1. Untouched(x) /\ back \in Seq(Frames)
        BY <1>7, <2>3, OthersUntouched DEF Types, WireTypes
      <3>2. back' = back \/ \E f \in Frames : back' = Append(back, f) /\ f.s = s
        BY <1>7, BackEffect
      <3>3. Keeps(back, back', "result", x)
        <4>1. ASSUME NEW f \in Frames, back' = Append(back, f), f.s = s
              PROVE  Keeps(back, back', "result", x)
          <5>1. ~Is(f, "result", x)
            BY <2>3, <4>1 DEF Is
          <5> QED
            BY <3>1, <4>1, <5>1, KeepsAppend
        <4> QED
          BY <3>2, <4>1, KeepsSame
      <3> QED
        BY <2>1, <3>1, <3>3, PlacedSame, KeepsSame DEF Untouched
    <2> QED
      BY <2>2, <2>3
  <1> QED
    BY <1>1, <1>2, <1>3, <1>4, <1>5, <1>6, <1>7 DEF Next, Own

LEMMA PlaceAlways == Spec => []PlaceInv
  <1>1. Init => PlaceInv
    <2> SUFFICES ASSUME Init, NEW s \in Sessions PROVE Placed(s)
      BY DEF PlaceInv
    <2>1. PlacedAt(s, "nowhere")
      BY DEF Init, PlacedAt, NoneIn, All, NoRun
    <2> QED
      BY <2>1 DEF Init, Placed, Places, All, Busy
  <1> QED
    BY <1>1, TypesAlways, OrderAlways, PlaceInvKept, PTL DEF Spec

LEMMA NotMember ==
    ASSUME NEW q \in Seq(Frames), NEW t \in Kinds, NEW s \in Sessions, NEW n \in Nat, NoneIn(q, t, s)
    PROVE  Frame(t, s, n) \notin Members(q)
  <1>1. DOMAIN q = 1 .. Len(q)
    OBVIOUS
  <1> QED
    BY <1>1, FrameType DEF Members, NoneIn, Is

LEMMA IsMember ==
    ASSUME NEW q \in Seq(Frames), NEW t \in Kinds, NEW s \in Sessions, NEW n \in Nat, OneIn(q, t, s, n)
    PROVE  Frame(t, s, n) \in Members(q)
  <1>1. PICK i \in 1 .. Len(q) : Is(q[i], t, s) /\ q[i].n = n
    BY DEF OneIn
  <1>2. i \in DOMAIN q /\ q[i] \in Frames
    OBVIOUS
  <1>3. q[i] = Frame(t, s, n)
    BY <1>1, <1>2 DEF Frames, Frame, Is
  <1> QED
    BY <1>2, <1>3 DEF Members

(* An execution the client awaits is in exactly one place, its frame on the socket or in the      *)
(* session's channel, on the session thread, or its result on the way back: none is lost and none *)
(* answered twice (runtime.ts execute, session.rs send_to_session and session_thread).            *)
THEOREM ExecutionsInOnePlace == Spec => []ExecutionAccountedFor
  <1>1. Init => AwaitedInv
    BY DEF Init, AwaitedInv, All
  <1>2. Types /\ AwaitedInv /\ PlaceInv => ExecutionAccountedFor
    <2> SUFFICES ASSUME Types, AwaitedInv, PlaceInv, alive, NEW s \in Sessions, handler[s] # 0
                 PROVE  LET f == Frame("execute", s, handler[s]) IN
                        Cardinality({p \in {"wire", "chan", "thread", "back"} :
                            \/ p = "wire" /\ f \in Members(wire)
                            \/ p = "chan" /\ f \in Members(chan[s])
                            \/ p = "thread" /\ run[s].n = handler[s]
                            \/ p = "back" /\ Frame("result", s, handler[s]) \in Members(back)}) = 1
      BY DEF ExecutionAccountedFor
    <2> DEFINE f == Frame("execute", s, handler[s])
               here == {p \in {"wire", "chan", "thread", "back"} :
                            \/ p = "wire" /\ f \in Members(wire)
                            \/ p = "chan" /\ f \in Members(chan[s])
                            \/ p = "thread" /\ run[s].n = handler[s]
                            \/ p = "back" /\ Frame("result", s, handler[s]) \in Members(back)}
    <2>1. PICK place \in Places : PlacedAt(s, place)
      BY DEF AwaitedInv, PlaceInv, Placed
    <2>2. place \in {"wire", "chan", "thread", "back"}
      BY <2>1 DEF PlacedAt, Places
    <2>3. /\ wire \in Seq(Frames) /\ chan[s] \in Seq(Frames) /\ back \in Seq(Frames)
          /\ handler[s] \in Nat /\ "execute" \in Kinds /\ "result" \in Kinds
      BY DEF Types, ClientTypes, ThreadTypes, WireTypes, Kinds
    <2>4. f \in Members(wire) <=> place = "wire"
      BY <2>1, <2>3, NotMember, IsMember DEF PlacedAt
    <2>5. f \in Members(chan[s]) <=> place = "chan"
      BY <2>1, <2>3, NotMember, IsMember DEF PlacedAt
    <2>6. Frame("result", s, handler[s]) \in Members(back) <=> place = "back"
      BY <2>1, <2>3, NotMember, IsMember DEF PlacedAt
    <2>7. run[s].n = handler[s] <=> place = "thread"
      BY <2>1 DEF PlacedAt
    <2> HIDE DEF f
    <2>8. here = {place}
      BY <2>2, <2>4, <2>5, <2>6, <2>7
    <2>9. Cardinality(here) = 1
      BY <2>8, FS_Singleton
    <2> QED
      BY <2>9 DEF f
  <1> QED
    BY <1>1, <1>2, TypesAlways, AwaitedKept, PlaceAlways, PTL DEF Spec

----------------------------------------------------------------------------
(* A bridge call is in one place until its answer is routed *)

\* Frames of type t with number c in a queue: none; at most one.
NoneFor(q, t, c) == \A i \in 1 .. Len(q) : ~(q[i].type = t /\ q[i].n = c)
MostOne(q, t, c) ==
    \A i, j \in 1 .. Len(q) : q[i].type = t /\ q[i].n = c /\ q[j].type = t /\ q[j].n = c => i = j

\* Call c is at most in one of: on the way to the host, with the host's handler, on the way back;
\* and then the router still knows its session.
CallPlaced(c) ==
    \/ NoneFor(back, "call", c) /\ c \notin handling /\ NoneFor(wire, "response", c)
    \/ /\ c \in routed
       /\ \/ MostOne(back, "call", c) /\ c \notin handling /\ NoneFor(wire, "response", c)
          \/ NoneFor(back, "call", c) /\ NoneFor(wire, "response", c)
          \/ NoneFor(back, "call", c) /\ c \notin handling /\ MostOne(wire, "response", c)

\* The answers on the socket carry the session that made the call.
ResponsesOwned ==
    \A i \in 1 .. Len(wire) : wire[i].type = "response" =>
        wire[i].n \in 1 .. Len(calls) /\ wire[i].s = calls[wire[i].n].s

CallsInv == alive => ResponsesOwned /\ \A c \in 1 .. Len(calls) : CallPlaced(c)

LEMMA ForAppend ==
    ASSUME NEW q \in Seq(Frames), NEW f \in Frames, NEW t, NEW c
    PROVE  /\ NoneFor(q, t, c) => MostOne(Append(q, f), t, c)
           /\ NoneFor(q, t, c) /\ ~(f.type = t /\ f.n = c) => NoneFor(Append(q, f), t, c)
           /\ MostOne(q, t, c) /\ ~(f.type = t /\ f.n = c) => MostOne(Append(q, f), t, c)
  <1> DEFINE p == Append(q, f)
             k == Len(q) + 1
  <1>1. p[k] = f /\ \A i \in 1 .. Len(p) : (i \in 1 .. Len(q) /\ p[i] = q[i]) \/ i = k
    BY FramesAppend
  <1> HIDE DEF p, k
  <1>2. /\ NoneFor(q, t, c) => MostOne(p, t, c)
        /\ NoneFor(q, t, c) /\ ~(f.type = t /\ f.n = c) => NoneFor(p, t, c)
        /\ MostOne(q, t, c) /\ ~(f.type = t /\ f.n = c) => MostOne(p, t, c)
    BY ONLY <1>1 DEF NoneFor, MostOne
  <1> QED
    BY <1>2 DEF p

LEMMA ForTail ==
    ASSUME NEW q \in Seq(Frames), q # <<>>, NEW t, NEW c
    PROVE  /\ NoneFor(q, t, c) => NoneFor(Tail(q), t, c) /\ ~(Head(q).type = t /\ Head(q).n = c)
           /\ MostOne(q, t, c) => MostOne(Tail(q), t, c)
           /\ MostOne(q, t, c) /\ Head(q).type = t /\ Head(q).n = c => NoneFor(Tail(q), t, c)
  <1>1. /\ Head(q) = q[1] /\ 1 \in 1 .. Len(q)
        /\ \A i \in 1 .. Len(Tail(q)) : Tail(q)[i] = q[i + 1] /\ i + 1 \in 1 .. Len(q) /\ i + 1 # 1
        /\ \A i, j \in 1 .. Len(Tail(q)) : i + 1 = j + 1 => i = j
    BY FramesTail
  <1>2. NoneFor(q, t, c) => NoneFor(Tail(q), t, c) /\ ~(Head(q).type = t /\ Head(q).n = c)
    BY ONLY <1>1 DEF NoneFor
  <1>3. MostOne(q, t, c) => MostOne(Tail(q), t, c)
    <2> SUFFICES ASSUME MostOne(q, t, c), NEW i \in 1 .. Len(Tail(q)), NEW j \in 1 .. Len(Tail(q)),
                        Tail(q)[i].type = t /\ Tail(q)[i].n = c /\ Tail(q)[j].type = t /\ Tail(q)[j].n = c
                 PROVE  i = j
      BY DEF MostOne
    <2>1. i + 1 = j + 1
      BY <1>1 DEF MostOne
    <2> QED
      BY <1>1, <2>1
  <1>4. MostOne(q, t, c) /\ Head(q).type = t /\ Head(q).n = c => NoneFor(Tail(q), t, c)
    BY <1>1 DEF NoneFor, MostOne
  <1> QED
    BY <1>2, <1>3, <1>4

LEMMA CallEffect ==
    ASSUME Types, NEW s \in Sessions, Own(s)
    PROVE  \/ UNCHANGED <<calls, routed>> /\ ~(CallSync(s) \/ CallAsync(s))
           \/ /\ CallSync(s) \/ CallAsync(s)
              /\ Len(calls') = Len(calls) + 1 /\ routed' = routed \cup {Len(calls')}
              /\ calls'[Len(calls')].s = s /\ calls'[Len(calls')].n = run[s].n
              /\ \A c \in 1 .. Len(calls) : calls'[c] = calls[c]
              /\ Len(calls) \in Nat
  <1>1. CASE CallSync(s) \/ CallAsync(s)
    <2>1. /\ calls \in Seq(Calls) /\ calls' = Append(calls, [s |-> s, n |-> run[s].n])
          /\ routed' = routed \cup {Len(calls')} /\ [s |-> s, n |-> run[s].n] \in Calls
      BY <1>1 DEF CallSync, CallAsync, Call, Types, WireTypes, ThreadTypes, Runs, Calls
    <2>2. /\ Len(calls') = Len(calls) + 1 /\ calls'[Len(calls')] = [s |-> s, n |-> run[s].n]
          /\ Len(calls) \in Nat
          /\ \A c \in 1 .. Len(calls) : calls'[c] = calls[c]
      BY ONLY <2>1
    <2> QED
      BY <1>1, <2>1, <2>2
  <1>2. CASE ~(CallSync(s) \/ CallAsync(s))
    BY <1>2 DEF Own, Thread, UserCode, AcquireSlot, Stop, IgnoreFrame, StartExecution, InitScriptFails,
         SyncReceives, SyncFails, LoopTop, LoopDispatches, LoopDrained, LoopReceives, LoopAborts, LoopPolls,
         CheckTimeout, SendResult, Returns, Interrupt, TimerStep, outside
  <1> QED
    BY <1>1, <1>2

LEMMA ClientCallsKept ==
    ASSUME Types, CallsInv, alive, NEW s \in Sessions, Client(s)
    PROVE  CallsInv'
  <1>1. UNCHANGED <<back, handling, routed, calls>> /\ wire \in Seq(Frames)
    BY DEF Client, CreateSession, Execute, SendStreamEvent, DestroySession, runtime, Types, WireTypes
  <1>2. execs'[s] \in Nat
    BY ClientTypesKept DEF Types, ClientTypes
  <1>3. PICK k \in {"create", "execute", "stream", "destroy"}, n \in Nat : wire' = Append(wire, Frame(k, s, n))
    BY <1>2 DEF Client, CreateSession, Execute, SendStreamEvent, DestroySession, Written
  <1>4. PICK f \in Frames : f = Frame(k, s, n) /\ f.type # "response"
    BY FrameType DEF Kinds
  <1>5. ResponsesOwned'
    BY <1>1, <1>3, <1>4, FramesAppend DEF CallsInv, ResponsesOwned
  <1>6. ASSUME NEW c \in 1 .. Len(calls) PROVE CallPlaced(c)'
    BY <1>1, <1>3, <1>4, ForAppend DEF CallsInv, CallPlaced
  <1> QED
    BY <1>1, <1>5, <1>6 DEF CallsInv

LEMMA MessageCallsKept ==
    ASSUME Types, CallsInv, alive, OnMessage
    PROVE  CallsInv'
  <1>1. UNCHANGED <<wire, routed, calls>> /\ back \in Seq(Frames) /\ back # <<>> /\ back' = Tail(back)
    BY DEF OnMessage, Types, WireTypes
  <1>2. \/ handling' = handling
        \/ Head(back).type = "call" /\ handling' = handling \cup {Head(back).n}
    BY DEF OnMessage
  <1>3. ASSUME NEW c \in 1 .. Len(calls) PROVE CallPlaced(c)'
    <2>1. CallPlaced(c)
      BY DEF CallsInv
    <2>2. CASE Head(back).type = "call" /\ Head(back).n = c
      BY <1>1, <1>2, <2>1, <2>2, ForTail DEF CallPlaced
    <2>3. CASE ~(Head(back).type = "call" /\ Head(back).n = c)
      BY <1>1, <1>2, <2>1, <2>3, ForTail DEF CallPlaced
    <2> QED
      BY <2>2, <2>3
  <1> QED
    BY <1>1, <1>3 DEF CallsInv, ResponsesOwned

LEMMA HandlerCallsKept ==
    ASSUME Types, CallsInv, alive, NEW h \in handling, HandlerReturns(h)
    PROVE  CallsInv'
  <1>1. UNCHANGED <<back, routed, calls>> /\ wire \in Seq(Frames) /\ handling' = handling \ {h}
    BY DEF HandlerReturns, runtime, Types, WireTypes
  <1>2. h \in 1 .. Len(calls) /\ calls[h].s \in Sessions /\ h \in Nat
    <2>1. h \in 1 .. Len(calls) /\ calls \in Seq(Calls)
      BY DEF Types, WireTypes
    <2>2. calls[h] \in Calls /\ h \in Nat
      BY ONLY <2>1
    <2> QED
      BY <2>1, <2>2 DEF Calls
  <1>3. PICK f \in Frames : wire' = Append(wire, f) /\ f.type = "response" /\ f.s = calls[h].s /\ f.n = h
    BY <1>2, FrameType DEF HandlerReturns, Written, Kinds
  <1>4. ResponsesOwned'
    BY <1>1, <1>2, <1>3, FramesAppend DEF CallsInv, ResponsesOwned
  <1>5. ASSUME NEW c \in 1 .. Len(calls) PROVE CallPlaced(c)'
    <2>1. CallPlaced(c)
      BY DEF CallsInv
    <2>2. CASE c = h
      BY <1>1, <1>3, <2>1, <2>2, ForAppend DEF CallPlaced
    <2>3. CASE c # h
      BY <1>1, <1>3, <2>1, <2>3, ForAppend DEF CallPlaced
    <2> QED
      BY <2>2, <2>3
  <1> QED
    BY <1>1, <1>4, <1>5 DEF CallsInv

LEMMA ConnCallsKept ==
    ASSUME Types, CallsInv, alive, Conn
    PROVE  CallsInv'
  <1>1. UNCHANGED <<back, handling, calls>> /\ wire \in Seq(Frames)
    BY DEF Conn, ConnCreates, ConnDestroys, ConnJoins, ConnRoutesResponse, ConnForwards, client, Types, WireTypes
  <1>2. CASE ConnJoins
    BY <1>1, <1>2 DEF ConnJoins, CallsInv, ResponsesOwned, CallPlaced
  <1>3. CASE ~ConnJoins
    <2>1. wire # <<>> /\ wire' = Tail(wire)
      BY <1>3 DEF Conn, ConnCreates, ConnDestroys, ConnRoutesResponse, ConnForwards, NextFrame
    <2>2. \/ routed' = routed
          \/ Head(wire).type = "response" /\ routed' = routed \ {Head(wire).n}
      BY <1>3 DEF Conn, ConnCreates, ConnDestroys, ConnRoutesResponse, ConnForwards, NextFrame
    <2>3. ResponsesOwned'
      BY <1>1, <2>1, FramesTail DEF CallsInv, ResponsesOwned
    <2>4. ASSUME NEW c \in 1 .. Len(calls) PROVE CallPlaced(c)'
      <3>1. CallPlaced(c)
        BY DEF CallsInv
      <3>2. CASE Head(wire).type = "response" /\ Head(wire).n = c
        <4>1. ~NoneFor(wire, "response", c)
          BY <1>1, <2>1, <3>2, ForTail
        <4>2. NoneFor(back, "call", c) /\ c \notin handling /\ MostOne(wire, "response", c)
          BY <3>1, <4>1 DEF CallPlaced
        <4>3. NoneFor(wire', "response", c)
          BY <1>1, <2>1, <3>2, <4>2, ForTail
        <4> QED
          BY <1>1, <4>2, <4>3 DEF CallPlaced
      <3>3. CASE ~(Head(wire).type = "response" /\ Head(wire).n = c)
        <4>1. c \in routed => c \in routed'
          BY <2>2, <3>3
        <4> QED
          BY <1>1, <2>1, <3>1, <4>1, ForTail DEF CallPlaced
      <3> QED
        BY <3>2, <3>3
    <2> QED
      BY <1>1, <2>3, <2>4 DEF CallsInv
  <1> QED
    BY <1>2, <1>3

LEMMA OwnCallsKept ==
    ASSUME Types, CallsInv, NEW s \in Sessions, Own(s)
    PROVE  CallsInv'
  <1>1. alive /\ UNCHANGED <<wire, handling>> /\ back \in Seq(Frames)
    BY OwnEffect DEF Types, WireTypes
  <1>2. CASE UNCHANGED <<calls, routed>> /\ ~(CallSync(s) \/ CallAsync(s))
    <2>1. back' = back \/ \E f \in Frames : back' = Append(back, f) /\ f.type # "call"
      BY <1>2, BackEffect
    <2>2. ASSUME NEW c \in 1 .. Len(calls) PROVE CallPlaced(c)'
      <3>1. CallPlaced(c)
        BY <1>1 DEF CallsInv
      <3>2. /\ NoneFor(back, "call", c) => NoneFor(back', "call", c)
            /\ MostOne(back, "call", c) => MostOne(back', "call", c)
        <4>1. ASSUME NEW f \in Frames, back' = Append(back, f), f.type # "call"
              PROVE  /\ NoneFor(back, "call", c) => NoneFor(back', "call", c)
                     /\ MostOne(back, "call", c) => MostOne(back', "call", c)
          BY <1>1, <4>1, ForAppend
        <4> QED
          BY <2>1, <4>1
      <3> QED
        BY <1>1, <1>2, <3>1, <3>2 DEF CallPlaced
    <2> QED
      BY <1>1, <1>2, <2>2 DEF CallsInv, ResponsesOwned
  <1>3. CASE CallSync(s) \/ CallAsync(s)
    <2>1. /\ Len(calls') = Len(calls) + 1 /\ routed' = routed \cup {Len(calls')}
          /\ \A c \in 1 .. Len(calls) : calls'[c] = calls[c]
          /\ Len(calls) \in Nat
      BY <1>3, CallEffect
    <2>2. PICK f \in Frames : back' = Append(back, f) /\ f.type = "call" /\ f.n = Len(calls')
      BY <1>3, BackEffect DEF CallSync, CallAsync, Call, InitScriptFails, SendResult
    <2>3. ResponsesOwned'
      BY <1>1, <2>1 DEF CallsInv, ResponsesOwned
    <2>4. ASSUME NEW c \in 1 .. Len(calls) PROVE CallPlaced(c)'
      <3>1. CallPlaced(c) /\ f.n # c
        BY <1>1, <2>1, <2>2 DEF CallsInv
      <3> QED
        BY <1>1, <2>1, <2>2, <3>1, ForAppend DEF CallPlaced
    <2>5. ASSUME NEW c \in 1 .. Len(calls'), c = Len(calls') PROVE CallPlaced(c)'
      <3>1. c \notin 1 .. Len(calls) /\ c \in routed'
        BY <2>1, <2>5
      <3>2. NoneFor(back, "call", c) /\ c \notin handling
        BY <3>1 DEF Types, WireTypes, NoneFor
      <3>3. NoneFor(wire, "response", c)
        BY <1>1, <3>1 DEF CallsInv, ResponsesOwned, NoneFor
      <3>4. MostOne(back', "call", c)
        BY <1>1, <2>2, <3>2, ForAppend
      <3> QED
        BY <1>1, <3>1, <3>2, <3>3, <3>4 DEF CallPlaced
    <2>6. \A c \in 1 .. Len(calls') : c \in 1 .. Len(calls) \/ c = Len(calls')
      BY <2>1
    <2> QED
      BY <2>3, <2>4, <2>5, <2>6 DEF CallsInv
  <1> QED
    BY <1>2, <1>3, CallEffect

LEMMA CallsAlways == Spec => []CallsInv
  <1>1. Init => CallsInv
    BY DEF Init, CallsInv, ResponsesOwned
  <1>2. Types /\ CallsInv /\ [Next]_vars => CallsInv'
    <2> SUFFICES ASSUME Types, CallsInv, [Next]_vars, alive' PROVE CallsInv'
      BY DEF CallsInv
    <2>1. CASE UNCHANGED vars
      BY <2>1 DEF vars, client, CallsInv, ResponsesOwned, CallPlaced, alive
    <2>2. CASE RuntimeExits \/ OnExit
      BY <2>2 DEF RuntimeExits, OnExit, alive
    <2>3. CASE OnMessage
      BY <2>3, MessageCallsKept DEF OnMessage, alive
    <2>4. ASSUME NEW c \in handling, HandlerReturns(c) PROVE CallsInv'
      BY <2>4, HandlerCallsKept DEF HandlerReturns, runtime, alive
    <2>5. ASSUME NEW s \in Sessions, Client(s) PROVE CallsInv'
      <3>1. alive
        BY <2>5 DEF Client, CreateSession, Execute, SendStreamEvent, DestroySession, runtime, alive
      <3> QED
        BY <2>5, <3>1, ClientCallsKept
    <2>6. CASE Conn
      <3>1. alive
        BY <2>6 DEF Conn, ConnCreates, ConnDestroys, ConnJoins, ConnRoutesResponse, ConnForwards, NextFrame
      <3> QED
        BY <2>6, <3>1, ConnCallsKept
    <2>7. ASSUME NEW s \in Sessions, Own(s) PROVE CallsInv'
      BY <2>7, OwnCallsKept
    <2> QED
      BY <2>1, <2>2, <2>3, <2>4, <2>5, <2>6, <2>7 DEF Next, Own
  <1> QED
    BY <1>1, <1>2, TypesAlways, PTL DEF Spec

----------------------------------------------------------------------------
(* What a session waits for is its own; when frames are being dispatched *)

\* The calls a session waits for are its own, and the one it is blocked in is no other's answer.
OwnAwaited(s) ==
    /\ \A c \in pending[s] : calls[c].s = s
    /\ at[s] = "sync" => /\ run[s].call \in 1 .. Len(calls) /\ calls[run[s].call].s = s
                         /\ run[s].call \notin pending[s]

\* Deferred frames are being dispatched only in the loops that took them.
BatchInLoop(s) ==
    \/ batch[s] = <<>>
    \/ at[s] \in {"drain", "poll"}
    \/ at[s] \in {"js", "sync"} /\ run[s].ret \in {"drain", "poll"}

WaitInv == \A s \in Sessions : OwnAwaited(s) /\ BatchInLoop(s)

LEMMA LeaveWait ==
    ASSUME Types, NEW s \in Sessions, NEW r, Leave(s, r)
    PROVE  batch'[s] = <<>> /\ at'[s] \in {"js", "check"}
  BY DEF Leave, Types, ThreadTypes

LEMMA WorkingWait ==
    ASSUME Types, WaitInv, NEW s \in Sessions, Working(s), ~CallSync(s), ~CallAsync(s)
    PROVE  /\ at'[s] = "sync" => at[s] = "sync" /\ run'[s].call = run[s].call
           /\ pending'[s] \subseteq pending[s]
           /\ BatchInLoop(s)'
  <1>1. /\ run[s] \in Runs /\ run \in [Sessions -> Runs] /\ at \in [Sessions -> Points]
        /\ batch \in [Sessions -> Seq(Frames)] /\ pending \in [Sessions -> SUBSET (1 .. Len(calls))]
        /\ BatchInLoop(s)
    BY DEF Types, ThreadTypes, WireTypes, WaitInv
  <1>2. run[s].ret \in {"main", "top", "drain", "poll"}
    BY <1>1 DEF Runs
  <1>3. CASE SyncReceives(s) \/ SyncFails(s)
    <2>1. UNCHANGED <<pending, batch>> /\ at[s] = "sync" /\ at'[s] \in {"js", "sync"}
      BY <1>1, <1>3 DEF SyncReceives, SyncFails
    <2>2. run'[s].ret = run[s].ret /\ (at'[s] = "sync" => run'[s] = run[s])
      BY <1>1, <1>3 DEF SyncReceives, SyncFails, Runs
    <2> QED
      BY <1>1, <2>1, <2>2 DEF BatchInLoop
  <1>4. CASE LoopTop(s) \/ LoopPolls(s) \/ LoopDrained(s) \/ LoopAborts(s)
    <2>1. pending' = pending
      BY <1>4 DEF LoopTop, LoopPolls, LoopDrained, LoopAborts
    <2>2. \/ \E r : Leave(s, r)
          \/ at'[s] \in {"drain", "poll"}
          \/ at'[s] = "wait" /\ batch' = batch /\ batch[s] = <<>>
      BY <1>1, <1>4 DEF LoopTop, LoopPolls, LoopDrained, LoopAborts
    <2> QED
      BY <2>1, <2>2, LeaveWait DEF BatchInLoop
  <1>5. CASE LoopDispatches(s)
    <2>1. /\ at[s] \in {"drain", "poll"} /\ Dispatch(s, Head(batch[s]), at[s])
      BY <1>5 DEF LoopDispatches
    <2>2. pending'[s] \subseteq pending[s] /\ (at'[s] = at[s] \/ (at'[s] = "js" /\ run'[s].ret = at[s]))
      BY <1>1, <2>1 DEF Dispatch, Runs
    <2> QED
      BY <2>1, <2>2 DEF BatchInLoop
  <1>6. CASE LoopReceives(s)
    <2>1. at[s] = "wait" /\ batch[s] = <<>>
      BY <1>1, <1>6 DEF LoopReceives, BatchInLoop
    <2>2. \/ Dispatch(s, Head(chan[s]), "top") /\ batch' = batch
          \/ Leave(s, [run[s] EXCEPT !.stopped = TRUE]) /\ pending' = pending
      BY <1>6 DEF LoopReceives
    <2>3. pending'[s] \subseteq pending[s] /\ at'[s] \in {"js", "top", "check"}
      BY <1>1, <2>2, LeaveWait DEF Dispatch
    <2>4. batch'[s] = <<>>
      BY <2>1, <2>2, LeaveWait
    <2> QED
      BY <2>3, <2>4 DEF BatchInLoop
  <1>7. CASE Returns(s) \/ Interrupt(s)
    <2>1. at[s] = "js" /\ pending' = pending
      BY <1>7 DEF Returns, Interrupt
    <2>2. [run[s] EXCEPT !.cut = TRUE].ret = run[s].ret
      BY <1>1 DEF Runs
    <2>3. \/ run[s].ret = "main" /\ \E r : Proceed(s, r)
          \/ run[s].ret # "main" /\ at' = [at EXCEPT ![s] = run[s].ret] /\ batch' = batch
          \/ \E r : Leave(s, r)
      BY <1>7, <2>2 DEF Returns, Interrupt
    <2>4. \/ at'[s] = "top" /\ batch[s] = <<>> /\ batch' = batch
          \/ at'[s] \in {"drain", "poll"}
          \/ \E r : Leave(s, r)
      BY <1>1, <1>2, <2>1, <2>3 DEF Proceed, BatchInLoop
    <2> QED
      BY <2>1, <2>4, LeaveWait DEF BatchInLoop
  <1> QED
    BY <1>3, <1>4, <1>5, <1>6, <1>7 DEF Working, UserCode

LEMMA WaitSame ==
    ASSUME Types, NEW x \in Sessions, OwnAwaited(x), pending'[x] \subseteq pending[x],
           at'[x] = "sync" => at[x] = "sync" /\ run'[x].call = run[x].call,
           Len(calls) <= Len(calls'), Len(calls') \in Nat,
           \A c \in 1 .. Len(calls) : calls'[c] = calls[c]
    PROVE  OwnAwaited(x)'
  <1>1. pending[x] \subseteq 1 .. Len(calls) /\ Len(calls) \in Nat
    BY DEF Types, WireTypes
  <1>2. \A c \in 1 .. Len(calls) : c \in 1 .. Len(calls')
    BY <1>1
  <1> QED
    BY <1>1, <1>2 DEF OwnAwaited

LEMMA WaitInvKept == Types /\ CreatedOnce /\ WaitInv /\ [Next]_vars => WaitInv'
  <1> SUFFICES ASSUME Types, CreatedOnce, WaitInv, [Next]_vars, NEW x \in Sessions
               PROVE  (OwnAwaited(x) /\ BatchInLoop(x))'
    BY DEF WaitInv
  <1>1. /\ OwnAwaited(x) /\ BatchInLoop(x) /\ Len(calls) \in Nat
        /\ pending \in [Sessions -> SUBSET (1 .. Len(calls))] /\ at \in [Sessions -> Points]
        /\ run \in [Sessions -> Runs] /\ batch \in [Sessions -> Seq(Frames)]
        /\ pending[x] \subseteq 1 .. Len(calls)
    BY DEF WaitInv, Types, ThreadTypes, WireTypes
  <1>2. CASE OnMessage \/ OnExit \/ (\E c \in handling : HandlerReturns(c))
             \/ (\E s \in Sessions : Client(s)) \/ UNCHANGED vars
    <2>1. UNCHANGED <<at, run, pending, batch, calls>>
      BY <1>2 DEF OnMessage, OnExit, HandlerReturns, Client, CreateSession, Execute,
         SendStreamEvent, DestroySession, runtime, thread, vars
    <2> QED
      BY <1>1, <2>1 DEF OwnAwaited, BatchInLoop
  <1>3. CASE RuntimeExits
    BY <1>3 DEF RuntimeExits, All, OwnAwaited, BatchInLoop
  <1>4. CASE Conn
    <2>1. UNCHANGED <<run, pending, batch, calls>>
      BY <1>4 DEF Conn, ConnCreates, ConnDestroys, ConnJoins, ConnRoutesResponse, ConnForwards, thread
    <2>2. at'[x] = at[x] \/ (at[x] = "none" /\ at'[x] = "queued")
      <3>1. CASE ConnCreates
        <4>1. wire # <<>> /\ wire' = Tail(wire) /\ at' = [at EXCEPT ![Head(wire).s] = "queued"]
              /\ Head(wire).type = "create"
          BY <3>1 DEF ConnCreates, NextFrame
        <4>2. at[Head(wire).s] = "none"
          BY <4>1, WireTail DEF CreatedOnce
        <4> QED
          BY <1>1, <4>1, <4>2
      <3>2. CASE ~ConnCreates
        BY <1>4, <3>2 DEF Conn, ConnDestroys, ConnJoins, ConnRoutesResponse, ConnForwards, thread
      <3> QED
        BY <3>1, <3>2
    <2> QED
      BY <1>1, <2>1, <2>2 DEF OwnAwaited, BatchInLoop
  <1>5. ASSUME NEW s \in Sessions, Own(s) PROVE (OwnAwaited(x) /\ BatchInLoop(x))'
    <2>1. Len(calls) <= Len(calls') /\ Len(calls') \in Nat /\ \A c \in 1 .. Len(calls) : calls'[c] = calls[c]
      <3>1. CASE UNCHANGED <<calls, routed>>
        BY <1>1, <3>1
      <3>2. CASE Len(calls') = Len(calls) + 1 /\ \A c \in 1 .. Len(calls) : calls'[c] = calls[c]
        BY ONLY <1>1, <3>2
      <3> QED
        BY <1>5, <3>1, <3>2, CallEffect
    <2>2. CASE s # x
      <3>1. Untouched(x)
        BY <1>5, <2>2, OthersUntouched
      <3>2. OwnAwaited(x)'
        BY <1>1, <2>1, <3>1, WaitSame DEF Untouched
      <3> QED
        BY <1>1, <3>1, <3>2 DEF Untouched, BatchInLoop
    <2>3. CASE s = x /\ Working(x) /\ ~CallSync(x) /\ ~CallAsync(x)
      BY <1>1, <2>1, <2>3, WorkingWait, WaitSame
    <2>4. CASE s = x /\ (CallSync(x) \/ CallAsync(x))
      <3>1. /\ Len(calls') = Len(calls) + 1 /\ calls'[Len(calls')].s = x
        BY <1>5, <2>4, CallEffect
      <3>2. /\ at[x] = "js" /\ batch' = batch /\ at'[x] \in {"js", "sync"}
            /\ run'[x].ret = run[x].ret
            /\ at'[x] = "sync" => pending' = pending /\ run'[x].call = Len(calls')
            /\ pending'[x] \subseteq pending[x] \cup {Len(calls')}
        <4>1. run[x] \in Runs
          BY <1>1
        <4>2. CASE CallSync(x)
          <5>1. /\ at[x] = "js" /\ batch' = batch /\ at' = [at EXCEPT ![x] = "sync"] /\ pending' = pending
                /\ run' = [run EXCEPT ![x] = [run[x] EXCEPT !.call = Len(calls')]]
            BY <4>2 DEF CallSync, Call
          <5>2. at'[x] = "sync" /\ run'[x] = [run[x] EXCEPT !.call = Len(calls')]
            BY ONLY <1>1, <5>1, x \in Sessions
          <5>3. run'[x].ret = run[x].ret /\ run'[x].call = Len(calls')
            BY ONLY <4>1, <5>2 DEF Runs
          <5> QED
            BY ONLY <5>1, <5>2, <5>3
        <4>3. CASE CallAsync(x)
          BY <1>1, <4>3 DEF CallAsync, Call
        <4> QED
          BY <2>4, <4>2, <4>3
      <3>3. OwnAwaited(x)'
        <4>1. Len(calls') \notin pending[x] /\ Len(calls') \in 1 .. Len(calls')
          BY <1>1, <3>1
        <4> QED
          BY <1>1, <2>1, <3>1, <3>2, <4>1 DEF OwnAwaited
      <3> QED
        BY <1>1, <3>2, <3>3 DEF BatchInLoop
    <2>5. CASE s = x /\ ~Working(x)
      <3>1. \/ AcquireSlot(x) \/ Stop(x) \/ IgnoreFrame(x) \/ InitScriptFails(x)
            \/ (\E mode \in {"exec", "run"} : StartExecution(x, mode))
            \/ CheckTimeout(x) \/ SendResult(x) \/ TimerStep(x)
        BY <1>5, <2>5 DEF Own, Thread, Working
      <3>2. batch' = batch /\ pending'[x] \subseteq pending[x]
        BY <1>1, <3>1 DEF AcquireSlot, Stop, IgnoreFrame, InitScriptFails, StartExecution, CheckTimeout,
           SendResult, TimerStep
      <3>3. \/ TimerStep(x) /\ at' = at /\ run' = run
            \/ at[x] \in {"queued", "idle", "check", "cancel"} /\ at'[x] # "sync"
        BY <1>1, <3>1 DEF AcquireSlot, Stop, IgnoreFrame, InitScriptFails, StartExecution, CheckTimeout,
           SendResult, TimerStep
      <3>4. OwnAwaited(x)'
        BY <1>1, <2>1, <3>2, <3>3, WaitSame
      <3> QED
        BY <1>1, <3>2, <3>3, <3>4 DEF BatchInLoop
    <2> QED
      BY <2>2, <2>3, <2>4, <2>5
  <1> QED
    BY <1>2, <1>3, <1>4, <1>5 DEF Next, Own

LEMMA WaitAlways == Spec => []WaitInv
  <1>1. Init => WaitInv
    BY DEF Init, WaitInv, OwnAwaited, BatchInLoop, All
  <1> QED
    BY <1>1, TypesAlways, CreatedOnceAlways, WaitInvKept, PTL DEF Spec

----------------------------------------------------------------------------
(* Executions have numbers of their own *)

\* A call carries the number of an execution that began; of the last one requested only when its
\* frame has been taken.
Fresh(s) ==
    \A c \in 1 .. Len(calls) : calls[c].s = s =>
        /\ calls[c].n <= execs[s]
        /\ calls[c].n = execs[s] => NoneIn(wire, "execute", s) /\ NoneIn(chan[s], "execute", s)

FreshInv == alive => \A s \in Sessions \ destroyed : Fresh(s)

LEMMA FreshSame ==
    ASSUME NEW x \in Sessions, Fresh(x), UNCHANGED calls, execs'[x] = execs[x],
           NoneIn(wire, "execute", x) => NoneIn(wire', "execute", x),
           NoneIn(wire, "execute", x) /\ NoneIn(chan[x], "execute", x) => NoneIn(chan'[x], "execute", x)
    PROVE  Fresh(x)'
  BY DEF Fresh

LEMMA FreshInvKept == Types /\ PlaceInv /\ FreshInv /\ [Next]_vars => FreshInv'
  <1> SUFFICES ASSUME Types, PlaceInv, FreshInv, [Next]_vars, alive', NEW x \in Sessions \ destroyed'
               PROVE  Fresh(x)'
    BY DEF FreshInv
  <1>0. /\ wire \in Seq(Frames) /\ chan \in [Sessions -> Seq(Frames)] /\ chan[x] \in Seq(Frames)
        /\ execs \in [Sessions -> Nat] /\ execs[x] \in Nat
    BY DEF Types, ClientTypes, ThreadTypes, WireTypes
  <1>1. CASE OnMessage \/ UNCHANGED vars
    <2>1. alive /\ UNCHANGED <<destroyed, calls, execs, wire, chan>>
      BY <1>1 DEF OnMessage, vars, client, thread, alive
    <2> QED
      BY <2>1, FreshSame DEF FreshInv
  <1>2. CASE RuntimeExits \/ OnExit
    BY <1>2 DEF RuntimeExits, OnExit, alive
  <1>3. ASSUME NEW c \in handling, HandlerReturns(c) PROVE Fresh(x)'
    <2>1. alive /\ UNCHANGED <<destroyed, calls, execs, chan>>
      BY <1>3 DEF HandlerReturns, runtime, thread, alive
    <2>2. calls[c].s \in Sessions /\ c \in Nat
      <3>1. c \in 1 .. Len(calls) /\ calls \in Seq(Calls)
        BY DEF Types, WireTypes
      <3>2. calls[c] \in Calls /\ c \in Nat
        BY ONLY <3>1
      <3> QED
        BY <3>2 DEF Calls
    <2>3. PICK f \in Frames : wire' = Append(wire, f) /\ f.type = "response"
      BY <1>3, <2>1, <2>2, FrameType DEF HandlerReturns, Written, Kinds
    <2>4. NoneIn(wire, "execute", x) => NoneIn(wire', "execute", x)
      BY <1>0, <2>3, NoneAppend DEF Is
    <2> QED
      BY <2>1, <2>4, FreshSame DEF FreshInv
  <1>4. ASSUME NEW s \in Sessions, Client(s) PROVE Fresh(x)'
    <2>1. alive /\ UNCHANGED <<calls, chan>> /\ x \notin destroyed
      BY <1>4 DEF Client, CreateSession, Execute, SendStreamEvent, DestroySession, runtime, thread, alive
    <2>2. Fresh(x)
      BY <2>1 DEF FreshInv
    <2>3. CASE Execute(s) /\ s = x
      <3>1. execs'[x] = execs[x] + 1
        BY <1>0, <2>3 DEF Execute
      <3>2. \A c \in 1 .. Len(calls) : calls[c].n \in Nat
        <4>1. calls \in Seq(Calls)
          BY DEF Types, WireTypes
        <4>2. \A c \in 1 .. Len(calls) : calls[c] \in Calls
          BY ONLY <4>1
        <4> QED
          BY <4>2 DEF Calls
      <3>3. ASSUME NEW c \in 1 .. Len(calls), calls[c].s = x
            PROVE  calls[c].n <= execs'[x] /\ calls[c].n # execs'[x]
        <4>1. calls[c].n <= execs[x]
          BY <2>2, <3>3 DEF Fresh
        <4> QED
          BY ONLY <1>0, <3>1, <3>2, <4>1, c \in 1 .. Len(calls)
      <3> QED
        BY <2>1, <3>3 DEF Fresh
    <2>4. CASE ~(Execute(s) /\ s = x)
      <3>1. execs'[x] = execs[x]
        BY <1>0, <1>4, <2>4 DEF Client, CreateSession, Execute, SendStreamEvent, DestroySession
      <3>2. execs'[s] \in Nat
        BY <1>4, ClientTypesKept DEF Types, ClientTypes
      <3>3. PICK k \in {"create", "execute", "stream", "destroy"}, n \in Nat :
                wire' = Append(wire, Frame(k, s, n)) /\ (k = "execute" => x # s)
        BY <1>4, <2>1, <2>4, <3>2 DEF Client, CreateSession, Execute, SendStreamEvent, DestroySession, Written
      <3>4. PICK f \in Frames : f = Frame(k, s, n) /\ ~Is(f, "execute", x)
        BY <3>3, FrameType DEF Kinds, Is
      <3>5. NoneIn(wire, "execute", x) => NoneIn(wire', "execute", x)
        BY <1>0, <3>3, <3>4, NoneAppend
      <3> QED
        BY <2>1, <2>2, <3>1, <3>5, FreshSame
    <2> QED
      BY <2>3, <2>4
  <1>5. CASE Conn
    <2>1. alive /\ UNCHANGED <<destroyed, calls, execs>>
      BY <1>5 DEF Conn, ConnCreates, ConnDestroys, ConnJoins, ConnRoutesResponse, ConnForwards, NextFrame, client
    <2>2. CASE ConnJoins
      BY <2>1, <2>2, FreshSame DEF ConnJoins, thread, FreshInv
    <2>3. CASE ~ConnJoins
      <3> DEFINE h == Head(wire)
      <3>1. wire # <<>> /\ wire' = Tail(wire)
        BY <1>5, <2>3 DEF Conn, ConnCreates, ConnDestroys, ConnRoutesResponse, ConnForwards, NextFrame
      <3>2. h \in Frames /\ h.s \in Sessions
        <4>1. h \in Frames
          BY ONLY <1>0, <3>1
        <4> QED
          BY <4>1 DEF Frames
      <3>3. NoneIn(wire, "execute", x) => NoneIn(wire', "execute", x) /\ ~Is(h, "execute", x)
        BY <1>0, <3>1, NoneTail
      <3>4. ASSUME NoneIn(wire, "execute", x), NoneIn(chan[x], "execute", x)
            PROVE  NoneIn(chan'[x], "execute", x)
        <4>1. \/ chan' = chan
              \/ h.type = "destroy" /\ chan' = [chan EXCEPT ![h.s] = Append(@, Shutdown(h.s))]
              \/ chan' = [chan EXCEPT ![h.s] = Append(@, h)]
          BY <1>5, <2>3 DEF Conn, ConnCreates, ConnDestroys, ConnRoutesResponse, ConnForwards, NextFrame, Sent
        <4>2. Shutdown(h.s) \in Frames /\ Shutdown(h.s).type = "shutdown"
          BY <3>2, FrameType DEF Shutdown, Kinds
        <4> HIDE DEF h
        <4>3. chan'[x] = chan[x] \/ \E f \in Frames : chan'[x] = Append(chan[x], f) /\ ~Is(f, "execute", x)
          BY <1>0, <3>2, <3>3, <3>4, <4>1, <4>2 DEF Is
        <4>4. ASSUME NEW f \in Frames, chan'[x] = Append(chan[x], f), ~Is(f, "execute", x)
              PROVE  NoneIn(chan'[x], "execute", x)
          BY <1>0, <3>4, <4>4, NoneAppend
        <4> QED
          BY <3>4, <4>3, <4>4
      <3> QED
        BY <2>1, <3>3, <3>4, FreshSame DEF FreshInv
    <2> QED
      BY <2>2, <2>3
  <1>6. ASSUME NEW s \in Sessions, Own(s) PROVE Fresh(x)'
    <2>1. alive /\ UNCHANGED <<destroyed, execs, wire>> /\ Fresh(x) /\ Placed(x)
      BY <1>6, OwnEffect DEF FreshInv, PlaceInv
    <2>2. NoneIn(chan[x], "execute", x) => NoneIn(chan'[x], "execute", x)
      <3>1. chan'[x] = chan[x] \/ (chan[x] # <<>> /\ chan'[x] = Tail(chan[x])) \/ chan'[x] = <<>>
        BY <1>6, OwnEffect, OthersUntouched DEF Untouched
      <3>2. CASE chan'[x] = <<>>
        BY <3>2 DEF NoneIn
      <3>3. CASE chan[x] # <<>> /\ chan'[x] = Tail(chan[x])
        BY <1>0, <3>3, NoneTail
      <3> QED
        BY <3>1, <3>2, <3>3
    <2>3. CASE UNCHANGED calls
      BY <2>1, <2>2, <2>3, FreshSame
    <2>4. CASE CallSync(s) \/ CallAsync(s)
      <3>1. /\ Len(calls') = Len(calls) + 1 /\ Len(calls) \in Nat
            /\ calls'[Len(calls')].s = s /\ calls'[Len(calls')].n = run[s].n
            /\ \A c \in 1 .. Len(calls) : calls'[c] = calls[c]
        BY <1>6, <2>4, CallEffect
      <3>2. chan' = chan /\ at[s] = "js"
        BY <2>4 DEF CallSync, CallAsync, Call
      <3>3. s = x => /\ run[x].n = execs[x] /\ NoneIn(wire, "execute", x)
                     /\ NoneIn(chan[x], "execute", x)
        <4>1. handler[x] \in {0, execs[x]}
          BY DEF Types, ClientTypes
        <4> QED
          BY <2>1, <3>2, <4>1 DEF Placed, PlacedAt, Places, Busy
      <3>4. \A c \in 1 .. Len(calls') : c \in 1 .. Len(calls) \/ c = Len(calls')
        BY ONLY <3>1
      <3>5. execs[x] <= execs[x]
        BY <1>0
      <3>6. ASSUME NEW c \in 1 .. Len(calls'), calls'[c].s = x
            PROVE  /\ calls'[c].n <= execs[x]
                   /\ calls'[c].n = execs[x] => NoneIn(wire, "execute", x) /\ NoneIn(chan[x], "execute", x)
        <4>1. CASE c \in 1 .. Len(calls)
          BY <2>1, <3>1, <3>6, <4>1 DEF Fresh
        <4>2. CASE c = Len(calls')
          BY ONLY <3>1, <3>3, <3>5, <3>6, <4>2
        <4> QED
          BY <3>4, <4>1, <4>2
      <3> QED
        BY <2>1, <3>2, <3>6 DEF Fresh
    <2> QED
      BY <1>6, <2>3, <2>4, CallEffect
  <1> QED
    BY <1>1, <1>2, <1>3, <1>4, <1>5, <1>6 DEF Next, Own

LEMMA FreshAlways == Spec => []FreshInv
  <1>1. Init => FreshInv
    BY DEF Init, FreshInv, Fresh
  <1> QED
    BY <1>1, TypesAlways, PlaceAlways, FreshInvKept, PTL DEF Spec

----------------------------------------------------------------------------
(* No answer is lost *)

LEMMA MemberAppend ==
    ASSUME NEW q \in Seq(Frames), NEW f \in Frames
    PROVE  f \in Members(Append(q, f)) /\ \A g : g \in Members(q) => g \in Members(Append(q, f))
  <1>1. DOMAIN q = 1 .. Len(q) /\ DOMAIN Append(q, f) = 1 .. Len(Append(q, f))
    OBVIOUS
  <1> QED
    BY <1>1, FramesAppend DEF Members

LEMMA MemberTail ==
    ASSUME NEW q \in Seq(Frames), q # <<>>
    PROVE  \A g : g \in Members(q) => g = Head(q) \/ g \in Members(Tail(q))
  <1>1. DOMAIN q = 1 .. Len(q) /\ DOMAIN Tail(q) = 1 .. Len(Tail(q))
    BY FramesTail
  <1> SUFFICES ASSUME NEW g, g \in Members(q), g # Head(q) PROVE g \in Members(Tail(q))
    OBVIOUS
  <1>2. PICK i \in 1 .. Len(q) : g = q[i]
    BY <1>1 DEF Members
  <1>3. i - 1 \in 1 .. Len(Tail(q)) /\ Tail(q)[i - 1] = q[i]
    BY <1>2, FramesTail
  <1> QED
    BY <1>1, <1>2, <1>3 DEF Members

LEMMA MemberEmpty == \A g : g \notin Members(<<>>)
  BY DEF Members

\* The answer to call c is with the session s, not yet dispatched.
Answer(s, c) ==
    Frame("response", s, c) \in Members(chan[s]) \cup Members(deferred[s]) \cup Members(batch[s])

LEMMA LeaveQuiet ==
    ASSUME Types, NEW s \in Sessions, NEW r, Leave(s, r), pending' = pending,
           pending[s] = {} \/ r.error \/ r.stopped, NEW c
    PROVE  ~Awaits(s, c)'
  <1>1. at'[s] = "check" \/ (at'[s] = "js" /\ pending[s] = {})
    BY DEF Leave, Types, ThreadTypes
  <1> QED
    BY <1>1 DEF Awaits

LEMMA DispatchAwaits ==
    ASSUME Types, NEW s \in Sessions, NEW f \in Frames, NEW ret \in {"top", "drain", "poll"},
           Dispatch(s, f, ret), at[s] \in {"drain", "poll", "wait"}, NEW c \in Nat, Awaits(s, c)'
    PROVE  Awaits(s, c) /\ f # Frame("response", s, c)
  <1>1. at'[s] \in {"js", ret}
    BY DispatchEffect
  <1>2. c \in pending'[s]
    BY <1>1 DEF Awaits
  <1>3. c \in pending[s] /\ ~(f.type = "response" /\ f.n = c)
    BY <1>2 DEF Dispatch, Types, WireTypes
  <1>4. Frame("response", s, c).type = "response" /\ Frame("response", s, c).n = c
    BY FrameType DEF Kinds
  <1> QED
    BY <1>3, <1>4 DEF Awaits

LEMMA WorkingAnswers ==
    ASSUME Types, WaitInv, NEW s \in Sessions, Working(s), ~CallSync(s), ~CallAsync(s),
           NEW c \in Nat, Awaits(s, c)'
    PROVE  Awaits(s, c) /\ (Answer(s, c) => Answer(s, c)')
  <1>1. /\ run[s] \in Runs /\ run \in [Sessions -> Runs] /\ at \in [Sessions -> Points]
        /\ batch \in [Sessions -> Seq(Frames)] /\ chan \in [Sessions -> Seq(Frames)]
        /\ deferred \in [Sessions -> Seq(Frames)]
        /\ batch[s] \in Seq(Frames) /\ chan[s] \in Seq(Frames) /\ deferred[s] \in Seq(Frames)
        /\ OwnAwaited(s) /\ BatchInLoop(s)
    BY DEF Types, ThreadTypes, WaitInv
  <1>2. Frame("response", s, c).type = "response" /\ Frame("response", s, c).n = c
    BY FrameType DEF Kinds
  <1>3. CASE SyncReceives(s)
    <2> DEFINE f == Head(chan[s])
    <2>1. /\ at[s] = "sync" /\ chan[s] # <<>> /\ chan'[s] = Tail(chan[s]) /\ UNCHANGED <<pending, batch>>
      BY <1>1, <1>3 DEF SyncReceives
    <2>2. f \in Frames
      BY ONLY <1>1, <2>1
    <2>3. CASE f.type = "response" /\ f.n = run[s].call
      <3>1. at'[s] = "js" /\ deferred' = deferred
        BY <1>1, <1>3, <2>3 DEF SyncReceives
      <3>2. c \in pending[s] /\ c # run[s].call
        BY <1>1, <2>1, <3>1 DEF Awaits, OwnAwaited
      <3>3. f # Frame("response", s, c)
        BY <1>2, <2>3, <3>2
      <3> QED
        BY <1>1, <2>1, <3>1, <3>2, <3>3, MemberTail DEF Awaits, Answer
    <2>4. CASE ~(f.type = "response" /\ f.n = run[s].call)
      <3>1. UNCHANGED <<at, run>> /\ deferred'[s] = Append(deferred[s], f)
        BY <1>1, <1>3, <2>4 DEF SyncReceives, Keep
      <3>2. Awaits(s, c)
        BY <2>1, <3>1 DEF Awaits
      <3>3. \A g : g \in Members(deferred[s]) => g \in Members(deferred'[s])
        BY <1>1, <2>2, <3>1, MemberAppend
      <3>4. f \in Members(deferred'[s])
        BY <1>1, <2>2, <3>1, MemberAppend
      <3>5. \A g : g \in Members(chan[s]) => g = f \/ g \in Members(chan'[s])
        BY <1>1, <2>1, MemberTail
      <3> QED
        BY <2>1, <3>2, <3>3, <3>4, <3>5 DEF Answer
    <2> QED
      BY <2>3, <2>4
  <1>4. CASE SyncFails(s)
    <2>1. at[s] = "sync" /\ at'[s] = "js" /\ UNCHANGED <<pending, deferred, batch>>
      BY <1>1, <1>4 DEF SyncFails
    <2>2. \/ chan' = chan
          \/ chan[s] # <<>> /\ Head(chan[s]).type = "shutdown" /\ chan'[s] = Tail(chan[s])
      BY <1>1, <1>4 DEF SyncFails, Heard
    <2>3. Awaits(s, c)
      BY <2>1 DEF Awaits
    <2>4. Frame("response", s, c) \in Members(chan[s]) => Frame("response", s, c) \in Members(chan'[s])
      <3>1. CASE chan[s] # <<>> /\ Head(chan[s]).type = "shutdown" /\ chan'[s] = Tail(chan[s])
        <4>1. Head(chan[s]) # Frame("response", s, c)
          BY <1>2, <3>1
        <4> QED
          BY <1>1, <3>1, <4>1, MemberTail
      <3> QED
        BY <2>2, <3>1
    <2> QED
      BY <2>1, <2>3, <2>4 DEF Answer
  <1>5. CASE LoopTop(s) \/ LoopPolls(s)
    <2>1. at[s] \in {"top", "wait"} /\ UNCHANGED <<pending, chan>>
      BY <1>5 DEF LoopTop, LoopPolls
    <2>2. batch[s] = <<>>
      BY <1>1, <2>1 DEF BatchInLoop
    <2>3. ~(Idle(s, run[s]) /\ Leave(s, run[s]))
      BY <2>1, LeaveQuiet DEF Idle, Quiet
    <2>4. batch'[s] = deferred[s] /\ at'[s] \in {"drain", "poll"}
      BY <1>1, <1>5, <2>3 DEF LoopTop, LoopPolls
    <2>5. Awaits(s, c)
      BY <2>1, <2>4 DEF Awaits
    <2> QED
      BY <2>1, <2>2, <2>4, <2>5, MemberEmpty DEF Answer
  <1>6. CASE LoopDispatches(s)
    <2>1. /\ at[s] \in {"drain", "poll"} /\ batch[s] # <<>> /\ Dispatch(s, Head(batch[s]), at[s])
          /\ batch'[s] = Tail(batch[s]) /\ UNCHANGED <<chan, deferred>>
      BY <1>1, <1>6 DEF LoopDispatches
    <2>2. Head(batch[s]) \in Frames
      BY ONLY <1>1, <2>1
    <2>3. Awaits(s, c) /\ Head(batch[s]) # Frame("response", s, c)
      BY <2>1, <2>2, DispatchAwaits
    <2>4. Frame("response", s, c) \in Members(batch[s]) => Frame("response", s, c) \in Members(batch'[s])
      BY <1>1, <2>1, <2>3, MemberTail
    <2> QED
      BY <2>1, <2>3, <2>4 DEF Answer
  <1>7. CASE LoopDrained(s)
    <2>1. at[s] \in {"drain", "poll"} /\ UNCHANGED <<pending, chan, deferred>>
      BY <1>7 DEF LoopDrained
    <2>2. ~(Quiet(s, run[s]) /\ Leave(s, run[s]))
      BY <2>1, LeaveQuiet DEF Quiet
    <2>3. batch' = batch /\ at'[s] = "wait"
      BY <1>1, <1>7, <2>2 DEF LoopDrained
    <2>4. Awaits(s, c)
      BY <2>1, <2>3 DEF Awaits
    <2> QED
      BY <2>1, <2>3, <2>4 DEF Answer
  <1>8. CASE LoopReceives(s)
    <2>1. at[s] = "wait" /\ chan[s] # <<>> /\ chan'[s] = Tail(chan[s]) /\ deferred' = deferred
      BY <1>1, <1>8 DEF LoopReceives
    <2>2. Head(chan[s]) \in Frames
      BY ONLY <1>1, <2>1
    <2>3. [run[s] EXCEPT !.stopped = TRUE].stopped
      BY <1>1 DEF Runs
    <2>4. ~(Leave(s, [run[s] EXCEPT !.stopped = TRUE]) /\ UNCHANGED pending)
      BY <2>3, LeaveQuiet
    <2>5. Dispatch(s, Head(chan[s]), "top") /\ batch' = batch
      BY <1>8, <2>4 DEF LoopReceives
    <2>6. Awaits(s, c) /\ Head(chan[s]) # Frame("response", s, c)
      BY <2>1, <2>2, <2>5, DispatchAwaits
    <2>7. Frame("response", s, c) \in Members(chan[s]) => Frame("response", s, c) \in Members(chan'[s])
      BY <1>1, <2>1, <2>6, MemberTail
    <2> QED
      BY <2>1, <2>5, <2>6, <2>7 DEF Answer
  <1>9. CASE LoopAborts(s)
    <2>1. [run[s] EXCEPT !.stopped = TRUE, !.cut = TRUE].stopped
      BY <1>1 DEF Runs
    <2>2. Leave(s, [run[s] EXCEPT !.stopped = TRUE, !.cut = TRUE]) /\ pending' = pending
      BY <1>9 DEF LoopAborts
    <2> QED
      BY <2>1, <2>2, LeaveQuiet
  <1>10. CASE Returns(s) \/ Interrupt(s)
    <2>1. at[s] = "js" /\ UNCHANGED <<pending, chan, deferred>>
      BY <1>10 DEF Returns, Interrupt
    <2>2. run[s].ret \in {"main", "top", "drain", "poll"} /\ [run[s] EXCEPT !.cut = TRUE].ret = run[s].ret
          /\ [run[s] EXCEPT !.cut = TRUE] \in Runs
      <3>1. run[s].ret \in {"main", "top", "drain", "poll"} /\ [run[s] EXCEPT !.cut = TRUE].ret = run[s].ret
        BY <1>1 DEF Runs
      <3>2. [run[s] EXCEPT !.cut = TRUE] \in Runs
        BY <1>1, RunUpdates
      <3> QED
        BY <3>1, <3>2
    <2>3. \A r \in Runs : [r EXCEPT !.error = TRUE].error
      BY DEF Runs
    <2>4. ASSUME NEW r, Proceed(s, r)
          PROVE  at'[s] = "top" /\ batch' = batch
      <3>1. ~(Idle(s, r) /\ Leave(s, r))
        BY <2>1, LeaveQuiet DEF Idle, Quiet
      <3> QED
        BY <1>1, <2>4, <3>1 DEF Proceed
    <2>5. ASSUME NEW r \in Runs, Leave(s, [r EXCEPT !.error = TRUE]) PROVE FALSE
      BY <2>1, <2>3, <2>5, LeaveQuiet
    <2>6. \/ \E r : Proceed(s, r)
          \/ run[s].ret # "main" /\ at' = [at EXCEPT ![s] = run[s].ret] /\ batch' = batch
          \/ \E r \in Runs : Leave(s, [r EXCEPT !.error = TRUE])
      BY <1>1, <1>10, <2>2 DEF Returns, Interrupt
    <2>7. at'[s] \in {"top", "drain", "poll"} /\ batch' = batch
      BY <1>1, <2>2, <2>4, <2>5, <2>6
    <2>8. Awaits(s, c)
      BY <2>1, <2>7 DEF Awaits
    <2> QED
      BY <2>1, <2>7, <2>8 DEF Answer
  <1> QED
    BY <1>3, <1>4, <1>5, <1>6, <1>7, <1>8, <1>9, <1>10 DEF Working, UserCode

\* The answer to every call of its execution that a session waits for is on its way.
Arrives(s) ==
    \A c \in 1 .. Len(calls) : calls[c].n = run[s].n /\ Awaits(s, c) => OnItsWay(s, c)

ArriveInv == alive => \A s \in Sessions \ destroyed : Arrives(s)

LEMMA ArrivesSame ==
    ASSUME NEW x \in Sessions, Arrives(x), run'[x].n = run[x].n, UNCHANGED calls,
           \A c \in 1 .. Len(calls) : Awaits(x, c)' => Awaits(x, c) /\ (OnItsWay(x, c) => OnItsWay(x, c)')
    PROVE  Arrives(x)'
  BY DEF Arrives

LEMMA AwaitsSame ==
    ASSUME NEW x, UNCHANGED <<at[x], run[x], pending[x]>>
    PROVE  \A c : Awaits(x, c)' <=> Awaits(x, c)
  BY DEF Awaits

LEMMA BackGrows ==
    ASSUME Types, NEW s \in Sessions, Own(s)
    PROVE  \A g : g \in Members(back) => g \in Members(back')
  <1>1. back \in Seq(Frames)
    BY DEF Types, WireTypes
  <1>2. ASSUME NEW f \in Frames, back' = Append(back, f)
        PROVE  \A g : g \in Members(back) => g \in Members(back')
    BY <1>1, <1>2, MemberAppend
  <1> QED
    BY <1>2, BackEffect

LEMMA OwnArriveKept ==
    ASSUME Types, OrderInv, PlaceInv, WaitInv, FreshInv, ArriveInv, NEW x \in Sessions \ destroyed, Own(x)
    PROVE  Arrives(x)'
  <1>1. /\ alive /\ Arrives(x) /\ Placed(x) /\ Fresh(x) /\ OwnFrames(x) /\ UNCHANGED <<wire, handling>>
        /\ Len(calls) \in Nat /\ at \in [Sessions -> Points] /\ run \in [Sessions -> Runs]
        /\ chan \in [Sessions -> Seq(Frames)] /\ chan[x] \in Seq(Frames)
        /\ pending \in [Sessions -> SUBSET (1 .. Len(calls))]
    <2>1. alive /\ UNCHANGED <<wire, handling>>
      BY OwnEffect DEF client
    <2>2. Arrives(x) /\ Placed(x) /\ Fresh(x) /\ OwnFrames(x)
      BY <2>1 DEF ArriveInv, PlaceInv, OrderInv, FreshInv
    <2>3. /\ at \in [Sessions -> Points] /\ run \in [Sessions -> Runs] /\ calls \in Seq(Calls)
          /\ chan \in [Sessions -> Seq(Frames)] /\ chan[x] \in Seq(Frames)
          /\ pending \in [Sessions -> SUBSET (1 .. Len(calls))]
      BY DEF Types, ThreadTypes, WireTypes
    <2>4. Len(calls) \in Nat
      BY ONLY <2>3
    <2> QED
      BY ONLY <2>1, <2>2, <2>3, <2>4
  <1>2. CASE Working(x) /\ ~CallSync(x) /\ ~CallAsync(x)
    <2>1. UNCHANGED <<calls, routed>> /\ run'[x].n = run[x].n
      BY <1>2, CallEffect, WorkingEffect DEF SameRun
    <2>2. ASSUME NEW c \in 1 .. Len(calls), Awaits(x, c)'
          PROVE  Awaits(x, c) /\ (OnItsWay(x, c) => OnItsWay(x, c)')
      <3>1. Awaits(x, c) /\ (Answer(x, c) => Answer(x, c)')
        BY <1>2, <2>2, WorkingAnswers
      <3> QED
        BY <1>1, <2>1, <3>1, BackGrows DEF OnItsWay, Answer
    <2> QED
      BY <1>1, <2>1, <2>2, ArrivesSame
  <1>3. CASE CallSync(x) \/ CallAsync(x)
    <2>1. /\ Len(calls') = Len(calls) + 1 /\ routed' = routed \cup {Len(calls')}
          /\ \A c \in 1 .. Len(calls) : calls'[c] = calls[c]
      BY <1>3, CallEffect
    <2>2. /\ at[x] = "js" /\ UNCHANGED <<chan, deferred, batch>>
          /\ \/ pending' = pending /\ at'[x] = "sync" /\ run'[x].call = Len(calls')
             \/ at' = at /\ pending'[x] = pending[x] \cup {Len(calls')}
      <3>1. CASE CallSync(x)
        <4>1. /\ at[x] = "js" /\ UNCHANGED <<chan, deferred, batch, pending>>
              /\ at' = [at EXCEPT ![x] = "sync"]
              /\ run' = [run EXCEPT ![x] = [run[x] EXCEPT !.call = Len(calls')]]
          BY <3>1 DEF CallSync, Call
        <4>2. at'[x] = "sync" /\ run'[x] = [run[x] EXCEPT !.call = Len(calls')] /\ run[x] \in Runs
          BY ONLY <1>1, <4>1, x \in Sessions
        <4>3. run'[x].call = Len(calls')
          BY ONLY <4>2 DEF Runs
        <4> QED
          BY ONLY <4>1, <4>2, <4>3
      <3>2. CASE CallAsync(x)
        BY <1>1, <3>2 DEF CallAsync, Call
      <3> QED
        BY <1>3, <3>1, <3>2
    <2>3. run'[x].n = run[x].n
      BY <1>3, WorkingEffect DEF Working, UserCode, SameRun
    <2>4. \A c \in 1 .. Len(calls') : c \in 1 .. Len(calls) \/ c = Len(calls')
      BY <1>1, <2>1
    <2>5. ASSUME NEW c \in 1 .. Len(calls), calls'[c].n = run'[x].n, Awaits(x, c)'
          PROVE  OnItsWay(x, c)'
      <3>1. c # Len(calls')
        BY <1>1, <2>1
      <3>2. c \in pending[x]
        BY <2>2, <2>5, <3>1 DEF Awaits
      <3>3. Awaits(x, c) /\ calls[c].n = run[x].n
        BY <2>1, <2>2, <2>3, <2>5, <3>2 DEF Awaits
      <3>4. OnItsWay(x, c)
        BY <1>1, <3>3 DEF Arrives
      <3> QED
        BY <1>1, <2>1, <2>2, <3>4, BackGrows DEF OnItsWay
    <2>6. ASSUME NEW c \in 1 .. Len(calls'), c = Len(calls') PROVE OnItsWay(x, c)'
      <3>1. back' = Append(back, Frame("call", x, c)) /\ back \in Seq(Frames)
        BY <1>3, <2>6 DEF CallSync, CallAsync, Call, Types, WireTypes
      <3>2. Frame("call", x, c) \in Frames
        BY <1>1, <2>1, <2>6, FrameType DEF Kinds
      <3>3. Frame("call", x, c) \in Members(back')
        BY <3>1, <3>2, MemberAppend
      <3> QED
        BY <3>3 DEF OnItsWay
    <2> QED
      BY <2>4, <2>5, <2>6 DEF Arrives
  <1>4. ASSUME NEW mode \in {"exec", "run"}, StartExecution(x, mode) PROVE Arrives(x)'
    <2>1. /\ Heard(x, "execute") /\ at'[x] = "js" /\ UNCHANGED <<calls, pending>>
          /\ run'[x] = [NoRun EXCEPT !.n = Head(chan[x]).n, !.mode = mode, !.stale = doomed[x]]
      BY <1>1, <1>4 DEF StartExecution, outside
    <2>2. run'[x].n = Head(chan[x]).n
      BY ONLY <2>1 DEF NoRun
    <2>3. chan[x] # <<>> /\ Is(Head(chan[x]), "execute", x)
      <3>1. chan[x] # <<>> /\ Head(chan[x]).type = "execute"
        BY <2>1 DEF Heard
      <3>2. Head(chan[x]) = chan[x][1] /\ 1 \in 1 .. Len(chan[x])
        BY ONLY <1>1, <3>1
      <3> QED
        BY ONLY <1>1, <3>1, <3>2 DEF OwnFrames, Is
    <2>4. ~NoneIn(chan[x], "execute", x)
      BY <1>1, <2>3, NoneTail
    <2>5. Head(chan[x]).n = execs[x]
      <3>1. PlacedAt(x, "chan")
        BY <1>1, <2>4 DEF Placed, PlacedAt, Places
      <3>2. Head(chan[x]).n = handler[x] /\ handler[x] # 0
        BY <1>1, <2>3, <3>1, OneTail DEF PlacedAt
      <3> QED
        BY <3>2 DEF Types, ClientTypes
    <2>6. ASSUME NEW c \in 1 .. Len(calls), calls[c].n = run'[x].n, Awaits(x, c)' PROVE FALSE
      <3>1. c \in pending[x]
        BY <2>1, <2>6 DEF Awaits
      <3>2. calls[c].s = x
        BY <3>1 DEF WaitInv, OwnAwaited
      <3> QED
        BY <1>1, <2>2, <2>4, <2>5, <2>6, <3>2 DEF Fresh
    <2> QED
      BY <2>1, <2>6 DEF Arrives
  <1>5. CASE TimerStep(x)
    <2>1. UNCHANGED <<at, run, pending, chan, deferred, batch, calls, back, routed>>
      BY <1>5 DEF TimerStep, outside
    <2> QED
      BY <1>1, <2>1, AwaitsSame, ArrivesSame DEF OnItsWay
  <1>6. CASE \/ AcquireSlot(x) \/ Stop(x) \/ IgnoreFrame(x) \/ InitScriptFails(x)
             \/ CheckTimeout(x) \/ SendResult(x)
    <2>1. at'[x] \in {"idle", "done", "cancel"}
      BY <1>1, <1>6 DEF AcquireSlot, Stop, IgnoreFrame, InitScriptFails, CheckTimeout, SendResult
    <2> QED
      BY <2>1 DEF Arrives, Awaits
  <1> QED
    BY <1>2, <1>3, <1>4, <1>5, <1>6 DEF Own, Thread, Working

LEMMA ConnArriveKept ==
    ASSUME Types, OrderInv, WaitInv, CallsInv, ArriveInv, alive, Conn, NEW x \in Sessions \ destroyed
    PROVE  Arrives(x)'
  <1>1. UNCHANGED <<back, run, handling, pending, deferred, batch, calls>>
    BY DEF Conn, ConnCreates, ConnDestroys, ConnJoins, ConnRoutesResponse, ConnForwards, client, thread
  <1>2. /\ Arrives(x) /\ Ordered(x) /\ wire \in Seq(Frames) /\ chan \in [Sessions -> Seq(Frames)]
        /\ chan[x] \in Seq(Frames) /\ at \in [Sessions -> Points]
    BY DEF ArriveInv, OrderInv, Types, ThreadTypes, WireTypes
  <1>3. at'[x] = at[x] \/ at'[x] = "queued"
    BY <1>2 DEF Conn, ConnCreates, ConnDestroys, ConnJoins, ConnRoutesResponse, ConnForwards, thread
  <1>4. CASE ConnJoins
    <2>1. UNCHANGED <<wire, chan, at, routed>>
      BY <1>4 DEF ConnJoins, thread
    <2> QED
      BY <1>1, <1>2, <2>1, AwaitsSame, ArrivesSame DEF OnItsWay
  <1>5. CASE ~ConnJoins
    <2> DEFINE h == Head(wire)
    <2>1. wire # <<>> /\ wire' = Tail(wire)
      BY <1>5 DEF Conn, ConnCreates, ConnDestroys, ConnRoutesResponse, ConnForwards, NextFrame
    <2>2. h \in Frames /\ h.s \in Sessions
      <3>1. h \in Frames
        BY ONLY <1>2, <2>1
      <3> QED
        BY <3>1 DEF Frames
    <2>3. \A g : g \in Members(chan[x]) => g \in Members(chan'[x])
      <3>1. \/ chan' = chan
            \/ chan' = [chan EXCEPT ![h.s] = Append(@, Shutdown(h.s))]
            \/ chan' = [chan EXCEPT ![h.s] = Append(@, h)]
        BY <1>5 DEF Conn, ConnCreates, ConnDestroys, ConnRoutesResponse, ConnForwards, NextFrame, Sent
      <3>2. Shutdown(h.s) \in Frames
        BY <2>2, FrameType DEF Shutdown, Kinds
      <3> HIDE DEF h
      <3>3. chan'[x] = chan[x] \/ \E f \in Frames : chan'[x] = Append(chan[x], f)
        BY <1>2, <2>2, <3>1, <3>2
      <3>4. ASSUME NEW f \in Frames, chan'[x] = Append(chan[x], f)
            PROVE  \A g : g \in Members(chan[x]) => g \in Members(chan'[x])
        BY <1>2, <3>4, MemberAppend
      <3> QED
        BY <3>3, <3>4
    <2>4. ASSUME NEW c \in 1 .. Len(calls), Awaits(x, c)'
          PROVE  Awaits(x, c) /\ (OnItsWay(x, c) => OnItsWay(x, c)')
      <3>1. at'[x] = at[x] /\ Awaits(x, c)
        BY <1>1, <1>3, <2>4 DEF Awaits
      <3>2. x \in sessions
        BY <1>2, <3>1 DEF Awaits, Ordered
      <3>3. calls[c].s = x
        BY <3>1 DEF Awaits, WaitInv, OwnAwaited
      <3>4. ASSUME c \in routed, Frame("response", x, c) \in Members(wire) PROVE OnItsWay(x, c)'
        <4>1. Frame("response", x, c).type = "response" /\ Frame("response", x, c).n = c
          BY FrameType DEF Kinds
        <4>2. CASE h = Frame("response", x, c)
          <5>1. chan' = [chan EXCEPT ![x] = Append(@, h)]
            <6>1. h.s = x
              BY <4>2, FrameType DEF Kinds
            <6> QED
              BY <1>5, <3>2, <3>4, <4>1, <4>2, <6>1 DEF Conn, ConnCreates, ConnDestroys, ConnRoutesResponse,
                 ConnForwards, NextFrame, Sent
          <5> HIDE DEF h
          <5>2. chan'[x] = Append(chan[x], h)
            BY <1>2, <5>1
          <5>3. h \in Members(chan'[x])
            BY <1>2, <2>2, <5>2, MemberAppend
          <5> QED
            BY <4>2, <5>3 DEF OnItsWay
        <4>3. CASE h # Frame("response", x, c)
          <5>1. Frame("response", x, c) \in Members(wire')
            BY <1>2, <2>1, <3>4, <4>3, MemberTail
          <5>2. ~(h.type = "response" /\ h.n = c)
            <6> SUFFICES ASSUME h.type = "response", h.n = c PROVE FALSE
              OBVIOUS
            <6>1. h.s = x
              BY <2>1, <3>3, WireTail DEF CallsInv, ResponsesOwned
            <6>2. h = Frame("response", x, c)
              BY <2>2, <6>1 DEF Frames, Frame
            <6> QED
              BY <4>3, <6>2
          <5>3. c \in routed'
            BY <1>5, <3>4, <5>2 DEF Conn, ConnCreates, ConnDestroys, ConnRoutesResponse, ConnForwards, NextFrame
          <5> QED
            BY <5>1, <5>3 DEF OnItsWay
        <4> QED
          BY <4>2, <4>3
      <3> QED
        BY <1>1, <2>3, <3>1, <3>4 DEF OnItsWay
    <2> QED
      BY <1>1, <1>2, <2>4, ArrivesSame
  <1> QED
    BY <1>4, <1>5

LEMMA MessageArriveKept ==
    ASSUME Types, PlaceInv, ArriveInv, alive, OnMessage, NEW x \in Sessions \ destroyed
    PROVE  Arrives(x)'
  <1>1. /\ Arrives(x) /\ Placed(x) /\ back \in Seq(Frames) /\ back # <<>> /\ back' = Tail(back)
        /\ UNCHANGED <<at, run, pending, chan, deferred, batch, wire, calls, routed>>
    BY DEF OnMessage, thread, ArriveInv, PlaceInv, Types, WireTypes
  <1>2. handling \subseteq handling'
    BY DEF OnMessage
  <1>3. ASSUME NEW c \in 1 .. Len(calls), Awaits(x, c)'
        PROVE  Awaits(x, c) /\ (OnItsWay(x, c) => OnItsWay(x, c)')
    <2>1. Awaits(x, c)
      BY <1>1, <1>3 DEF Awaits
    <2>2. ASSUME Frame("call", x, c) \in Members(back) PROVE OnItsWay(x, c)'
      <3>1. CASE Head(back) = Frame("call", x, c)
        <4>1. handler[x] # 0
          BY <1>1, <2>1 DEF Awaits, Placed, PlacedAt, Busy
        <4>2. Frame("call", x, c).type = "call" /\ Frame("call", x, c).s = x /\ Frame("call", x, c).n = c
          BY FrameType DEF Kinds
        <4>3. c \in handling'
          BY <3>1, <4>1, <4>2 DEF OnMessage
        <4> QED
          BY <4>3 DEF OnItsWay
      <3>2. CASE Head(back) # Frame("call", x, c)
        BY <1>1, <2>2, <3>2, MemberTail DEF OnItsWay
      <3> QED
        BY <3>1, <3>2
    <2> QED
      BY <1>1, <1>2, <2>1, <2>2 DEF OnItsWay
  <1> QED
    BY <1>1, <1>3, ArrivesSame

LEMMA HandlerArriveKept ==
    ASSUME Types, CallsInv, WaitInv, ArriveInv, alive, NEW h \in handling, HandlerReturns(h),
           NEW x \in Sessions \ destroyed
    PROVE  Arrives(x)'
  <1>1. /\ Arrives(x) /\ wire \in Seq(Frames) /\ calls \in Seq(Calls) /\ h \in 1 .. Len(calls)
        /\ UNCHANGED <<at, run, pending, chan, deferred, batch, back, calls, routed>>
        /\ handling' = handling \ {h} /\ wire' = Append(wire, Frame("response", calls[h].s, h))
    BY DEF HandlerReturns, Written, runtime, thread, ArriveInv, Types, WireTypes
  <1>2. Frame("response", calls[h].s, h) \in Frames
    <2>1. calls[h] \in Calls /\ h \in Nat
      BY ONLY <1>1
    <2> QED
      BY <2>1, FrameType DEF Calls, Kinds
  <1>3. /\ Frame("response", calls[h].s, h) \in Members(wire')
        /\ \A g : g \in Members(wire) => g \in Members(wire')
    BY <1>1, <1>2, MemberAppend
  <1>4. ASSUME NEW c \in 1 .. Len(calls), Awaits(x, c)'
        PROVE  Awaits(x, c) /\ (OnItsWay(x, c) => OnItsWay(x, c)')
    <2>1. Awaits(x, c)
      BY <1>1, <1>4 DEF Awaits
    <2>2. calls[c].s = x
      BY <2>1 DEF Awaits, WaitInv, OwnAwaited
    <2>3. c = h => c \in routed
      BY <1>1 DEF CallsInv, CallPlaced
    <2>4. c = h => OnItsWay(x, c)'
      BY <1>1, <1>3, <2>2, <2>3 DEF OnItsWay
    <2>5. c # h /\ OnItsWay(x, c) => OnItsWay(x, c)'
      BY <1>1, <1>3 DEF OnItsWay
    <2> QED
      BY <2>1, <2>4, <2>5
  <1> QED
    BY <1>1, <1>4, ArrivesSame

LEMMA ClientArriveKept ==
    ASSUME Types, ArriveInv, alive, NEW s \in Sessions, Client(s), NEW x \in Sessions \ destroyed'
    PROVE  Arrives(x)'
  <1>1. /\ x \notin destroyed
        /\ UNCHANGED <<at, run, pending, chan, deferred, batch, back, calls, routed, handling>>
    BY DEF Client, CreateSession, Execute, SendStreamEvent, DestroySession, runtime, thread
  <1>2. execs'[s] \in Nat /\ wire \in Seq(Frames)
    BY ClientTypesKept DEF Types, ClientTypes, WireTypes
  <1>3. PICK k \in {"create", "execute", "stream", "destroy"}, n \in Nat : wire' = Append(wire, Frame(k, s, n))
    BY <1>2 DEF Client, CreateSession, Execute, SendStreamEvent, DestroySession, Written
  <1>4. Frame(k, s, n) \in Frames
    BY <1>3, FrameType DEF Kinds
  <1>5. \A g : g \in Members(wire) => g \in Members(wire')
    BY <1>2, <1>3, <1>4, MemberAppend
  <1>6. ASSUME NEW c \in 1 .. Len(calls), Awaits(x, c)'
        PROVE  Awaits(x, c) /\ (OnItsWay(x, c) => OnItsWay(x, c)')
    BY <1>1, <1>5, <1>6 DEF Awaits, OnItsWay
  <1> QED
    BY <1>1, <1>6, ArrivesSame DEF ArriveInv

LEMMA OtherArriveKept ==
    ASSUME Types, WaitInv, ArriveInv, NEW s \in Sessions, Own(s), NEW x \in Sessions \ destroyed, x # s
    PROVE  Arrives(x)'
  <1>1. alive /\ UNCHANGED <<wire, handling>> /\ Untouched(x)
    BY OwnEffect, OthersUntouched
  <1>2. Arrives(x) /\ OwnAwaited(x)
    BY <1>1 DEF ArriveInv, WaitInv
  <1>3. /\ routed \subseteq routed' /\ \A c \in 1 .. Len(calls) : calls'[c] = calls[c]
    BY CallEffect
  <1>4. pending[x] \subseteq 1 .. Len(calls)
    BY DEF Types, WireTypes
  <1>5. \A g : g \in Members(back) => g \in Members(back')
    BY BackGrows
  <1>6. ASSUME NEW c \in 1 .. Len(calls'), calls'[c].n = run'[x].n, Awaits(x, c)'
        PROVE  OnItsWay(x, c)'
    <2>1. Awaits(x, c)
      BY <1>1, <1>6 DEF Awaits, Untouched
    <2>2. c \in 1 .. Len(calls)
      BY <1>2, <1>4, <2>1 DEF Awaits, OwnAwaited
    <2>3. calls[c].n = run[x].n
      BY <1>1, <1>3, <1>6, <2>2 DEF Untouched
    <2>4. OnItsWay(x, c)
      BY <1>2, <2>1, <2>2, <2>3 DEF Arrives
    <2> QED
      BY <1>1, <1>3, <1>5, <2>4 DEF OnItsWay, Untouched
  <1> QED
    BY <1>6 DEF Arrives

LEMMA ArriveInvKept ==
    ASSUME Types, OrderInv, PlaceInv, WaitInv, FreshInv, CallsInv, ArriveInv, [Next]_vars
    PROVE  ArriveInv'
  <1> SUFFICES ASSUME alive', NEW x \in Sessions \ destroyed' PROVE Arrives(x)'
    BY DEF ArriveInv
  <1>1. CASE UNCHANGED vars
    <2>1. /\ alive /\ UNCHANGED <<destroyed, at, run, pending, chan, deferred, batch, back, wire, calls, routed,
                                  handling>>
      BY <1>1 DEF vars, client, thread, alive
    <2> QED
      BY <2>1 DEF ArriveInv, Arrives, Awaits, OnItsWay
  <1>2. CASE RuntimeExits \/ OnExit
    BY <1>2 DEF RuntimeExits, OnExit, alive
  <1>3. CASE OnMessage
    BY <1>3, MessageArriveKept DEF OnMessage, alive
  <1>4. ASSUME NEW h \in handling, HandlerReturns(h) PROVE Arrives(x)'
    BY <1>4, HandlerArriveKept DEF HandlerReturns, runtime, alive
  <1>5. ASSUME NEW s \in Sessions, Client(s) PROVE Arrives(x)'
    <2>1. alive
      BY <1>5 DEF Client, CreateSession, Execute, SendStreamEvent, DestroySession, runtime, alive
    <2> QED
      BY <1>5, <2>1, ClientArriveKept
  <1>6. CASE Conn
    <2>1. alive /\ destroyed' = destroyed
      BY <1>6 DEF Conn, ConnCreates, ConnDestroys, ConnJoins, ConnRoutesResponse, ConnForwards, NextFrame, client
    <2> QED
      BY <1>6, <2>1, ConnArriveKept
  <1>7. ASSUME NEW s \in Sessions, Own(s) PROVE Arrives(x)'
    <2>1. destroyed' = destroyed
      BY <1>7, OwnEffect
    <2> QED
      BY <1>7, <2>1, OwnArriveKept, OtherArriveKept
  <1> QED
    BY <1>1, <1>2, <1>3, <1>4, <1>5, <1>6, <1>7 DEF Next, Own

(* A bridge call the running execution waits for is on its way to the host or its answer on the    *)
(* way back, while the client still listens: neither the call-id router, the session channel, the  *)
(* frames a sync call set aside nor the event loop loses one (host_call.rs, session.rs             *)
(* run_event_loop, main.rs handle_connection).                                                     *)
THEOREM AnswersNotLost == Spec => []AnswersArrive
  <1>1. Init => AwaitedInv /\ ArriveInv
    BY DEF Init, AwaitedInv, ArriveInv, Arrives, All
  <1>2. Types /\ AwaitedInv /\ CreatedOnce /\ ArriveInv => AnswersArrive
    BY DEF AnswersArrive, Types, ClientTypes, AwaitedInv, CreatedOnce, ArriveInv, Arrives
  <1>3. Types /\ OrderInv /\ PlaceInv /\ WaitInv /\ FreshInv /\ CallsInv /\ ArriveInv /\ [Next]_vars => ArriveInv'
    BY ArriveInvKept
  <1> QED
    BY <1>1, <1>2, <1>3, TypesAlways, CreatedOnceAlways, OrderAlways, PlaceAlways, WaitAlways, FreshAlways,
       CallsAlways, AwaitedKept, PTL DEF Spec

=============================================================================
