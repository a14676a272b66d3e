------------------------- MODULE ProcessTableProofs -------------------------
(***************************************************************************)
(* Proofs about ProcessTable, for any number of processes, signals, calls  *)
(* and nested handlers: masks are restored, handlers are not re-entered,   *)
(* no signal stays pending that could be delivered, nobody waits for a     *)
(* process that is gone.                                                   *)
(***************************************************************************)
EXTENDS ProcessTable, FiniteSetTheorems, SequenceTheorems, WellFoundedInduction, TLAPS

\* A set of naturals that is not empty has a least element.
LEMMA LeastNatural ==
    ASSUME NEW S \in SUBSET Nat, S # {}
    PROVE  \E x \in S : \A y \in S : x <= y
  <1> DEFINE less == {e \in Nat \X Nat : e[1] < e[2]}
  <1>1. IsWellFoundedOn(less, Nat)
    BY NatLessThanWellFounded DEF OpToRel
  <1> HIDE DEF less
  <1>2. PICK x \in S : \A y \in S : ~(<<y, x>> \in less)
    BY <1>1, WFMin, Zenon
  <1>3. ASSUME NEW y \in S PROVE x <= y
    <2>1. x \in Nat /\ y \in Nat /\ ~(y < x)
      BY <1>2 DEF less
    <2> QED
      BY <2>1
  <1> QED
    BY <1>3

----------------------------------------------------------------------------
(* Ascending *)

Increasing(q, n) == \A i, j \in 1 .. n : i < j => q[i] < q[j]

\* A finite set of naturals can be listed in ascending order: what is left after
\* its least element can, unless there is a smallest counterexample.
LEMMA SortedExists ==
    ASSUME NEW S \in SUBSET Nat, IsFiniteSet(S)
    PROVE  \E q \in [1 .. Cardinality(S) -> S] : Increasing(q, Cardinality(S))
  <1> DEFINE Sorts(T, n) == \E q \in [1 .. n -> T] : Increasing(q, n)
             bad == {n \in Nat : \E T \in SUBSET Nat :
                       IsFiniteSet(T) /\ Cardinality(T) = n /\ ~Sorts(T, n)}
  <1>1. bad = {}
    <2> SUFFICES ASSUME bad # {} PROVE FALSE
      OBVIOUS
    <2>1. PICK n \in bad : \A k \in bad : n <= k
      BY LeastNatural
    <2>2. PICK T \in SUBSET Nat : IsFiniteSet(T) /\ Cardinality(T) = n /\ ~Sorts(T, n)
      OBVIOUS
    <2>3. n # 0
      <3> SUFFICES ASSUME n = 0 PROVE FALSE
        OBVIOUS
      <3>1. [i \in 1 .. 0 |-> 0] \in [1 .. 0 -> T] /\ Increasing([i \in 1 .. 0 |-> 0], 0)
        BY DEF Increasing
      <3> QED
        BY <2>2, <3>1
    <2>4. T # {}
      BY <2>2, <2>3, FS_EmptySet
    <2>5. PICK x \in T : \A y \in T : x <= y
      BY <2>4, LeastNatural
    <2> DEFINE R == T \ {x}
    <2>6. IsFiniteSet(R) /\ Cardinality(R) = n - 1
      BY <2>2, FS_RemoveElement
    <2>7. n - 1 \in Nat /\ n - 1 \notin bad
      BY <2>1, <2>3
    <2>8. Sorts(R, n - 1)
      BY <2>6, <2>7
    <2>9. PICK q \in [1 .. n - 1 -> R] : Increasing(q, n - 1)
      BY <2>8
    <2> DEFINE r == [i \in 1 .. n |-> IF i = 1 THEN x ELSE q[i - 1]]
    <2>10. r \in [1 .. n -> T]
      BY <2>3
    <2>11. Increasing(r, n)
      <3> SUFFICES ASSUME NEW i \in 1 .. n, NEW j \in 1 .. n, i < j
                   PROVE  r[i] < r[j]
        BY DEF Increasing
      <3>1. j - 1 \in 1 .. n - 1 /\ q[j - 1] \in T /\ q[j - 1] # x /\ r[j] = q[j - 1]
        OBVIOUS
      <3>2. CASE i = 1
        <4>1. r[i] = x /\ x <= q[j - 1] /\ x \in Nat /\ q[j - 1] \in Nat
          BY <2>5, <3>1, <3>2
        <4> HIDE DEF r
        <4> QED
          BY <3>1, <4>1
      <3>3. CASE i # 1
        <4>1. i - 1 \in 1 .. n - 1 /\ i - 1 < j - 1 /\ r[i] = q[i - 1]
          BY <3>3
        <4> QED
          BY <2>9, <3>1, <4>1 DEF Increasing
      <3> QED
        BY <3>2, <3>3
    <2> QED
      BY <2>2, <2>10, <2>11
  <1>2. Cardinality(S) \in Nat
    BY FS_CardinalityType
  <1> QED
    BY <1>1, <1>2

\* Ascending(S) lists exactly the elements of S, as the loops over pendingSignals and
\* over the process map do.
LEMMA AscendingLists ==
    ASSUME NEW S \in SUBSET Nat, IsFiniteSet(S)
    PROVE  /\ Ascending(S) \in Seq(S) /\ Len(Ascending(S)) = Cardinality(S)
           /\ Cardinality(S) \in Nat
           /\ \A s \in S : \E i \in 1 .. Cardinality(S) : Ascending(S)[i] = s
  <1> DEFINE n == Cardinality(S)
             q == Ascending(S)
  <1>1. n \in Nat
    BY FS_CardinalityType
  <1>2. q \in [1 .. n -> S] /\ Increasing(q, n)
    BY SortedExists DEF Ascending, Increasing
  <1>3. q \in Injection(1 .. n, S)
    <2>1. \A i, j \in 1 .. n : q[i] = q[j] => i = j
      <3> SUFFICES ASSUME NEW i \in 1 .. n, NEW j \in 1 .. n, q[i] = q[j], i # j
                   PROVE  FALSE
        OBVIOUS
      <3>1. q[i] \in Nat /\ q[j] \in Nat
        BY <1>2
      <3>2. i < j \/ j < i
        BY <1>1
      <3> HIDE DEF q
      <3> QED
        BY <1>2, <3>1, <3>2 DEF Increasing
    <2> HIDE DEF q, n
    <2> QED
      BY <1>2, <2>1 DEF Injection, IsInjective
  <1>4. IsFiniteSet(1 .. n) /\ Cardinality(1 .. n) = n
    BY <1>1, FS_Interval
  <1>5. q \in Surjection(1 .. n, S)
    BY <1>3, <1>4, FS_Injection
  <1> HIDE DEF q
  <1>6. q \in Seq(S) /\ Len(q) = n
    BY <1>1, <1>2
  <1>7. \A s \in S : \E i \in 1 .. n : q[i] = s
    BY <1>5 DEF Surjection
  <1> QED
    BY <1>1, <1>6, <1>7 DEF q

----------------------------------------------------------------------------
(* The inductive invariant *)

PlainFrames ==
    [kind : {"deliver", "dispatch", "driver", "guarded"}, pid : Pids, signal : Signals]
NotifyFrames == [kind : {"notify"}, pid : Pids, signal : {0}]
HandlerFrames ==
    [kind : {"handler"}, pid : Pids, signal : Signals, saved : SUBSET Signals,
     once : BOOLEAN, touched : BOOLEAN]
PendingFrames ==
    [kind : {"pending"}, pid : Pids, todo : Seq(Signals), ran : BOOLEAN]
Frames == PlainFrames \cup NotifyFrames \cup HandlerFrames \cup PendingFrames

\* Only processes that were registered have calls in progress or pending signals.
Started ==
    /\ \A i \in DOMAIN stack : status[stack[i].pid] # "none"
    /\ \A p \in Pids : status[p] = "none" => pending[p] = {}
    /\ alarms # {} => SIGALRM \in Signals

\* The loop of terminateAll is the outermost call.
GuardedLast ==
    \A i, j \in DOMAIN stack :
        i < j /\ stack[i].kind = "guarded" => stack[j].kind = "guarded"

\* A signal about to be dispatched is not blocked.
DispatchFresh ==
    \A i \in DOMAIN stack : stack[i].kind = "dispatch" =>
        i = 1 /\ stack[i].signal \notin blocked[stack[i].pid]

IsHandler(i, p) == stack[i].kind = "handler" /\ stack[i].pid = p

Outermost(i, p) == IsHandler(i, p) /\ \A j \in DOMAIN stack : IsHandler(j, p) => j <= i

\* The outermost handler of a process has saved the mask the process asked for;
\* outside handlers that mask is in force.
MaskSaved ==
    \A p \in Pids :
        /\ (\A i \in DOMAIN stack : ~IsHandler(i, p)) => blocked[p] = mask[p]
        /\ \A i \in DOMAIN stack : Outermost(i, p) => stack[i].saved = mask[p]

\* While a handler runs, its signal is blocked, and stays so when a handler that
\* was entered inside it returns.
StaysBlocked ==
    \A p \in Pids : \A j \in DOMAIN stack :
        IsHandler(j, p) /\ ~stack[j].touched =>
            /\ stack[j].signal \in blocked[p]
            /\ \A i \in DOMAIN stack : i < j /\ IsHandler(i, p) =>
                 stack[j].signal \in stack[i].saved /\ stack[j].signal # stack[i].signal

\* Frame f will still look at signal s of process p.
Covers(f, p, s) ==
    /\ f.pid = p
    /\ \/ f.kind = "handler"
       \/ f.kind = "pending" /\ \E k \in DOMAIN f.todo : f.todo[k] = s

\* Every signal that is pending and not blocked is still to be looked at.
PendingCovered ==
    ~threw => \A p \in Pids : Live(p) =>
        \A s \in pending[p] \ blocked[p] :
            \E i \in DOMAIN stack : Covers(stack[i], p, s)

\* None of the properties is inductive alone: that a mask comes back needs the
\* nesting of the handlers, and that no signal stays behind needs the loops that
\* are still under way.
IInv ==
    /\ TypeOK /\ stack \in Seq(Frames)
    /\ Started /\ GuardedLast /\ DispatchFresh
    /\ MaskSaved /\ StaysBlocked /\ PendingCovered /\ NoLostWaiter

----------------------------------------------------------------------------
(* Steps of the stack *)

\* The fields of a frame, by its kind.
LEMMA FrameFields ==
    ASSUME NEW f \in Frames
    PROVE  /\ f.pid \in Pids
           /\ f.kind \in {"deliver", "dispatch", "driver", "guarded"} => f.signal \in Signals
           /\ f.kind = "handler" =>
                /\ f.signal \in Signals /\ f.saved \in SUBSET Signals
                /\ f.once \in BOOLEAN /\ f.touched \in BOOLEAN
           /\ f.kind = "pending" =>
                f \in PendingFrames /\ f.todo \in Seq(Signals) /\ f.ran \in BOOLEAN
  BY DEF Frames, PlainFrames, NotifyFrames, HandlerFrames, PendingFrames

\* The m innermost calls have given way to n new ones.
Replace(m, n) ==
    /\ stack' \in Seq(Frames)
    /\ m \in 0 .. Len(stack) /\ n \in Nat
    /\ Len(stack') = n + (Len(stack) - m)
    /\ \A i \in 1 .. Len(stack) - m : stack'[n + i] = stack[m + i]

LEMMA Pops ==
    ASSUME stack \in Seq(Frames), stack # <<>>, Return
    PROVE  Replace(1, 0)
  BY DEF Return, Replace

LEMMA Becomes ==
    ASSUME stack \in Seq(Frames), stack # <<>>, NEW f \in Frames, Become(<<f>>)
    PROVE  Replace(1, 1) /\ \A i \in 1 .. 1 : stack'[i] = f
  BY DEF Become, Replace

LEMMA Pushes ==
    ASSUME stack \in Seq(Frames), NEW f \in Frames, stack' = <<f>> \o stack
    PROVE  Replace(0, 1) /\ \A i \in 1 .. 1 : stack'[i] = f
  BY DEF Replace

\* Where the calls that stay in progress are found before and after such a step.
LEMMA Moved ==
    ASSUME stack \in Seq(Frames), NEW m, NEW n, Replace(m, n)
    PROVE  /\ m \in Nat /\ n \in Nat
           /\ \A i \in DOMAIN stack' : i > n =>
                i - n + m \in DOMAIN stack /\ i - n + m > m /\ stack'[i] = stack[i - n + m]
           /\ \A i \in DOMAIN stack : i > m =>
                i - m + n \in DOMAIN stack' /\ i - m + n > n /\ stack'[i - m + n] = stack[i]
  <1>1. Len(stack) \in Nat /\ DOMAIN stack = 1 .. Len(stack) /\ DOMAIN stack' = 1 .. Len(stack')
    BY DEF Replace
  <1>2. ASSUME NEW i \in DOMAIN stack', i > n
        PROVE  i - n + m \in DOMAIN stack /\ i - n + m > m /\ stack'[i] = stack[i - n + m]
    <2>1. i - n \in 1 .. Len(stack) - m
      BY <1>1, <1>2 DEF Replace
    <2>2. stack'[n + (i - n)] = stack[m + (i - n)]
      BY <2>1 DEF Replace
    <2>3. n + (i - n) = i /\ m + (i - n) = i - n + m
      BY <1>1, <1>2 DEF Replace
    <2> QED
      BY <1>1, <2>1, <2>2, <2>3 DEF Replace
  <1>3. ASSUME NEW i \in DOMAIN stack, i > m
        PROVE  i - m + n \in DOMAIN stack' /\ i - m + n > n /\ stack'[i - m + n] = stack[i]
    <2>1. i - m \in 1 .. Len(stack) - m
      BY <1>1, <1>3 DEF Replace
    <2>2. stack'[n + (i - m)] = stack[m + (i - m)]
      BY <2>1 DEF Replace
    <2>3. n + (i - m) = i - m + n /\ m + (i - m) = i
      BY <1>1, <1>3 DEF Replace
    <2> QED
      BY <1>1, <2>1, <2>2, <2>3 DEF Replace
  <1> QED
    BY <1>2, <1>3 DEF Replace

\* A new call is not the loop of terminateAll, and dispatches nothing that is blocked.
LEMMA FrameStep ==
    ASSUME IInv, NEW m, NEW n, Replace(m, n),
           m = 0 => stack = <<>> \/ stack[1].kind # "dispatch",
           \A i \in 1 .. n : /\ stack'[i].kind # "guarded"
                             /\ stack'[i].kind = "dispatch" =>
                                  i = 1 /\ stack'[i].signal \notin blocked'[stack'[i].pid]
    PROVE  GuardedLast' /\ DispatchFresh'
  <1>1. /\ m \in Nat /\ n \in Nat
        /\ \A i \in DOMAIN stack' : i > n =>
             i - n + m \in DOMAIN stack /\ i - n + m > m /\ stack'[i] = stack[i - n + m]
    BY Moved DEF IInv
  <1>2. DOMAIN stack = 1 .. Len(stack) /\ Len(stack) \in Nat
        /\ DOMAIN stack' = 1 .. Len(stack') /\ Len(stack') \in Nat
    BY DEF IInv, Replace
  <1>3. GuardedLast'
    <2> SUFFICES ASSUME NEW i \in DOMAIN stack', NEW j \in DOMAIN stack', i < j,
                        stack'[i].kind = "guarded"
                 PROVE  stack'[j].kind = "guarded"
      BY DEF GuardedLast
    <2>1. i > n /\ j > n
      BY <1>1, <1>2
    <2>2. i - n + m < j - n + m
      BY <1>1, <1>2
    <2> QED
      BY <1>1, <2>1, <2>2 DEF IInv, GuardedLast
  <1>4. DispatchFresh'
    <2> SUFFICES ASSUME NEW i \in DOMAIN stack', stack'[i].kind = "dispatch"
                 PROVE  i = 1 /\ stack'[i].signal \notin blocked'[stack'[i].pid]
      BY DEF DispatchFresh
    <2>1. CASE i <= n
      BY <1>1, <1>2, <2>1
    <2>2. CASE i > n
      <3>1. i - n + m \in DOMAIN stack /\ i - n + m > m /\ stack[i - n + m].kind = "dispatch"
        BY <1>1, <2>2
      <3>2. i - n + m = 1
        BY <3>1 DEF IInv, DispatchFresh
      <3> QED
        BY <1>1, <1>2, <3>1, <3>2
    <2> QED
      BY <1>1, <1>2, <2>1, <2>2
  <1> QED
    BY <1>3, <1>4

\* Calls that come and go, none of them a handler, leave the masks in order.
LEMMA QuietHandlers ==
    ASSUME IInv, NEW m, NEW n, Replace(m, n), blocked' = blocked, mask' = mask,
           \A i \in 1 .. m : stack[i].kind # "handler",
           \A i \in 1 .. n : stack'[i].kind # "handler"
    PROVE  MaskSaved' /\ StaysBlocked'
  <1>1. /\ m \in Nat /\ n \in Nat
        /\ \A i \in DOMAIN stack' : i > n =>
             i - n + m \in DOMAIN stack /\ i - n + m > m /\ stack'[i] = stack[i - n + m]
        /\ \A i \in DOMAIN stack : i > m =>
             i - m + n \in DOMAIN stack' /\ i - m + n > n /\ stack'[i - m + n] = stack[i]
    BY Moved DEF IInv
  <1>2. DOMAIN stack = 1 .. Len(stack) /\ Len(stack) \in Nat
        /\ DOMAIN stack' = 1 .. Len(stack') /\ Len(stack') \in Nat
    BY DEF IInv, Replace
  <1>3. ASSUME NEW p, NEW i \in DOMAIN stack', IsHandler(i, p)'
        PROVE  i > n /\ i - n + m \in DOMAIN stack /\ IsHandler(i - n + m, p)
               /\ stack'[i] = stack[i - n + m]
    <2>1. i > n
      BY <1>1, <1>2, <1>3 DEF IsHandler
    <2> QED
      BY <1>1, <1>3, <2>1 DEF IsHandler
  <1>4. ASSUME NEW p, NEW i \in DOMAIN stack, IsHandler(i, p)
        PROVE  i > m /\ i - m + n \in DOMAIN stack' /\ IsHandler(i - m + n, p)'
    <2>1. i > m
      BY <1>1, <1>2, <1>4 DEF IsHandler
    <2> QED
      BY <1>1, <1>4, <2>1 DEF IsHandler
  <1>5. MaskSaved'
    <2> SUFFICES ASSUME NEW p \in Pids
                 PROVE  /\ (\A i \in DOMAIN stack' : ~IsHandler(i, p)') => blocked'[p] = mask'[p]
                        /\ \A i \in DOMAIN stack' : Outermost(i, p)' =>
                             stack'[i].saved = mask'[p]
      BY DEF MaskSaved
    <2>1. (\A i \in DOMAIN stack' : ~IsHandler(i, p)') => blocked'[p] = mask'[p]
      BY <1>4 DEF IInv, MaskSaved
    <2>2. ASSUME NEW i \in DOMAIN stack', Outermost(i, p)'
          PROVE  stack'[i].saved = mask'[p]
      <3>1. i > n /\ i - n + m \in DOMAIN stack /\ IsHandler(i - n + m, p)
            /\ stack'[i] = stack[i - n + m]
        BY <1>3, <2>2 DEF Outermost
      <3>2. ASSUME NEW j \in DOMAIN stack, IsHandler(j, p)
            PROVE  j <= i - n + m
        <4>1. j > m /\ j - m + n \in DOMAIN stack' /\ IsHandler(j - m + n, p)'
          BY <1>4, <3>2
        <4>2. j - m + n <= i
          BY <2>2, <4>1 DEF Outermost
        <4> QED
          BY <1>1, <1>2, <4>1, <4>2
      <3>3. Outermost(i - n + m, p)
        BY <3>1, <3>2 DEF Outermost
      <3> QED
        BY <3>1, <3>3 DEF IInv, MaskSaved
    <2> QED
      BY <2>1, <2>2
  <1>6. StaysBlocked'
    <2> SUFFICES ASSUME NEW p \in Pids, NEW j \in DOMAIN stack', IsHandler(j, p)',
                        ~stack'[j].touched
                 PROVE  /\ stack'[j].signal \in blocked'[p]
                        /\ \A i \in DOMAIN stack' : i < j /\ IsHandler(i, p)' =>
                             /\ stack'[j].signal \in stack'[i].saved
                             /\ stack'[j].signal # stack'[i].signal
      BY DEF StaysBlocked
    <2>1. j > n /\ j - n + m \in DOMAIN stack /\ IsHandler(j - n + m, p)
          /\ stack'[j] = stack[j - n + m]
      BY <1>3
    <2>2. stack'[j].signal \in blocked'[p]
      BY <2>1 DEF IInv, StaysBlocked
    <2>3. ASSUME NEW i \in DOMAIN stack', i < j, IsHandler(i, p)'
          PROVE  stack'[j].signal \in stack'[i].saved /\ stack'[j].signal # stack'[i].signal
      <3>1. i > n /\ i - n + m \in DOMAIN stack /\ IsHandler(i - n + m, p)
            /\ stack'[i] = stack[i - n + m]
        BY <1>3, <2>3
      <3>2. i - n + m < j - n + m
        BY <1>1, <1>2, <2>3
      <3> QED
        BY <2>1, <3>1, <3>2 DEF IInv, StaysBlocked
    <2> QED
      BY <2>2, <2>3
  <1> QED
    BY <1>5, <1>6

\* Calls that go, none of them a handler or a loop over pending signals, leave none
\* of those behind.
LEMMA QuietPending ==
    ASSUME IInv, NEW m, NEW n, Replace(m, n), ~threw' => ~threw,
           \A i \in 1 .. m : stack[i].kind \notin {"handler", "pending"},
           \A p \in Pids : Live(p)' => Live(p),
           \A p \in Pids : pending'[p] \ blocked'[p] \subseteq pending[p] \ blocked[p]
    PROVE  PendingCovered'
  <1>1. /\ m \in Nat
        /\ \A i \in DOMAIN stack : i > m =>
             i - m + n \in DOMAIN stack' /\ stack'[i - m + n] = stack[i]
    BY Moved DEF IInv
  <1>2. DOMAIN stack = 1 .. Len(stack) /\ Len(stack) \in Nat
    BY DEF IInv
  <1> SUFFICES ASSUME ~threw', NEW p \in Pids, Live(p)', NEW s \in pending'[p] \ blocked'[p]
               PROVE  \E i \in DOMAIN stack' : Covers(stack'[i], p, s)
    BY DEF PendingCovered, Covers
  <1>3. PICK i \in DOMAIN stack : Covers(stack[i], p, s)
    BY DEF IInv, PendingCovered
  <1>4. i > m
    BY <1>1, <1>2, <1>3 DEF Covers
  <1> QED
    BY <1>1, <1>3, <1>4

\* Calls that go, none of them the end of markExited, strand no waiter.
LEMMA QuietWaiters ==
    ASSUME IInv, NEW m, NEW n, Replace(m, n), ~threw' => ~threw,
           \A i \in 1 .. m : stack[i].kind # "notify",
           waiters' = waiters,
           \A p \in Pids : Live(p) => Live(p)' \/ \E i \in 1 .. n :
                                        stack'[i].kind = "notify" /\ stack'[i].pid = p
    PROVE  NoLostWaiter'
  <1>1. /\ m \in Nat /\ n \in Nat
        /\ \A i \in DOMAIN stack : i > m =>
             i - m + n \in DOMAIN stack' /\ stack'[i - m + n] = stack[i]
    BY Moved DEF IInv
  <1>2. DOMAIN stack = 1 .. Len(stack) /\ Len(stack) \in Nat
        /\ DOMAIN stack' = 1 .. Len(stack') /\ n <= Len(stack')
    BY DEF IInv, Replace
  <1> SUFFICES ASSUME ~threw', NEW p \in Pids, waiters'[p] > 0, ~Live(p)'
               PROVE  \E i \in DOMAIN stack' : stack'[i].kind = "notify" /\ stack'[i].pid = p
    BY DEF NoLostWaiter
  <1>3. CASE Live(p)
    <2>1. PICK i \in 1 .. n : stack'[i].kind = "notify" /\ stack'[i].pid = p
      BY <1>3
    <2> QED
      BY <1>1, <1>2, <2>1
  <1>4. CASE ~Live(p)
    <2>1. PICK i \in DOMAIN stack : stack[i].kind = "notify" /\ stack[i].pid = p
      BY <1>4 DEF IInv, NoLostWaiter
    <2>2. i > m
      BY <1>1, <1>2, <2>1
    <2> QED
      BY <1>1, <2>1, <2>2
  <1> QED
    BY <1>3, <1>4

\* Calls are started for registered processes only.
LEMMA StartedStep ==
    ASSUME IInv, TypeOK', NEW m, NEW n, Replace(m, n),
           \A i \in 1 .. n : status'[stack'[i].pid] # "none",
           \A p \in Pids : status'[p] = "none" => status[p] = "none" /\ pending'[p] = {},
           alarms' # {} => SIGALRM \in Signals
    PROVE  Started'
  <1>1. \A i \in DOMAIN stack' : i > n =>
          i - n + m \in DOMAIN stack /\ stack'[i] = stack[i - n + m]
    BY Moved DEF IInv
  <1>2. DOMAIN stack' = 1 .. Len(stack') /\ n \in Nat
    BY DEF Replace
  <1>3. ASSUME NEW i \in DOMAIN stack' PROVE status'[stack'[i].pid] # "none"
    <2>1. CASE i <= n
      BY <1>2, <2>1
    <2>2. CASE i > n
      <3>1. stack'[i].pid \in Pids
        BY DEF TypeOK
      <3> QED
        BY <1>1, <2>2, <3>1 DEF IInv, Started
    <2> QED
      BY <1>2, <2>1, <2>2
  <1> QED
    BY <1>3 DEF Started

\* A step that touches neither masks nor handlers, loops over pending signals, or
\* waiters keeps the invariant.
LEMMA QuietStep ==
    ASSUME IInv, TypeOK', NEW m, NEW n, Replace(m, n),
           UNCHANGED <<blocked, mask, threw, waiters>>,
           m = 0 => stack = <<>> \/ stack[1].kind # "dispatch",
           \A i \in 1 .. m : stack[i].kind \notin {"handler", "pending", "notify"},
           \A i \in 1 .. n :
             /\ stack'[i].kind \notin {"guarded", "handler"}
             /\ status'[stack'[i].pid] # "none"
             /\ stack'[i].kind = "dispatch" =>
                  i = 1 /\ stack'[i].signal \notin blocked[stack'[i].pid],
           alarms' # {} => SIGALRM \in Signals,
           \A p \in Pids :
             /\ status'[p] = "none" => status[p] = "none" /\ pending'[p] = {}
             /\ pending'[p] \ blocked[p] \subseteq pending[p] \ blocked[p]
             /\ Live(p)' => Live(p)
             /\ Live(p) => Live(p)' \/ \E i \in 1 .. n :
                                stack'[i].kind = "notify" /\ stack'[i].pid = p
    PROVE  IInv'
  <1>1. GuardedLast' /\ DispatchFresh'
    BY FrameStep
  <1>2. MaskSaved' /\ StaysBlocked'
    BY QuietHandlers
  <1>3. PendingCovered'
    BY QuietPending
  <1>4. NoLostWaiter'
    BY QuietWaiters
  <1>5. Started'
    BY StartedStep
  <1> QED
    BY <1>1, <1>2, <1>3, <1>4, <1>5 DEF IInv, Replace

\* What the type invariant says of the stack follows from its frames.
LEMMA StackPids ==
    ASSUME NEW q \in Seq(Frames)
    PROVE  \A i \in DOMAIN q : q[i].pid \in Pids
  BY FrameFields, ElementOfSeq

\* The call on top of the stack.
LEMMA TopFrame ==
    ASSUME IInv, stack # <<>>
    PROVE  /\ Head(stack) \in Frames /\ Head(stack) = stack[1] /\ 1 \in DOMAIN stack
           /\ Head(stack).pid \in Pids /\ status[Head(stack).pid] # "none"
  BY FrameFields DEF IInv, Started

----------------------------------------------------------------------------
(* The actions *)

LEMMA RegisterInv ==
    ASSUME IInv, NEW p \in Pids, NEW parent \in Pids \cup {0}, Register(p, parent)
    PROVE  IInv'
  <1> USE DEF Register, sig, timers
  <1>1. TypeOK'
    BY DEF IInv, TypeOK
  <1>2. Started' /\ GuardedLast' /\ DispatchFresh' /\ MaskSaved' /\ StaysBlocked'
    BY DEF IInv, Started, GuardedLast, DispatchFresh, MaskSaved, StaysBlocked, IsHandler,
           Outermost, TypeOK
  <1>3. PendingCovered'
    BY DEF IInv, PendingCovered, Started, Live, TypeOK
  <1>4. NoLostWaiter'
    BY DEF IInv, NoLostWaiter, Live, TypeOK
  <1> QED
    BY <1>1, <1>2, <1>3, <1>4 DEF IInv

LEMMA WaitpidInv ==
    ASSUME IInv, NEW p \in Pids, Waitpid(p)
    PROVE  IInv'
  <1>1. stack' = stack /\ UNCHANGED <<status, ppid, sig, timers, dispose, threw>>
        /\ Live(p) /\ waiters[p] < MaxWaiters /\ waiters' = [waiters EXCEPT ![p] = @ + 1]
    BY DEF Waitpid, Call, IInv
  <1> USE <1>1 DEF sig, timers
  <1>2. TypeOK'
    BY ProcessAssumption DEF IInv, TypeOK
  <1>3. Started' /\ GuardedLast' /\ DispatchFresh' /\ MaskSaved' /\ StaysBlocked'
        /\ PendingCovered'
    BY DEF IInv, Started, GuardedLast, DispatchFresh, MaskSaved, StaysBlocked, IsHandler,
           Outermost, PendingCovered, Live
  <1>4. NoLostWaiter'
    BY DEF IInv, NoLostWaiter, Live, TypeOK
  <1> QED
    BY <1>2, <1>3, <1>4 DEF IInv

\* markExited puts the end of it, and the parent's SIGCHLD, on the stack.
LEMMA MarkExitedInv ==
    ASSUME IInv, NEW p \in Pids, Live(p), NEW m \in {0, 1},
           m = 0 => stack = <<>>,
           m = 1 => stack # <<>> /\ stack[1].kind \in {"driver", "guarded"},
           MarkExited(p, IF m = 0 THEN stack ELSE Tail(stack)),
           UNCHANGED <<ppid, sig, waiters, zombie, dispose, threw>>
    PROVE  IInv'
  <1> DEFINE parent == ppid[p]
             told == parent # 0 /\ status[parent] = "running"
             end == Frame("notify", p, 0)
             q == IF told THEN <<Frame("deliver", parent, SIGCHLD), end>> ELSE <<end>>
             n == Len(q)
             base == IF m = 0 THEN stack ELSE Tail(stack)
  <1>1. /\ status' = [status EXCEPT ![p] = "exited"] /\ alarms' = alarms \ {p}
        /\ stack' = (IF told THEN <<Frame("deliver", parent, SIGCHLD)>> ELSE <<>>)
                      \o <<end>> \o base
    BY DEF MarkExited
  <1>2. parent \in Pids \cup {0} /\ (told => parent \in Pids)
    BY DEF IInv, TypeOK
  <1>3. end \in Frames /\ (told => Frame("deliver", parent, SIGCHLD) \in Frames)
    BY <1>2, ProcessAssumption DEF Frame, Frames, PlainFrames, NotifyFrames
  <1>4. q \in Seq(Frames) /\ n \in {1, 2} /\ q[n] = end /\ (n = 2 => told)
        /\ (n = 2 => q[1] = Frame("deliver", parent, SIGCHLD))
    BY <1>3
  <1>5. base \in Seq(Frames)
    BY DEF IInv
  <1>6. stack' = q \o base
    <2> HIDE DEF base, end
    <2>1. CASE told
      BY <1>1, <1>3, <1>5, <2>1
    <2>2. CASE ~told
      BY <1>1, <1>3, <1>5, <2>2
    <2> QED
      BY <2>1, <2>2
  <1> HIDE DEF q, end
  <1>7. Replace(m, n) /\ \A i \in 1 .. n : stack'[i] = q[i]
    BY <1>4, <1>5, <1>6 DEF Replace, IInv
  <1> HIDE DEF n
  <1>8. TypeOK'
    <2>1. \A i \in DOMAIN stack' : stack'[i].pid \in Pids
      BY <1>7, StackPids DEF Replace
    <2> QED
      BY <1>1, <2>1 DEF IInv, TypeOK, sig
  <1>9. \A i \in 1 .. n :
          /\ stack'[i].kind \in {"deliver", "notify"}
          /\ status'[stack'[i].pid] # "none"
    <2>1. stack'[n] = end /\ (n = 2 => stack'[1] = Frame("deliver", parent, SIGCHLD))
      BY <1>4, <1>7
    <2>2. status' \in [Pids -> {"none", "running", "stopped", "exited", "reaped"}]
          /\ status'[p] = "exited" /\ (n = 2 => status'[parent] # "none")
      BY <1>1, <1>2, <1>4 DEF IInv, TypeOK
    <2>3. \A i \in 1 .. n : i = n \/ (n = 2 /\ i = 1)
      BY <1>4
    <2> QED
      BY <2>1, <2>2, <2>3 DEF end, Frame
  <1>10. stack'[n].kind = "notify" /\ stack'[n].pid = p /\ n \in 1 .. n
    BY <1>4, <1>7 DEF end, Frame
  <1>11. \A r \in Pids : /\ status'[r] = "none" => status[r] = "none"
                         /\ Live(r)' => Live(r)
                         /\ Live(r) => Live(r)' \/ r = p
    BY <1>1 DEF IInv, TypeOK, Live
  <1>12. \A r \in Pids : status[r] = "none" => pending[r] = {}
    BY DEF IInv, Started
  <1>13. alarms' # {} => SIGALRM \in Signals
    BY <1>1 DEF IInv, Started
  <1> QED
    BY <1>7, <1>8, <1>9, <1>10, <1>11, <1>12, <1>13, QuietStep DEF sig

LEMMA DriverExitInv ==
    ASSUME IInv, NEW p \in Pids, DriverExit(p)
    PROVE  IInv'
  BY MarkExitedInv DEF DriverExit

\* A step that leaves the stack alone, and the masks, waiters and pending signals.
LEMMA IdleStep ==
    ASSUME IInv, TypeOK', stack' = stack, UNCHANGED <<blocked, pending, mask, threw, waiters>>,
           stack = <<>> \/ stack[1].kind # "dispatch",
           alarms' # {} => SIGALRM \in Signals,
           \A p \in Pids : /\ status'[p] = "none" => status[p] = "none"
                           /\ Live(p)' <=> Live(p)
    PROVE  IInv'
  <1>1. Replace(0, 0)
    BY DEF Replace, IInv
  <1>2. \A p \in Pids : status[p] = "none" => pending[p] = {}
    BY DEF IInv, Started
  <1> QED
    BY <1>1, <1>2, QuietStep

LEMMA KillInv ==
    ASSUME IInv, NEW p \in Pids, NEW s \in Signals, Kill(p, s)
    PROVE  IInv'
  <1> DEFINE f == Frame("deliver", p, s)
  <1>1. f \in Frames /\ f.kind = "deliver" /\ f.pid = p
    BY DEF Frame, Frames, PlainFrames
  <1>2. stack' = <<f>> \o stack /\ Live(p)
        /\ UNCHANGED <<status, ppid, sig, waiters, timers, dispose, threw>>
        /\ (stack = <<>> \/ stack[1].kind # "dispatch")
    BY DEF Kill, Call, UserCode, Top, IInv
  <1> HIDE DEF f
  <1>3. Replace(0, 1) /\ \A i \in 1 .. 1 : stack'[i] = f
    BY <1>1, <1>2, Pushes DEF IInv
  <1>4. TypeOK'
    <2>1. \A i \in DOMAIN stack' : stack'[i].pid \in Pids
      BY <1>3, StackPids DEF Replace
    <2> QED
      BY <1>2, <2>1 DEF IInv, TypeOK, sig, timers
  <1>6. status[p] # "none"
    BY <1>2 DEF Live
  <1>7. (\A r \in Pids : status[r] = "none" => pending[r] = {})
        /\ (alarms # {} => SIGALRM \in Signals)
    BY DEF IInv, Started
  <1>8. \A r \in Pids : Live(r)' <=> Live(r)
    BY <1>2 DEF Live
  <1> QED
    BY <1>1, <1>2, <1>3, <1>4, <1>6, <1>7, <1>8, QuietStep DEF sig, timers

LEMMA SigactionInv ==
    ASSUME IInv, NEW p \in Pids, NEW s \in Handled, NEW d \in Dispositions, Sigaction(p, s, d)
    PROVE  IInv'
  <1>1. /\ stack' = stack /\ disp' = [disp EXCEPT ![p][s] = d]
        /\ UNCHANGED <<status, ppid, blocked, pending, mask, waiters, timers, dispose, threw>>
        /\ (stack = <<>> \/ stack[1].kind # "dispatch")
    BY DEF Sigaction, Call, UserCode, Top, IInv
  <1>2. s \in Signals
    BY ProcessAssumption
  <1>3. TypeOK'
    BY <1>1, <1>2 DEF IInv, TypeOK, timers
  <1>4. (alarms # {} => SIGALRM \in Signals) /\ \A r \in Pids : Live(r)' <=> Live(r)
    BY <1>1 DEF IInv, Started, Live
  <1> QED
    BY <1>1, <1>3, <1>4, IdleStep DEF timers

LEMMA AlarmInv ==
    ASSUME IInv, NEW p \in Pids, NEW on \in BOOLEAN, Alarm(p, on)
    PROVE  IInv'
  <1>1. /\ stack' = stack /\ SIGALRM \in Signals
        /\ alarms' = IF on THEN alarms \cup {p} ELSE alarms \ {p}
        /\ UNCHANGED <<status, ppid, sig, waiters, zombie, dispose, threw>>
        /\ (stack = <<>> \/ stack[1].kind # "dispatch")
    BY DEF Alarm, Call, UserCode, Top, IInv
  <1>2. TypeOK'
    BY <1>1 DEF IInv, TypeOK, sig
  <1>3. \A r \in Pids : Live(r)' <=> Live(r)
    BY <1>1 DEF Live
  <1> QED
    BY <1>1, <1>2, <1>3, IdleStep DEF sig

LEMMA ZombieTimerInv ==
    ASSUME IInv, NEW p \in Pids, ZombieTimer(p)
    PROVE  IInv'
  <1> USE DEF ZombieTimer, sig
  <1>1. TypeOK'
    BY DEF IInv, TypeOK
  <1>2. \A r \in Pids : /\ status'[r] = "none" => status[r] = "none"
                        /\ Live(r)' <=> Live(r)
    BY DEF Live, IInv, TypeOK
  <1>3. alarms' # {} => SIGALRM \in Signals
    BY DEF IInv, Started
  <1> QED
    BY <1>1, <1>2, <1>3, IdleStep

LEMMA DisposedInv ==
    ASSUME IInv, Disposed
    PROVE  IInv'
  <1> USE DEF Disposed, sig, timers
  <1>1. TypeOK'
    BY DEF IInv, TypeOK
  <1>2. (alarms # {} => SIGALRM \in Signals) /\ \A r \in Pids : Live(r)' <=> Live(r)
    BY DEF IInv, Started, Live
  <1> QED
    BY <1>1, <1>2, IdleStep

LEMMA AlarmFiresInv ==
    ASSUME IInv, NEW p \in Pids, AlarmFires(p)
    PROVE  IInv'
  <1> USE DEF AlarmFires, sig
  <1> DEFINE f == Frame("deliver", p, SIGALRM)
  <1>1. SIGALRM \in Signals
    BY DEF IInv, Started
  <1>2. f \in Frames /\ f.kind = "deliver" /\ f.pid = p
    BY <1>1 DEF Frame, Frames, PlainFrames
  <1>3. \A r \in Pids : Live(r)' <=> Live(r)
    BY DEF Live
  <1> HIDE DEF f
  <1>4. CASE status[p] = "running"
    <2>1. stack' = <<f>> \o stack
      BY <1>2, <1>4, ConcatEmptySeq DEF f
    <2>2. Replace(0, 1) /\ \A i \in 1 .. 1 : stack'[i] = f
      BY <1>2, <2>1, Pushes DEF IInv
    <2>3. TypeOK'
      <3>1. \A i \in DOMAIN stack' : stack'[i].pid \in Pids
        BY <2>2, StackPids DEF Replace
      <3> QED
        BY <3>1 DEF IInv, TypeOK
    <2>4. \A r \in Pids : status[r] = "none" => pending[r] = {}
      BY DEF IInv, Started
    <2> QED
      BY <1>1, <1>2, <1>3, <1>4, <2>2, <2>3, <2>4, QuietStep
  <1>5. CASE status[p] # "running"
    <2>1. stack' = stack
      BY <1>5
    <2>2. TypeOK'
      BY <2>1 DEF IInv, TypeOK
    <2> QED
      BY <1>1, <1>3, <2>1, <2>2, IdleStep
  <1> QED
    BY <1>4, <1>5

\* The loops of terminateAll start on an empty stack.
LEMMA DriverKillsInv ==
    ASSUME IInv, stack = <<>>, NEW s \in Signals,
           stack' = DriverKills({p \in Pids : Live(p)}, s),
           UNCHANGED <<status, ppid, sig, waiters, threw>>,
           zombie' \subseteq zombie, alarms' \subseteq alarms,
           dispose' \in {"no", "term", "kill", "done"}
    PROVE  IInv'
  <1> DEFINE ps == {p \in Pids : Live(p)}
  <1>1. ps \in SUBSET Nat /\ IsFiniteSet(ps)
    BY ProcessAssumption, FS_Subset
  <1>2. Ascending(ps) \in Seq(ps) /\ Len(Ascending(ps)) = Cardinality(ps)
        /\ Cardinality(ps) \in Nat
    BY <1>1, AscendingLists
  <1>3. stack' = [i \in 1 .. Cardinality(ps) |-> Frame("guarded", Ascending(ps)[i], s)]
    BY DEF DriverKills
  <1> HIDE DEF ps
  <1>4. \A i \in 1 .. Cardinality(ps) : Ascending(ps)[i] \in ps
    BY <1>2
  <1>5. \A i \in 1 .. Cardinality(ps) :
          /\ stack'[i] \in Frames /\ stack'[i].kind = "guarded"
          /\ stack'[i].pid \in Pids /\ Live(stack'[i].pid)
    BY <1>3, <1>4 DEF Frame, Frames, PlainFrames, ps
  <1>6. stack' \in Seq(Frames) /\ DOMAIN stack' = 1 .. Cardinality(ps)
    BY <1>2, <1>3, <1>5
  <1>7. TypeOK'
    BY <1>5, <1>6 DEF IInv, TypeOK, sig
  <1>8. Started'
    BY <1>5, <1>6 DEF IInv, Started, Live, sig
  <1>9. GuardedLast' /\ DispatchFresh'
    BY <1>5, <1>6 DEF GuardedLast, DispatchFresh
  <1>10. MaskSaved' /\ StaysBlocked'
    <2>1. \A p \in Pids : blocked[p] = mask[p]
      BY DEF IInv, MaskSaved, IsHandler
    <2>2. \A p : \A i \in DOMAIN stack' : ~IsHandler(i, p)'
      BY <1>5, <1>6 DEF IsHandler
    <2> QED
      BY <2>1, <2>2 DEF MaskSaved, StaysBlocked, Outermost, sig
  <1>11. PendingCovered'
    BY DEF IInv, PendingCovered, Live, sig
  <1>12. NoLostWaiter'
    BY DEF IInv, NoLostWaiter, Live
  <1> QED
    BY <1>6, <1>7, <1>8, <1>9, <1>10, <1>11, <1>12 DEF IInv

LEMMA TerminateAllInv ==
    ASSUME IInv, TerminateAll \/ Escalate
    PROVE  IInv'
  BY DriverKillsInv, ProcessAssumption DEF TerminateAll, Escalate, timers

\* A call that is neither a handler, nor a loop over pending signals, nor the end of
\* markExited gives way to another, or returns.
LEMMA CallStep ==
    ASSUME IInv, stack # <<>>, Head(stack).kind \notin {"handler", "pending", "notify"},
           \/ Return
           \/ \E f \in Frames :
                /\ Become(<<f>>) /\ f.kind \in {"dispatch", "driver"}
                /\ f.pid = Head(stack).pid
                /\ f.kind = "dispatch" => f.signal \notin blocked[f.pid],
           UNCHANGED <<ppid, disp, blocked, mask, waiters, timers, dispose, threw>>,
           status' \in [Pids -> {"none", "running", "stopped", "exited", "reaped"}],
           pending' \in [Pids -> SUBSET (Signals \ Uncatchable)],
           \A p \in Pids :
             /\ status'[p] = "none" <=> status[p] = "none"
             /\ Live(p)' <=> Live(p)
             /\ status[p] = "none" => pending'[p] = {}
             /\ pending'[p] \ blocked[p] \subseteq pending[p] \ blocked[p]
    PROVE  IInv'
  <1>1. Head(stack) = stack[1] /\ Head(stack).pid \in Pids
        /\ status[Head(stack).pid] # "none"
    BY TopFrame
  <1>2. \A i \in 1 .. 1 : stack[i] = Head(stack)
    BY <1>1
  <1>3. alarms' # {} => SIGALRM \in Signals
    BY DEF IInv, Started, timers
  <1>4. ASSUME stack' \in Seq(Frames) PROVE TypeOK'
    <2>1. \A i \in DOMAIN stack' : stack'[i].pid \in Pids
      BY <1>4, StackPids
    <2> QED
      BY <2>1 DEF IInv, TypeOK, timers
  <1>5. CASE Return
    <2>1. Replace(1, 0)
      BY <1>5, Pops DEF IInv
    <2>2. TypeOK'
      BY <1>4, <2>1 DEF Replace
    <2>3. \A i : i \notin 1 .. 0
      OBVIOUS
    <2> QED
      BY <1>2, <1>3, <2>1, <2>2, <2>3, QuietStep DEF timers
  <1>6. CASE ~Return
    <2>1. PICK f \in Frames :
            /\ Become(<<f>>) /\ f.kind \in {"dispatch", "driver"}
            /\ f.pid = Head(stack).pid
            /\ f.kind = "dispatch" => f.signal \notin blocked[f.pid]
      BY <1>6
    <2>2. Replace(1, 1) /\ \A i \in 1 .. 1 : stack'[i] = f
      BY <2>1, Becomes DEF IInv
    <2>3. TypeOK'
      BY <1>4, <2>2 DEF Replace
    <2>4. \A i \in 1 .. 1 : i = 1
      OBVIOUS
    <2>5. \A i \in 1 .. 1 :
             /\ stack'[i].kind \notin {"guarded", "handler"}
             /\ status'[stack'[i].pid] # "none"
             /\ stack'[i].kind = "dispatch" =>
                  i = 1 /\ stack'[i].signal \notin blocked[stack'[i].pid]
      BY <1>1, <2>1, <2>2, <2>4
    <2> QED
      BY <1>2, <1>3, <2>2, <2>3, <2>5, QuietStep DEF timers
  <1> QED
    BY <1>5, <1>6

\* stop and cont keep a process alive, or not.
LEMMA StatusStep ==
    ASSUME IInv, NEW p \in Pids, status' \in {status, Stopped(p), Continued(p)}
    PROVE  /\ status' \in [Pids -> {"none", "running", "stopped", "exited", "reaped"}]
           /\ \A q \in Pids : /\ status'[q] = "none" <=> status[q] = "none"
                              /\ Live(q)' <=> Live(q)
  BY DEF IInv, TypeOK, Stopped, Continued, Live

LEMMA DeliverInv ==
    ASSUME IInv, DeliverUncatchable \/ Deliver
    PROVE  IInv'
  <1> DEFINE p == Head(stack).pid
             s == Head(stack).signal
             driver == Frame("driver", p, s)
             dispatch == Frame("dispatch", p, s)
  <1>1. stack # <<>> /\ Head(stack).kind = "deliver"
    BY DEF DeliverUncatchable, Deliver, Top
  <1>2. Head(stack) \in Frames /\ p \in Pids /\ s \in Signals /\ status[p] # "none"
    BY <1>1, TopFrame, FrameFields
  <1>3. /\ driver \in Frames /\ driver.kind = "driver" /\ driver.pid = p
        /\ dispatch \in Frames /\ dispatch.kind = "dispatch" /\ dispatch.pid = p
        /\ dispatch.signal = s
    BY <1>2 DEF Frame, Frames, PlainFrames
  <1>4. status' \in {status, Stopped(p), Continued(p)}
    BY DEF DeliverUncatchable, Deliver
  <1>5. UNCHANGED <<ppid, disp, blocked, mask, waiters, timers, dispose, threw>>
    BY DEF DeliverUncatchable, Deliver, sig
  <1>6. \A q \in Pids : status[q] = "none" => pending[q] = {}
    BY DEF IInv, Started
  <1>7. pending \in [Pids -> SUBSET (Signals \ Uncatchable)]
    BY DEF IInv, TypeOK
  <1>8. CASE DeliverUncatchable
    <2>1. Become(<<driver>>) /\ pending' = pending
      BY <1>8 DEF DeliverUncatchable, sig
    <2> HIDE DEF driver, dispatch, s, p
    <2> QED
      BY <1>1, <1>2, <1>3, <1>4, <1>5, <1>6, <1>7, <2>1, StatusStep, CallStep DEF p
  <1>9. CASE Deliver /\ s \in blocked[p]
    <2>1. Return /\ pending' = [pending EXCEPT ![p] = @ \cup {s}] /\ s \notin Uncatchable
      BY <1>9 DEF Deliver
    <2> HIDE DEF driver, dispatch, s, p
    <2>2. /\ pending' \in [Pids -> SUBSET (Signals \ Uncatchable)]
          /\ \A q \in Pids : /\ status[q] = "none" => pending'[q] = {}
                             /\ pending'[q] \ blocked[q] \subseteq pending[q] \ blocked[q]
      BY <1>2, <1>6, <1>7, <1>9, <2>1
    <2> QED
      BY <1>1, <1>2, <1>3, <1>4, <1>5, <2>1, <2>2, StatusStep, CallStep
  <1>10. CASE Deliver /\ s \notin blocked[p]
    <2>1. Become(<<dispatch>>) /\ pending' = pending
      BY <1>10 DEF Deliver
    <2> HIDE DEF driver, dispatch, s, p
    <2> QED
      BY <1>1, <1>2, <1>3, <1>4, <1>5, <1>6, <1>7, <1>10, <2>1, StatusStep, CallStep DEF p
  <1> QED
    BY <1>8, <1>9, <1>10

LEMMA DispatchInv ==
    ASSUME IInv, DispatchIgnored \/ DispatchDefault
    PROVE  IInv'
  <1> DEFINE p == Head(stack).pid
             s == Head(stack).signal
             driver == Frame("driver", p, s)
  <1>1. stack # <<>> /\ Head(stack).kind = "dispatch"
    BY DEF DispatchIgnored, DispatchDefault, Top
  <1>2. Head(stack) \in Frames /\ p \in Pids /\ s \in Signals
    BY <1>1, TopFrame, FrameFields
  <1>3. driver \in Frames /\ driver.kind = "driver" /\ driver.pid = p
    BY <1>2 DEF Frame, Frames, PlainFrames
  <1>4. status' \in {status, Stopped(p), Continued(p)}
    BY DEF DispatchIgnored, DispatchDefault
  <1>5. UNCHANGED <<ppid, sig, waiters, timers, dispose, threw>>
    BY DEF DispatchIgnored, DispatchDefault
  <1>6. \A q \in Pids : status[q] = "none" => pending[q] = {}
    BY DEF IInv, Started
  <1>7. pending \in [Pids -> SUBSET (Signals \ Uncatchable)]
    BY DEF IInv, TypeOK
  <1>8. Return \/ Become(<<driver>>)
    BY DEF DispatchIgnored, DispatchDefault
  <1> HIDE DEF driver, s, p
  <1> QED
    BY <1>1, <1>2, <1>3, <1>4, <1>5, <1>6, <1>7, <1>8, StatusStep, CallStep DEF p, sig

LEMMA DriverKillInv ==
    ASSUME IInv, DriverKill \/ DriverKillExits
    PROVE  IInv'
  <1>1. stack # <<>> /\ Head(stack).kind \in {"driver", "guarded"}
    BY DEF DriverKill, DriverKillExits, Top
  <1>2. Head(stack) = stack[1] /\ Head(stack).pid \in Pids
    BY <1>1, TopFrame
  <1>3. CASE DriverKill
    <2> USE <1>3 DEF DriverKill, sig
    <2>1. /\ \A q \in Pids : /\ status'[q] = "none" <=> status[q] = "none"
                             /\ Live(q)' <=> Live(q)
          /\ status' \in [Pids -> {"none", "running", "stopped", "exited", "reaped"}]
          /\ pending' \in [Pids -> SUBSET (Signals \ Uncatchable)]
      BY DEF Live, IInv, TypeOK
    <2>2. \A q \in Pids : status[q] = "none" => pending[q] = {}
      BY DEF IInv, Started
    <2> QED
      BY <1>1, <2>1, <2>2, CallStep
  <1>4. CASE DriverKillExits
    BY <1>1, <1>2, <1>4, MarkExitedInv DEF DriverKillExits
  <1> QED
    BY <1>3, <1>4

LEMMA NotifyInv ==
    ASSUME IInv, Notify
    PROVE  IInv'
  <1> DEFINE p == Head(stack).pid
  <1>1. stack # <<>> /\ Head(stack).kind = "notify"
    BY DEF Notify, Top
  <1>2. Head(stack) = stack[1] /\ p \in Pids
    BY <1>1, TopFrame
  <1>3. /\ waiters' = [waiters EXCEPT ![p] = 0] /\ zombie' = zombie \cup {p}
        /\ UNCHANGED <<status, ppid, sig, alarms, dispose, threw>>
    BY DEF Notify
  <1>4. Replace(1, 0)
    BY <1>1, Pops DEF IInv, Notify
  <1> HIDE DEF p
  <1>5. TypeOK'
    <2>1. \A i \in DOMAIN stack' : stack'[i].pid \in Pids
      BY <1>4, StackPids DEF Replace
    <2> QED
      BY <1>2, <1>3, <2>1, ProcessAssumption DEF IInv, TypeOK, sig
  <1>6. (\A i : i \notin 1 .. 0) /\ \A i \in 1 .. 1 : stack[i] = Head(stack)
    BY <1>2
  <1>7. GuardedLast' /\ DispatchFresh'
    BY <1>4, <1>6, FrameStep
  <1>8. MaskSaved' /\ StaysBlocked'
    BY <1>1, <1>3, <1>4, <1>6, QuietHandlers DEF sig
  <1>9. PendingCovered'
    BY <1>1, <1>3, <1>4, <1>6, QuietPending DEF sig, Live
  <1>10. Started'
    <2>1. (\A q \in Pids : status[q] = "none" => pending[q] = {})
          /\ (alarms # {} => SIGALRM \in Signals)
      BY DEF IInv, Started
    <2> QED
      BY <1>3, <1>4, <1>5, <1>6, <2>1, StartedStep DEF sig
  <1>11. NoLostWaiter'
    <2> SUFFICES ASSUME ~threw', NEW q \in Pids, waiters'[q] > 0, ~Live(q)'
                 PROVE  \E i \in DOMAIN stack' : stack'[i].kind = "notify" /\ stack'[i].pid = q
      BY DEF NoLostWaiter
    <2>1. q # p /\ waiters[q] > 0 /\ ~Live(q) /\ ~threw
      BY <1>2, <1>3 DEF IInv, TypeOK, Live
    <2>2. PICK i \in DOMAIN stack : stack[i].kind = "notify" /\ stack[i].pid = q
      BY <2>1 DEF IInv, NoLostWaiter
    <2>3. i > 1
      <3>1. i # 1
        BY <1>2, <2>1, <2>2 DEF p
      <3> QED
        BY <3>1 DEF IInv
    <2> QED
      BY <1>4, <2>2, <2>3, Moved DEF IInv
  <1> QED
    BY <1>4, <1>5, <1>7, <1>8, <1>9, <1>10, <1>11 DEF IInv, Replace

\* The next round of the loop over pending signals, or its end.
LEMMA PendingRoundInv ==
    ASSUME IInv, PendingRound
    PROVE  IInv'
  <1> DEFINE f == Head(stack)
             p == f.pid
             s == Head(f.todo)
             rest(ran) == [f EXCEPT !.todo = Tail(@), !.ran = ran]
             over == f.todo = <<>> \/ (f.ran /\ status[p] = "exited")
             due == s \in pending[p] \ blocked[p]
             call == Frame("dispatch", p, s)
  <1>1. stack # <<>> /\ f.kind = "pending"
    BY DEF PendingRound, Top
  <1>2. f \in Frames /\ f = stack[1] /\ 1 \in DOMAIN stack /\ p \in Pids /\ status[p] # "none"
    BY <1>1, TopFrame
  <1>3. f \in PendingFrames /\ f.todo \in Seq(Signals)
    BY <1>1, <1>2, FrameFields
  <1>4. f.todo # <<>> =>
          /\ s \in Signals /\ Tail(f.todo) \in Seq(Signals)
          /\ \A k \in DOMAIN f.todo : f.todo[k] = s \/ \E j \in DOMAIN Tail(f.todo) :
                                                         Tail(f.todo)[j] = f.todo[k]
    <2> HIDE DEF f
    <2> SUFFICES ASSUME f.todo # <<>>, NEW k \in DOMAIN f.todo, f.todo[k] # s
                 PROVE  \E j \in DOMAIN Tail(f.todo) : Tail(f.todo)[j] = f.todo[k]
      BY <1>3
    <2>1. k - 1 \in DOMAIN Tail(f.todo) /\ Tail(f.todo)[k - 1] = f.todo[k]
      BY <1>3
    <2> QED
      BY <2>1
  <1>5. ASSUME f.todo # <<>>, NEW ran \in BOOLEAN
        PROVE  /\ rest(ran) \in Frames /\ rest(ran).kind = "pending" /\ rest(ran).pid = p
               /\ rest(ran).todo = Tail(f.todo)
    BY <1>3, <1>4, <1>5 DEF PendingFrames, Frames
  <1>6. f.todo # <<>> => call \in Frames /\ call.kind = "dispatch" /\ call.pid = p
                         /\ call.signal = s
    BY <1>2, <1>4 DEF Frame, Frames, PlainFrames
  <1>7. UNCHANGED <<status, ppid, disp, blocked, mask, waiters, timers, dispose, threw>>
    BY DEF PendingRound
  <1>8. over => Return /\ pending' = pending
    BY DEF PendingRound
  <1>9. ~over /\ due => /\ pending' = [pending EXCEPT ![p] = @ \ {s}]
                        /\ Become(<<call, rest(TRUE)>>)
    BY DEF PendingRound
  <1>10. ~over /\ ~due => Become(<<rest(FALSE)>>) /\ pending' = pending
    BY DEF PendingRound
  <1>11. \A i \in 1 .. 1 : i = 1 /\ stack[i] = f
    BY <1>2
  <1> HIDE DEF f, p, s, rest, call
  <1>12. \A r \in Pids : pending'[r] \subseteq pending[r] /\ (Live(r)' <=> Live(r))
    BY <1>7, <1>8, <1>9, <1>10 DEF IInv, TypeOK, Live
  <1>13. ASSUME NEW n, Replace(1, n),
                \A i \in 1 .. n : /\ stack'[i].kind \in {"dispatch", "pending"}
                                  /\ stack'[i].pid = p
                                  /\ stack'[i].kind = "dispatch" => i = 1 /\ stack'[i].signal \notin blocked[p],
                \A r \in pending'[p] \ blocked[p] : Covers(f, p, r) /\ Live(p) =>
                  \E i \in 1 .. n : Covers(stack'[i], p, r)
         PROVE  IInv'
    <2>1. TypeOK'
      <3>1. \A i \in DOMAIN stack' : stack'[i].pid \in Pids
        BY <1>13, StackPids DEF Replace
      <3>2. pending' \in [Pids -> SUBSET (Signals \ Uncatchable)]
        <4> HIDE DEF over, due
        <4>1. pending \in [Pids -> SUBSET (Signals \ Uncatchable)]
          BY DEF IInv, TypeOK
        <4>2. pending' = pending \/ pending' = [pending EXCEPT ![p] = @ \ {s}]
          BY <1>8, <1>9, <1>10
        <4> QED
          BY <1>2, <4>1, <4>2
      <3> QED
        BY <1>7, <3>1, <3>2 DEF IInv, TypeOK, timers
    <2>2. GuardedLast' /\ DispatchFresh'
      BY <1>7, <1>13, FrameStep
    <2>3. MaskSaved' /\ StaysBlocked'
      BY <1>1, <1>7, <1>11, <1>13, QuietHandlers
    <2>4. NoLostWaiter'
      BY <1>1, <1>7, <1>11, <1>12, <1>13, QuietWaiters
    <2>5. Started'
      <3>1. (\A q \in Pids : status[q] = "none" => pending[q] = {})
            /\ (alarms # {} => SIGALRM \in Signals)
        BY DEF IInv, Started
      <3> QED
        BY <1>2, <1>7, <1>12, <1>13, <2>1, <3>1, StartedStep DEF timers
    <2>6. PendingCovered'
      <3> SUFFICES ASSUME ~threw', NEW q \in Pids, Live(q)', NEW r \in pending'[q] \ blocked'[q]
                   PROVE  \E i \in DOMAIN stack' : Covers(stack'[i], q, r)
        BY DEF PendingCovered, Covers
      <3>1. r \in pending[q] \ blocked[q] /\ Live(q) /\ ~threw
        BY <1>7, <1>12
      <3>2. PICK i \in DOMAIN stack : Covers(stack[i], q, r)
        BY <3>1 DEF IInv, PendingCovered
      <3>3. CASE i = 1
        <4>1. q = p /\ Covers(f, p, r)
          BY <1>2, <3>2, <3>3 DEF Covers, p
        <4>2. PICK k \in 1 .. n : Covers(stack'[k], p, r)
          BY <1>7, <1>13, <3>1, <4>1
        <4>3. k \in DOMAIN stack'
          BY <1>13, <4>2 DEF Replace, IInv
        <4> QED
          BY <4>1, <4>2, <4>3
      <3>4. CASE i # 1
        <4>1. i > 1
          BY <3>4 DEF IInv
        <4> QED
          BY <1>13, <3>2, <4>1, Moved DEF IInv
      <3> QED
        BY <3>3, <3>4
    <2> QED
      BY <1>13, <2>1, <2>2, <2>3, <2>4, <2>5, <2>6 DEF IInv, Replace
  <1>14. CASE over
    <2>1. Replace(1, 0)
      BY <1>1, <1>8, <1>14, Pops DEF IInv
    <2>2. \A i : i \notin 1 .. 0
      OBVIOUS
    <2>3. ASSUME NEW r, Covers(f, p, r) PROVE ~Live(p)
      BY <1>1, <1>14, <2>3 DEF Covers, Live
    <2> HIDE DEF over
    <2> QED
      BY <1>13, <2>1, <2>2, <2>3
  <1>15. CASE ~over /\ due
    <2> DEFINE g == rest(TRUE)
    <2>1. f.todo # <<>>
      BY <1>15
    <2>2. call \in Frames /\ g \in Frames /\ stack' = <<call, g>> \o Tail(stack)
      BY <1>5, <1>6, <1>9, <1>15, <2>1 DEF Become
    <2>3. g.kind = "pending" /\ g.pid = p /\ g.todo = Tail(f.todo)
      BY <1>5, <2>1
    <2> HIDE DEF g
    <2>4. Replace(1, 2) /\ stack'[1] = call /\ stack'[2] = g
      BY <1>1, <2>2 DEF Replace, IInv
    <2>5. \A i \in 1 .. 2 : i = 1 \/ i = 2
      OBVIOUS
    <2>6. ASSUME NEW r \in pending'[p] \ blocked[p], Covers(f, p, r)
          PROVE  Covers(stack'[2], p, r) /\ 2 \in 1 .. 2
      <3>1. r # s
        BY <1>2, <1>9, <1>15, <2>6 DEF IInv, TypeOK
      <3>2. PICK k \in DOMAIN f.todo : f.todo[k] = r
        BY <1>1, <2>6 DEF Covers
      <3>3. \E j \in DOMAIN g.todo : g.todo[j] = r
        BY <1>4, <2>1, <2>3, <3>1, <3>2
      <3>4. Covers(g, p, r)
        BY <2>3, <3>3 DEF Covers
      <3> QED
        BY <2>4, <3>4
    <2>7. s \notin blocked[p]
      BY <1>15
    <2> HIDE DEF over
    <2> QED
      BY <1>6, <1>13, <2>1, <2>3, <2>4, <2>5, <2>6, <2>7
  <1>16. CASE ~over /\ ~due
    <2> DEFINE g == rest(FALSE)
    <2>1. f.todo # <<>>
      BY <1>16
    <2>2. g \in Frames /\ g.kind = "pending" /\ g.pid = p /\ g.todo = Tail(f.todo)
      BY <1>5, <2>1
    <2>3. Become(<<g>>) /\ pending' = pending
      BY <1>10, <1>16
    <2> HIDE DEF g
    <2>4. Replace(1, 1) /\ \A i \in 1 .. 1 : stack'[i] = g
      BY <1>1, <2>2, <2>3, Becomes DEF IInv
    <2>5. ASSUME NEW r \in pending'[p] \ blocked[p], Covers(f, p, r)
          PROVE  Covers(stack'[1], p, r) /\ 1 \in 1 .. 1
      <3>1. r # s
        BY <1>16, <2>3, <2>5
      <3>2. PICK k \in DOMAIN f.todo : f.todo[k] = r
        BY <1>1, <2>5 DEF Covers
      <3>3. \E j \in DOMAIN g.todo : g.todo[j] = r
        BY <1>4, <2>1, <2>2, <3>1, <3>2
      <3>4. stack'[1] = g /\ 1 \in 1 .. 1
        BY <2>4
      <3> QED
        BY <2>2, <3>3, <3>4 DEF Covers
    <2> HIDE DEF over, due
    <2> QED
      BY <1>13, <2>2, <2>4, <2>5
  <1> QED
    BY <1>14, <1>15, <1>16

\* The loop over a set of signals looks at each of them.
LEMMA PendingLoopCovers ==
    ASSUME NEW p \in Pids, NEW S \in SUBSET Signals
    PROVE  /\ PendingLoop(p, S) \in Frames
           /\ PendingLoop(p, S).kind = "pending" /\ PendingLoop(p, S).pid = p
           /\ \A s \in S : Covers(PendingLoop(p, S), p, s)
  <1>1. S \in SUBSET Nat /\ IsFiniteSet(S)
    <2>1. S \in SUBSET Nat /\ \A s \in S : s <= 64
      BY ProcessAssumption
    <2> QED
      BY <2>1, FS_BoundedSetOfNaturals
  <1>2. Ascending(S) \in Seq(S) /\ Ascending(S) \in Seq(Signals)
        /\ \A s \in S : \E i \in DOMAIN Ascending(S) : Ascending(S)[i] = s
    <2>1. Ascending(S) \in Seq(S) /\ Len(Ascending(S)) = Cardinality(S)
          /\ \A s \in S : \E i \in 1 .. Cardinality(S) : Ascending(S)[i] = s
      BY <1>1, AscendingLists
    <2> QED
      BY <2>1
  <1> QED
    BY <1>2 DEF PendingLoop, Covers, Frames, PendingFrames

\* A handler starts: it has saved the mask that was in force.
LEMMA DispatchCaughtInv ==
    ASSUME IInv, DispatchCaught
    PROVE  IInv'
  <1> DEFINE p == Head(stack).pid
             s == Head(stack).signal
             f == [kind |-> "handler", pid |-> p, signal |-> s, saved |-> blocked[p],
                   once |-> disp[p][s] = "oneshot", touched |-> FALSE]
  <1>1. stack # <<>> /\ Head(stack).kind = "dispatch"
    BY DEF DispatchCaught, Top
  <1>2. Head(stack) \in Frames /\ Head(stack) = stack[1] /\ 1 \in DOMAIN stack
        /\ p \in Pids /\ status[p] # "none"
    BY <1>1, TopFrame
  <1>3. s \in Signals
    BY <1>1, <1>2, FrameFields
  <1>4. /\ f \in Frames /\ f.kind = "handler" /\ f.pid = p /\ f.signal = s
        /\ f.saved = blocked[p] /\ ~f.touched
    <2>1. blocked[p] \in SUBSET Signals
      BY <1>2 DEF IInv, TypeOK
    <2> HIDE DEF p, s
    <2> QED
      BY <1>2, <1>3, <2>1 DEF Frames, HandlerFrames
  <1>5. /\ blocked' = [blocked EXCEPT ![p] = @ \cup HandlerMask(s)] /\ Become(<<f>>)
        /\ UNCHANGED <<status, ppid, disp, pending, mask, waiters, timers, dispose, threw>>
    BY DEF DispatchCaught
  <1>6. s \notin blocked[p]
    BY <1>1, <1>2 DEF IInv, DispatchFresh
  <1>7. \A i \in 1 .. 1 : i = 1 /\ stack[i] = Head(stack)
    BY <1>2
  <1> HIDE DEF f, p, s
  <1>8. Replace(1, 1) /\ stack'[1] = f /\ \A i \in 1 .. 1 : stack'[i] = f
    <2>1. Replace(1, 1) /\ \A i \in 1 .. 1 : stack'[i] = f
      BY <1>1, <1>4, <1>5, Becomes DEF IInv
    <2> QED
      BY <2>1
  <1>9. blocked' \in [Pids -> SUBSET Signals]
        /\ blocked'[p] = blocked[p] \cup HandlerMask(s) /\ s \in blocked'[p]
        /\ \A q \in Pids : /\ blocked[q] \subseteq blocked'[q]
                           /\ q # p => blocked'[q] = blocked[q]
    BY <1>2, <1>3, <1>5, ProcessAssumption DEF IInv, TypeOK, HandlerMask
  <1>10. TypeOK'
    <2>1. \A i \in DOMAIN stack' : stack'[i].pid \in Pids
      BY <1>8, StackPids DEF Replace
    <2> QED
      BY <1>5, <1>9, <2>1 DEF IInv, TypeOK, timers
  <1>11. GuardedLast' /\ DispatchFresh'
    BY <1>4, <1>8, FrameStep
  <1>12. \A r \in Pids : Live(r)' <=> Live(r)
    BY <1>5 DEF Live
  <1>13. NoLostWaiter'
    BY <1>1, <1>5, <1>7, <1>8, <1>12, QuietWaiters
  <1>14. PendingCovered'
    BY <1>1, <1>5, <1>7, <1>8, <1>9, <1>12, QuietPending
  <1>15. Started'
    <2>1. (\A q \in Pids : status[q] = "none" => pending[q] = {})
          /\ (alarms # {} => SIGALRM \in Signals)
      BY DEF IInv, Started
    <2> QED
      BY <1>2, <1>4, <1>5, <1>8, <1>10, <2>1, StartedStep DEF timers
  <1>16. /\ DOMAIN stack' = DOMAIN stack /\ DOMAIN stack \subseteq Nat \ {0}
         /\ \A i \in DOMAIN stack : i # 1 => stack'[i] = stack[i]
    <2>1. \A i \in DOMAIN stack : i > 1 => stack'[i - 1 + 1] = stack[i]
      BY <1>8, Moved DEF IInv
    <2>2. DOMAIN stack = 1 .. Len(stack) /\ DOMAIN stack' = 1 .. Len(stack')
          /\ Len(stack) \in Nat /\ Len(stack') = Len(stack)
      BY <1>8 DEF Replace, IInv
    <2> QED
      BY <2>1, <2>2
  <1>17. \A i \in DOMAIN stack, q \in Pids :
           /\ i # 1 => (IsHandler(i, q)' <=> IsHandler(i, q))
           /\ ~IsHandler(1, q)
           /\ IsHandler(1, q)' <=> q = p
    BY <1>1, <1>2, <1>4, <1>8, <1>16 DEF IsHandler
  <1>18. MaskSaved'
    <2> SUFFICES ASSUME NEW q \in Pids
                 PROVE  /\ (\A i \in DOMAIN stack' : ~IsHandler(i, q)') => blocked'[q] = mask'[q]
                        /\ \A i \in DOMAIN stack' : Outermost(i, q)' =>
                             stack'[i].saved = mask'[q]
      BY DEF MaskSaved
    <2>1. (\A i \in DOMAIN stack' : ~IsHandler(i, q)') => blocked'[q] = mask'[q]
      BY <1>2, <1>5, <1>9, <1>16, <1>17 DEF IInv, MaskSaved
    <2>2. ASSUME NEW i \in DOMAIN stack', Outermost(i, q)'
          PROVE  stack'[i].saved = mask'[q]
      <3>1. CASE i = 1
        <4>1. \A j \in DOMAIN stack : ~IsHandler(j, q)
          <5> SUFFICES ASSUME NEW j \in DOMAIN stack, IsHandler(j, q) PROVE FALSE
            OBVIOUS
          <5>1. j # 1 /\ IsHandler(j, q)'
            BY <1>17
          <5>2. j <= 1
            BY <1>16, <2>2, <3>1, <5>1 DEF Outermost
          <5> QED
            BY <1>16, <5>1, <5>2
        <4>2. q = p /\ blocked[q] = mask[q]
          BY <1>16, <1>17, <2>2, <3>1, <4>1 DEF IInv, MaskSaved, Outermost
        <4> QED
          BY <1>4, <1>5, <1>8, <3>1, <4>2
      <3>2. CASE i # 1
        <4>1. Outermost(i, q) /\ stack'[i] = stack[i]
          BY <1>16, <1>17, <2>2, <3>2 DEF Outermost
        <4> QED
          BY <1>5, <1>16, <4>1 DEF IInv, MaskSaved
      <3> QED
        BY <3>1, <3>2
    <2> QED
      BY <2>1, <2>2
  <1>19. StaysBlocked'
    <2> SUFFICES ASSUME NEW q \in Pids, NEW j \in DOMAIN stack', IsHandler(j, q)',
                        ~stack'[j].touched
                 PROVE  /\ stack'[j].signal \in blocked'[q]
                        /\ \A i \in DOMAIN stack' : i < j /\ IsHandler(i, q)' =>
                             /\ stack'[j].signal \in stack'[i].saved
                             /\ stack'[j].signal # stack'[i].signal
      BY DEF StaysBlocked
    <2>1. CASE j = 1
      <3>1. q = p
        BY <1>16, <1>17, <2>1
      <3> QED
        BY <1>4, <1>8, <1>9, <1>16, <2>1, <3>1
    <2>2. CASE j # 1
      <3>1. j \in DOMAIN stack /\ IsHandler(j, q) /\ stack'[j] = stack[j] /\ ~stack[j].touched
        BY <1>16, <1>17, <2>2
      <3>2. stack[j].signal \in blocked[q] /\ stack'[j].signal \in blocked'[q]
        BY <1>9, <3>1 DEF IInv, StaysBlocked
      <3>3. ASSUME NEW i \in DOMAIN stack', i < j, IsHandler(i, q)'
            PROVE  stack'[j].signal \in stack'[i].saved /\ stack'[j].signal # stack'[i].signal
        <4>1. CASE i = 1
          <5>1. q = p
            BY <1>16, <1>17, <3>3, <4>1
          <5> QED
            BY <1>4, <1>6, <1>8, <3>1, <3>2, <4>1, <5>1
        <4>2. CASE i # 1
          BY <1>16, <1>17, <3>1, <3>3, <4>2 DEF IInv, StaysBlocked
        <4> QED
          BY <4>1, <4>2
      <3> QED
        BY <3>2, <3>3
    <2> QED
      BY <2>1, <2>2
  <1> QED
    BY <1>8, <1>10, <1>11, <1>13, <1>14, <1>15, <1>18, <1>19 DEF IInv, Replace

\* A handler returns to the mask it found, and a loop over all that is pending.
LEMMA HandlerReturnsInv ==
    ASSUME IInv, HandlerReturns
    PROVE  IInv'
  <1> DEFINE f == Head(stack)
             p == f.pid
             g == PendingLoop(p, pending[p])
  <1>1. stack # <<>> /\ f.kind = "handler"
    BY DEF HandlerReturns, Top
  <1>2. f \in Frames /\ f = stack[1] /\ 1 \in DOMAIN stack /\ p \in Pids /\ status[p] # "none"
    BY <1>1, TopFrame
  <1>3. f.signal \in Signals /\ f.saved \in SUBSET Signals
    BY <1>1, <1>2, FrameFields
  <1>4. /\ g \in Frames /\ g.kind = "pending" /\ g.pid = p
        /\ \A s \in pending[p] : Covers(g, p, s)
    <2>1. pending[p] \in SUBSET Signals
      BY <1>2 DEF IInv, TypeOK
    <2> QED
      BY <1>2, <2>1, PendingLoopCovers
  <1>5. /\ blocked' = [blocked EXCEPT ![p] = f.saved] /\ Become(<<g>>)
        /\ disp' = [disp EXCEPT ![p][f.signal] = IF f.once THEN "default" ELSE @]
        /\ UNCHANGED <<status, ppid, pending, mask, waiters, timers, dispose, threw>>
    BY DEF HandlerReturns, Restored
  <1>6. \A i \in 1 .. 1 : i = 1 /\ stack[i] = f
    BY <1>2
  <1> HIDE DEF f, p, g
  <1>7. Replace(1, 1) /\ stack'[1] = g /\ \A i \in 1 .. 1 : stack'[i] = g
    <2>1. Replace(1, 1) /\ \A i \in 1 .. 1 : stack'[i] = g
      BY <1>1, <1>4, <1>5, Becomes DEF IInv
    <2> QED
      BY <2>1
  <1>8. blocked' \in [Pids -> SUBSET Signals] /\ blocked'[p] = f.saved
        /\ \A q \in Pids : q # p => blocked'[q] = blocked[q]
    BY <1>2, <1>3, <1>5 DEF IInv, TypeOK
  <1>9. TypeOK'
    <2>1. \A i \in DOMAIN stack' : stack'[i].pid \in Pids
      BY <1>7, StackPids DEF Replace
    <2>2. disp' \in [Pids -> [Signals -> Dispositions]]
      BY <1>2, <1>3, <1>5 DEF IInv, TypeOK, Dispositions
    <2> QED
      BY <1>5, <1>8, <2>1, <2>2 DEF IInv, TypeOK, timers
  <1>10. GuardedLast' /\ DispatchFresh'
    BY <1>4, <1>7, FrameStep
  <1>11. \A r \in Pids : Live(r)' <=> Live(r)
    BY <1>5 DEF Live
  <1>12. NoLostWaiter'
    BY <1>1, <1>5, <1>6, <1>7, <1>11, QuietWaiters
  <1>13. Started'
    <2>1. (\A q \in Pids : status[q] = "none" => pending[q] = {})
          /\ (alarms # {} => SIGALRM \in Signals)
      BY DEF IInv, Started
    <2> QED
      BY <1>2, <1>4, <1>5, <1>7, <1>9, <2>1, StartedStep DEF timers
  <1>14. /\ DOMAIN stack' = DOMAIN stack /\ DOMAIN stack \subseteq Nat \ {0}
         /\ \A i \in DOMAIN stack : i # 1 => stack'[i] = stack[i]
    <2>1. \A i \in DOMAIN stack : i > 1 => stack'[i - 1 + 1] = stack[i]
      BY <1>7, Moved DEF IInv
    <2>2. DOMAIN stack = 1 .. Len(stack) /\ DOMAIN stack' = 1 .. Len(stack')
          /\ Len(stack) \in Nat /\ Len(stack') = Len(stack)
      BY <1>7 DEF Replace, IInv
    <2> QED
      BY <2>1, <2>2
  <1>15. \A i \in DOMAIN stack, q \in Pids :
           /\ i # 1 => (IsHandler(i, q)' <=> IsHandler(i, q))
           /\ ~IsHandler(1, q)'
           /\ IsHandler(1, q) <=> q = p
    BY <1>1, <1>2, <1>4, <1>7, <1>14 DEF IsHandler, p
  <1>16. PendingCovered'
    <2> SUFFICES ASSUME ~threw', NEW q \in Pids, Live(q)', NEW r \in pending'[q] \ blocked'[q]
                 PROVE  \E i \in DOMAIN stack' : Covers(stack'[i], q, r)
      BY DEF PendingCovered, Covers
    <2>1. CASE q = p
      BY <1>2, <1>4, <1>5, <1>7, <1>14, <2>1
    <2>2. CASE q # p
      <3>1. PICK i \in DOMAIN stack : Covers(stack[i], q, r)
        BY <1>5, <1>8, <1>11, <2>2 DEF IInv, PendingCovered
      <3>2. i # 1
        BY <1>2, <2>2, <3>1 DEF Covers, p
      <3> QED
        BY <1>14, <3>1, <3>2
    <2> QED
      BY <2>1, <2>2
  <1>17. MaskSaved'
    <2> SUFFICES ASSUME NEW q \in Pids
                 PROVE  /\ (\A i \in DOMAIN stack' : ~IsHandler(i, q)') => blocked'[q] = mask'[q]
                        /\ \A i \in DOMAIN stack' : Outermost(i, q)' =>
                             stack'[i].saved = mask'[q]
      BY DEF MaskSaved
    <2>1. ASSUME \A i \in DOMAIN stack' : ~IsHandler(i, q)'
          PROVE  blocked'[q] = mask'[q]
      <3>1. CASE q = p
        <4>1. Outermost(1, q)
          BY <1>2, <1>14, <1>15, <2>1, <3>1 DEF Outermost
        <4> QED
          BY <1>2, <1>5, <1>8, <3>1, <4>1 DEF IInv, MaskSaved
      <3>2. CASE q # p
        BY <1>5, <1>8, <1>14, <1>15, <2>1, <3>2 DEF IInv, MaskSaved
      <3> QED
        BY <3>1, <3>2
    <2>2. ASSUME NEW i \in DOMAIN stack', Outermost(i, q)'
          PROVE  stack'[i].saved = mask'[q]
      <3>1. i # 1 /\ i \in DOMAIN stack /\ IsHandler(i, q)
        BY <1>14, <1>15, <2>2 DEF Outermost
      <3>2. Outermost(i, q)
        <4> SUFFICES ASSUME NEW j \in DOMAIN stack, IsHandler(j, q) PROVE j <= i
          BY <3>1 DEF Outermost
        <4>1. CASE j = 1
          BY <1>14, <3>1, <4>1
        <4>2. CASE j # 1
          BY <1>14, <1>15, <2>2, <4>2 DEF Outermost
        <4> QED
          BY <4>1, <4>2
      <3> QED
        BY <1>5, <1>14, <3>1, <3>2 DEF IInv, MaskSaved
    <2> QED
      BY <2>1, <2>2
  <1>18. StaysBlocked'
    <2> SUFFICES ASSUME NEW q \in Pids, NEW j \in DOMAIN stack', IsHandler(j, q)',
                        ~stack'[j].touched
                 PROVE  /\ stack'[j].signal \in blocked'[q]
                        /\ \A i \in DOMAIN stack' : i < j /\ IsHandler(i, q)' =>
                             /\ stack'[j].signal \in stack'[i].saved
                             /\ stack'[j].signal # stack'[i].signal
      BY DEF StaysBlocked
    <2>1. j # 1 /\ j \in DOMAIN stack /\ IsHandler(j, q) /\ stack'[j] = stack[j]
          /\ ~stack[j].touched
      BY <1>14, <1>15
    <2>2. stack'[j].signal \in blocked'[q]
      <3>1. CASE q = p
        <4>1. 1 < j
          BY <1>14, <2>1
        <4>2. stack[j].signal \in stack[1].saved
          BY <1>2, <1>15, <2>1, <3>1, <4>1 DEF IInv, StaysBlocked
        <4> QED
          BY <1>2, <1>8, <2>1, <3>1, <4>2
      <3>2. CASE q # p
        BY <1>8, <2>1, <3>2 DEF IInv, StaysBlocked
      <3> QED
        BY <3>1, <3>2
    <2>3. ASSUME NEW i \in DOMAIN stack', i < j, IsHandler(i, q)'
          PROVE  stack'[j].signal \in stack'[i].saved /\ stack'[j].signal # stack'[i].signal
      BY <1>14, <1>15, <2>1, <2>3 DEF IInv, StaysBlocked
    <2> QED
      BY <2>2, <2>3
  <1> QED
    BY <1>7, <1>9, <1>10, <1>12, <1>13, <1>16, <1>17, <1>18 DEF IInv, Replace

\* The process changes its mask: its handlers in progress do not answer for it any
\* more, and a loop looks at all that is pending.
LEMMA SigprocmaskInv ==
    ASSUME IInv, NEW p \in Pids, NEW set \in Masks, Sigprocmask(p, set)
    PROVE  IInv'
  <1> DEFINE g == PendingLoop(p, pending[p])
             base == Touched(p)
  <1>1. /\ (stack = <<>> \/ stack[1].kind # "dispatch") /\ CanCall(p)
        /\ stack' = <<g>> \o base
        /\ blocked' = [blocked EXCEPT ![p] = Filtered(set)]
        /\ mask' = IF InHandler(p) THEN mask ELSE [mask EXCEPT ![p] = Filtered(set)]
        /\ UNCHANGED <<status, ppid, disp, pending, waiters, timers, dispose, threw>>
    BY DEF Sigprocmask, UserCode, Top, Call, DeliverPending, IInv
  <1>2. /\ g \in Frames /\ g.kind = "pending" /\ g.pid = p
        /\ \A s \in pending[p] : Covers(g, p, s)
    <2>1. pending[p] \in SUBSET Signals
      BY DEF IInv, TypeOK
    <2> QED
      BY <2>1, PendingLoopCovers
  <1>3. DOMAIN stack = 1 .. Len(stack) /\ Len(stack) \in Nat
        /\ \A i \in DOMAIN stack : stack[i] \in Frames
    BY DEF IInv
  <1>4. \A i \in DOMAIN stack :
          /\ base[i] \in Frames /\ base[i].kind = stack[i].kind /\ base[i].pid = stack[i].pid
          /\ IsHandler(i, p) =>
               /\ base[i].touched /\ base[i].signal = stack[i].signal
               /\ base[i].saved = stack[i].saved
          /\ ~IsHandler(i, p) => base[i] = stack[i]
    <2> SUFFICES ASSUME NEW i \in DOMAIN stack
                 PROVE  /\ base[i] \in Frames /\ base[i].kind = stack[i].kind
                        /\ base[i].pid = stack[i].pid
                        /\ IsHandler(i, p) =>
                             /\ base[i].touched /\ base[i].signal = stack[i].signal
                             /\ base[i].saved = stack[i].saved
                        /\ ~IsHandler(i, p) => base[i] = stack[i]
      OBVIOUS
    <2>1. CASE IsHandler(i, p)
      <3>1. base[i] = [stack[i] EXCEPT !.touched = TRUE]
        BY <2>1 DEF Touched, IsHandler
      <3>2. stack[i] \in HandlerFrames
        BY <1>3, <2>1 DEF IsHandler, Frames, PlainFrames, NotifyFrames, PendingFrames
      <3> HIDE DEF base
      <3>3. /\ base[i] \in HandlerFrames /\ base[i].kind = stack[i].kind
            /\ base[i].pid = stack[i].pid /\ base[i].touched
            /\ base[i].signal = stack[i].signal /\ base[i].saved = stack[i].saved
        BY <3>1, <3>2 DEF HandlerFrames
      <3> QED
        BY <2>1, <3>3 DEF Frames
    <2>2. CASE ~IsHandler(i, p)
      BY <1>3, <2>2 DEF Touched, IsHandler
    <2> QED
      BY <2>1, <2>2
  <1>5. base \in Seq(Frames) /\ Len(base) = Len(stack)
    <2>1. base = [i \in 1 .. Len(stack) |-> base[i]]
      BY <1>3 DEF Touched
    <2> HIDE DEF base
    <2> QED
      BY <1>3, <1>4, <2>1
  <1> HIDE DEF g, base
  <1>6. /\ stack' \in Seq(Frames) /\ DOMAIN stack' = 1 .. Len(stack) + 1
        /\ stack'[1] = g /\ 1 \in DOMAIN stack'
        /\ \A i \in DOMAIN stack : i + 1 \in DOMAIN stack' /\ stack'[i + 1] = base[i]
        /\ \A i \in DOMAIN stack' : i # 1 => i - 1 \in DOMAIN stack /\ stack'[i] = base[i - 1]
    BY <1>1, <1>2, <1>3, <1>5
  <1>7. /\ \A i \in DOMAIN stack' : i # 1 =>
             stack'[i].kind = stack[i - 1].kind /\ stack'[i].pid = stack[i - 1].pid
        /\ \A i \in DOMAIN stack :
             stack'[i + 1].kind = stack[i].kind /\ stack'[i + 1].pid = stack[i].pid
    BY <1>4, <1>6
  <1>8. Filtered(set) \in SUBSET (Signals \ Uncatchable)
    BY ProcessAssumption DEF Filtered
  <1>9. /\ blocked' \in [Pids -> SUBSET Signals] /\ blocked'[p] = Filtered(set)
        /\ \A q \in Pids : q # p => blocked'[q] = blocked[q]
    BY <1>1, <1>8 DEF IInv, TypeOK
  <1>10. /\ mask' \in [Pids -> SUBSET (Signals \ Uncatchable)]
         /\ \A q \in Pids : q # p => mask'[q] = mask[q]
         /\ InHandler(p) => mask'[p] = mask[p]
         /\ ~InHandler(p) => mask'[p] = Filtered(set)
    BY <1>1, <1>8 DEF IInv, TypeOK
  <1>11. TypeOK'
    <2>1. \A i \in DOMAIN stack' : stack'[i].pid \in Pids
      BY <1>6, StackPids
    <2> QED
      BY <1>1, <1>9, <1>10, <2>1 DEF IInv, TypeOK, timers
  <1>12. Started'
    <2>1. ASSUME NEW i \in DOMAIN stack' PROVE status'[stack'[i].pid] # "none"
      <3>1. CASE i = 1
        BY <1>1, <1>2, <1>6, <3>1 DEF CanCall, Live
      <3>2. CASE i # 1
        <4>1. i - 1 \in DOMAIN stack /\ stack'[i].pid = stack[i - 1].pid
          BY <1>6, <1>7, <3>2
        <4> QED
          BY <1>1, <4>1 DEF IInv, Started
      <3> QED
        BY <3>1, <3>2
    <2> QED
      BY <1>1, <2>1 DEF IInv, Started, timers
  <1>13. GuardedLast'
    <2> SUFFICES ASSUME NEW i \in DOMAIN stack', NEW j \in DOMAIN stack', i < j,
                        stack'[i].kind = "guarded"
                 PROVE  stack'[j].kind = "guarded"
      BY DEF GuardedLast
    <2>1. i # 1 /\ j # 1
      BY <1>2, <1>3, <1>6
    <2>2. i - 1 < j - 1
      BY <1>3, <1>6
    <2>3. /\ i - 1 \in DOMAIN stack /\ j - 1 \in DOMAIN stack
          /\ stack'[i].kind = stack[i - 1].kind /\ stack'[j].kind = stack[j - 1].kind
      BY <1>6, <1>7, <2>1
    <2> QED
      BY <2>2, <2>3 DEF IInv, GuardedLast
  <1>14. DispatchFresh'
    <2> SUFFICES ASSUME NEW i \in DOMAIN stack', stack'[i].kind = "dispatch" PROVE FALSE
      BY DEF DispatchFresh
    <2>1. i # 1
      BY <1>2, <1>6
    <2>2. i - 1 \in DOMAIN stack /\ stack[i - 1].kind = "dispatch"
      BY <1>4, <1>6, <2>1
    <2>3. i - 1 = 1
      BY <2>2 DEF IInv, DispatchFresh
    <2> QED
      BY <1>1, <1>3, <2>2, <2>3
  <1>15. \A q \in Pids :
           /\ \A i \in DOMAIN stack : IsHandler(i, q) => IsHandler(i + 1, q)'
           /\ \A i \in DOMAIN stack' : IsHandler(i, q)' => i # 1 /\ IsHandler(i - 1, q)
    BY <1>2, <1>4, <1>6 DEF IsHandler
  <1>16. MaskSaved'
    <2> SUFFICES ASSUME NEW q \in Pids
                 PROVE  /\ (\A i \in DOMAIN stack' : ~IsHandler(i, q)') => blocked'[q] = mask'[q]
                        /\ \A i \in DOMAIN stack' : Outermost(i, q)' =>
                             stack'[i].saved = mask'[q]
      BY DEF MaskSaved
    <2>1. ASSUME \A i \in DOMAIN stack' : ~IsHandler(i, q)'
          PROVE  blocked'[q] = mask'[q]
      <3>1. \A i \in DOMAIN stack : ~IsHandler(i, q)
        BY <1>6, <1>15, <2>1
      <3>2. q = p => ~InHandler(p)
        BY <3>1 DEF InHandler, IsHandler
      <3> QED
        <4>1. blocked[q] = mask[q]
          BY <3>1 DEF IInv, MaskSaved
        <4>2. CASE q = p
          BY <1>9, <1>10, <3>2, <4>2
        <4>3. CASE q # p
          BY <1>9, <1>10, <4>1, <4>3
        <4> QED
          BY <4>2, <4>3
    <2>2. ASSUME NEW i \in DOMAIN stack', Outermost(i, q)'
          PROVE  stack'[i].saved = mask'[q]
      <3>1. i # 1 /\ i - 1 \in DOMAIN stack /\ IsHandler(i - 1, q) /\ stack'[i] = base[i - 1]
        BY <1>6, <1>15, <2>2 DEF Outermost
      <3>2. Outermost(i - 1, q)
        <4> SUFFICES ASSUME NEW j \in DOMAIN stack, IsHandler(j, q) PROVE j <= i - 1
          BY <3>1 DEF Outermost
        <4>1. j + 1 <= i
          BY <1>6, <1>15, <2>2 DEF Outermost
        <4> QED
          BY <1>3, <1>6, <4>1
      <3>3. stack'[i].saved = stack[i - 1].saved
        BY <1>4, <3>1
      <3>4. q = p => InHandler(p)
        BY <3>1 DEF InHandler, IsHandler
      <3> QED
        <4>1. stack[i - 1].saved = mask[q]
          BY <3>1, <3>2 DEF IInv, MaskSaved
        <4>2. CASE q = p
          BY <1>10, <3>3, <3>4, <4>1, <4>2
        <4>3. CASE q # p
          BY <1>10, <3>3, <4>1, <4>3
        <4> QED
          BY <4>2, <4>3
    <2> QED
      BY <2>1, <2>2
  <1>17. StaysBlocked'
    <2> SUFFICES ASSUME NEW q \in Pids, NEW j \in DOMAIN stack', IsHandler(j, q)',
                        ~stack'[j].touched
                 PROVE  /\ stack'[j].signal \in blocked'[q]
                        /\ \A i \in DOMAIN stack' : i < j /\ IsHandler(i, q)' =>
                             /\ stack'[j].signal \in stack'[i].saved
                             /\ stack'[j].signal # stack'[i].signal
      BY DEF StaysBlocked
    <2>1. j # 1 /\ j - 1 \in DOMAIN stack /\ IsHandler(j - 1, q) /\ stack'[j] = base[j - 1]
      BY <1>6, <1>15
    <2>2. q # p
      BY <1>4, <2>1
    <2>3. \A i \in DOMAIN stack : IsHandler(i, q) => ~IsHandler(i, p) /\ base[i] = stack[i]
      BY <1>4, <2>2 DEF IsHandler
    <2>4. stack'[j] = stack[j - 1] /\ stack'[j].signal \in blocked'[q]
      BY <1>9, <2>1, <2>2, <2>3 DEF IInv, StaysBlocked
    <2>5. ASSUME NEW i \in DOMAIN stack', i < j, IsHandler(i, q)'
          PROVE  stack'[j].signal \in stack'[i].saved /\ stack'[j].signal # stack'[i].signal
      <3>1. i # 1 /\ i - 1 \in DOMAIN stack /\ IsHandler(i - 1, q) /\ stack'[i] = stack[i - 1]
        BY <1>6, <1>15, <2>3, <2>5
      <3>2. i - 1 < j - 1
        BY <1>3, <1>6, <2>5
      <3> QED
        BY <2>1, <2>4, <3>1, <3>2 DEF IInv, StaysBlocked
    <2> QED
      BY <2>4, <2>5
  <1>18. \A r \in Pids : Live(r)' <=> Live(r)
    BY <1>1 DEF Live
  <1>19. PendingCovered'
    <2> SUFFICES ASSUME ~threw', NEW q \in Pids, Live(q)', NEW r \in pending'[q] \ blocked'[q]
                 PROVE  \E i \in DOMAIN stack' : Covers(stack'[i], q, r)
      BY DEF PendingCovered, Covers
    <2>1. CASE q = p
      BY <1>1, <1>2, <1>6, <2>1
    <2>2. CASE q # p
      <3>1. PICK i \in DOMAIN stack : Covers(stack[i], q, r)
        BY <1>1, <1>9, <1>18, <2>2 DEF IInv, PendingCovered
      <3>2. stack'[i + 1] = stack[i]
        BY <1>4, <1>6, <2>2, <3>1 DEF Covers, IsHandler
      <3> QED
        BY <1>6, <3>1, <3>2
    <2> QED
      BY <2>1, <2>2
  <1>20. NoLostWaiter'
    <2> SUFFICES ASSUME ~threw', NEW q \in Pids, waiters'[q] > 0, ~Live(q)'
                 PROVE  \E i \in DOMAIN stack' : stack'[i].kind = "notify" /\ stack'[i].pid = q
      BY DEF NoLostWaiter
    <2>1. PICK i \in DOMAIN stack : stack[i].kind = "notify" /\ stack[i].pid = q
      BY <1>1, <1>18 DEF IInv, NoLostWaiter
    <2>2. i + 1 \in DOMAIN stack' /\ stack'[i + 1].kind = "notify" /\ stack'[i + 1].pid = q
      BY <1>6, <1>7, <2>1
    <2> QED
      BY <2>2
  <1> QED
    BY <1>6, <1>11, <1>12, <1>13, <1>14, <1>16, <1>17, <1>19, <1>20 DEF IInv

\* A handler throws: what is left is the loop of terminateAll, and the masks are those
\* the outermost handlers saved.
LEMMA HandlerThrowsInv ==
    ASSUME IInv, HandlerThrows
    PROVE  IInv'
  <1> DEFINE framesOf(p) == {i \in DOMAIN stack : IsHandler(i, p)}
             outermost(p) == CHOOSE i \in framesOf(p) : \A j \in framesOf(p) : j <= i
  <1>1. /\ blocked' = [p \in Pids |-> IF framesOf(p) = {} THEN blocked[p]
                                        ELSE stack[outermost(p)].saved]
        /\ UNCHANGED <<status, ppid, disp, pending, mask, waiters, timers, dispose>>
        /\ threw' = TRUE
    BY DEF HandlerThrows, IsHandler
  <1>2. PICK k \in 0 .. Len(stack) :
          /\ k < Len(stack) => stack[k + 1].kind = "guarded"
          /\ stack' = SubSeq(stack, k + 1, Len(stack))
    BY DEF HandlerThrows
  <1>3. stack \in Seq(Frames) /\ Len(stack) \in Nat /\ DOMAIN stack = 1 .. Len(stack)
        /\ \A i \in DOMAIN stack : stack[i] \in Frames
    BY DEF IInv
  <1>4. /\ stack' \in Seq(Frames) /\ DOMAIN stack' = 1 .. Len(stack) - k
        /\ \A i \in DOMAIN stack' : k + i \in DOMAIN stack /\ stack'[i] = stack[k + i]
    BY <1>2, <1>3
  <1>5. ASSUME NEW i \in DOMAIN stack' PROVE stack'[i].kind = "guarded"
    <2>1. k + 1 \in DOMAIN stack /\ stack[k + 1].kind = "guarded"
          /\ (k + 1 < k + i \/ i = 1)
      BY <1>2, <1>3, <1>4
    <2> QED
      BY <1>4, <2>1 DEF IInv, GuardedLast
  <1>6. ASSUME NEW p \in Pids PROVE blocked'[p] = mask[p]
    <2>1. CASE framesOf(p) = {}
      <3>1. \A i \in DOMAIN stack : ~IsHandler(i, p)
        BY <2>1
      <3> QED
        BY <1>1, <2>1, <3>1 DEF IInv, MaskSaved
    <2>2. CASE framesOf(p) # {}
      <3> DEFINE above == {Len(stack) - i : i \in framesOf(p)}
      <3>1. above \in SUBSET Nat /\ above # {}
        BY <1>3, <2>2
      <3>2. PICK x \in above : \A y \in above : x <= y
        BY <3>1, LeastNatural
      <3>3. PICK i \in framesOf(p) : x = Len(stack) - i
        OBVIOUS
      <3>4. ASSUME NEW j \in framesOf(p) PROVE j <= i
        <4>1. Len(stack) - i <= Len(stack) - j
          BY <3>2, <3>3
        <4> QED
          BY <1>3, <4>1
      <3> HIDE DEF framesOf
      <3>5. outermost(p) \in framesOf(p) /\ \A j \in framesOf(p) : j <= outermost(p)
        BY <3>4
      <3> HIDE DEF outermost
      <3>6. Outermost(outermost(p), p) /\ outermost(p) \in DOMAIN stack
        BY <3>5 DEF framesOf, Outermost
      <3> QED
        BY <1>1, <2>2, <3>6 DEF IInv, MaskSaved
    <2> QED
      BY <2>1, <2>2
  <1>7. blocked' \in [Pids -> SUBSET Signals]
    <2>1. mask \in [Pids -> SUBSET Signals] /\ DOMAIN blocked' = Pids
      BY <1>1 DEF IInv, TypeOK
    <2>2. blocked' = [p \in Pids |-> blocked'[p]]
      BY <1>1
    <2> QED
      BY <1>6, <2>1, <2>2
  <1> HIDE DEF framesOf, outermost
  <1>8. TypeOK'
    <2>1. \A i \in DOMAIN stack' : stack'[i].pid \in Pids
      BY <1>4, StackPids
    <2> QED
      BY <1>1, <1>7, <2>1 DEF IInv, TypeOK, timers
  <1>9. Started'
    BY <1>1, <1>4 DEF IInv, Started, timers
  <1>10. GuardedLast' /\ DispatchFresh'
    BY <1>5 DEF GuardedLast, DispatchFresh
  <1>11. MaskSaved' /\ StaysBlocked'
    <2>1. \A p : \A i \in DOMAIN stack' : ~IsHandler(i, p)'
      BY <1>5 DEF IsHandler
    <2> QED
      BY <1>1, <1>6, <2>1 DEF MaskSaved, StaysBlocked, Outermost
  <1>12. PendingCovered' /\ NoLostWaiter'
    BY <1>1 DEF PendingCovered, NoLostWaiter
  <1> QED
    BY <1>4, <1>8, <1>9, <1>10, <1>11, <1>12 DEF IInv

----------------------------------------------------------------------------
(* The theorems *)

LEMMA InitInv == Init => IInv
  <1> SUFFICES ASSUME Init PROVE IInv
    OBVIOUS
  <1>1. TypeOK
    <2> USE DEF Init
    <2>1. \A i \in DOMAIN stack : stack[i].pid \in Pids
      OBVIOUS
    <2>2. waiters \in [Pids -> 0 .. MaxWaiters]
      BY ProcessAssumption
    <2>3. disp \in [Pids -> [Signals -> Dispositions]]
      BY DEF Dispositions
    <2> QED
      BY <2>1, <2>2, <2>3 DEF TypeOK
  <1>2. stack \in Seq(Frames) /\ DOMAIN stack = {}
    BY DEF Init
  <1>3. Started /\ GuardedLast /\ DispatchFresh /\ MaskSaved /\ StaysBlocked
    BY <1>2 DEF Init, Started, GuardedLast, DispatchFresh, MaskSaved, StaysBlocked, IsHandler,
                Outermost
  <1>4. PendingCovered /\ NoLostWaiter
    BY DEF Init, PendingCovered, NoLostWaiter
  <1> QED
    BY <1>1, <1>2, <1>3, <1>4 DEF IInv

LEMMA NextInv == IInv /\ [Next]_vars => IInv'
  <1> SUFFICES ASSUME IInv, [Next]_vars PROVE IInv'
    OBVIOUS
  <1>1. CASE Running
    BY <1>1, DeliverInv, DispatchInv, DispatchCaughtInv, HandlerReturnsInv, HandlerThrowsInv,
       PendingRoundInv, DriverKillInv, NotifyInv DEF Running
  <1>2. CASE TerminateAll \/ Escalate \/ Disposed
    BY <1>2, TerminateAllInv, DisposedInv
  <1>3. ASSUME NEW p \in Pids,
               DriverExit(p) \/ Waitpid(p) \/ AlarmFires(p) \/ ZombieTimer(p)
        PROVE  IInv'
    BY <1>3, DriverExitInv, WaitpidInv, AlarmFiresInv, ZombieTimerInv
  <1>4. ASSUME NEW p \in Pids, NEW parent \in Pids \cup {0}, Register(p, parent)
        PROVE  IInv'
    BY <1>4, RegisterInv
  <1>5. ASSUME NEW p \in Pids, NEW s \in Signals, Kill(p, s) PROVE IInv'
    BY <1>5, KillInv
  <1>6. ASSUME NEW p \in Pids, NEW s \in Handled, NEW d \in Dispositions, Sigaction(p, s, d)
        PROVE  IInv'
    BY <1>6, SigactionInv
  <1>7. ASSUME NEW p \in Pids, NEW set \in Masks, Sigprocmask(p, set) PROVE IInv'
    BY <1>7, SigprocmaskInv
  <1>8. ASSUME NEW p \in Pids, NEW on \in BOOLEAN, Alarm(p, on) PROVE IInv'
    BY <1>8, AlarmInv
  <1>9. CASE UNCHANGED vars
    BY <1>9 DEF vars, IInv, TypeOK, Started, GuardedLast, DispatchFresh, MaskSaved,
                StaysBlocked, IsHandler, Outermost, PendingCovered, NoLostWaiter, Live, Covers
  <1> QED
    BY <1>1, <1>2, <1>3, <1>4, <1>5, <1>6, <1>7, <1>8, <1>9 DEF Next

LEMMA AlwaysIInv == Spec => []IInv
  BY InitInv, NextInv, PTL DEF Spec

\* Whatever is signalled, caught, blocked and killed, in whatever nesting, each
\* variable of the process table keeps its type; above all no SIGKILL or SIGSTOP is
\* ever left pending (deliverSignal), or blocked by sigprocmask.
THEOREM ProcessTypes == Spec => []TypeOK
  BY AlwaysIInv, PTL DEF IInv

\* When the calls in progress are done, the blocked mask of every process is the one it
\* last asked for: the `finally' blocks of dispatchSignal restore it however deep the
\* handlers nest, and even when one of them throws.
THEOREM MasksRestored == Spec => []MaskRestored
  <1>1. IInv => MaskRestored
    <2> SUFFICES ASSUME IInv, stack = <<>> PROVE blocked = mask
      BY DEF MaskRestored
    <2>1. \A p \in Pids : blocked[p] = mask[p]
      BY DEF IInv, MaskSaved, IsHandler
    <2> QED
      BY <2>1 DEF IInv, TypeOK
  <1> QED
    BY <1>1, AlwaysIInv, PTL

\* dispatchSignal never enters a handler again for the signal it is running for, unless
\* the process has changed its mask meanwhile.
THEOREM HandlersNotReentered == Spec => []NoHandlerReentry
  <1>1. IInv => NoHandlerReentry
    <2> SUFFICES ASSUME IInv, NEW i \in DOMAIN stack, NEW j \in DOMAIN stack, i < j,
                        stack[i].kind = "handler", stack[j].kind = "handler",
                        stack[i].pid = stack[j].pid, stack[i].signal = stack[j].signal,
                        ~stack[j].touched
                 PROVE  FALSE
      BY DEF NoHandlerReentry
    <2>1. stack[j].pid \in Pids
      BY DEF IInv, TypeOK
    <2> QED
      BY <2>1 DEF IInv, StaysBlocked, IsHandler
  <1> QED
    BY <1>1, AlwaysIInv, PTL

\* As long as no handler throws, no live process is left with a signal it could be
\* given: deliverPendingSignals, entered again from the handlers it calls, gets to all.
THEOREM PendingDelivered == Spec => []NoStuckPending
  <1>1. IInv => NoStuckPending
    BY DEF IInv, NoStuckPending, PendingCovered
  <1> QED
    BY <1>1, AlwaysIInv, PTL

\* As long as no handler throws out of markExited, nobody waits for a process that is
\* gone: the wait queue of a process that exits is always still to be notified.
THEOREM WaitersToldOfExit == Spec => []NoLostWaiter
  BY AlwaysIInv, PTL DEF IInv
=============================================================================
