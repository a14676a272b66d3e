--------------------------- MODULE FileLockProofs ---------------------------
(***************************************************************************)
(* Proofs about FileLock, for any number of callers and descriptions:      *)
(* locks exclude each other until a clean-up drops the entry of another    *)
(* object, and nothing else can break exclusion.                           *)
(***************************************************************************)
EXTENDS FileLock, SequenceTheorems, TLAPS

\* The wait queue as WaitQueue uses it: enqueue() adds a new handle at the tail,
\* wakeOne() takes the head out, and a handle is never on the queue twice.
LEMMA QueueAppend ==
    ASSUME NEW S, NEW q \in Seq(S), NEW x \in S, IsInjective(q), x \notin Range(q)
    PROVE  /\ Append(q, x) \in Seq(S)
           /\ IsInjective(Append(q, x))
           /\ Range(Append(q, x)) = Range(q) \cup {x}
  <1>1. /\ Append(q, x) \in Seq(S) /\ Len(Append(q, x)) = Len(q) + 1
        /\ \A i \in 1 .. Len(q) : Append(q, x)[i] = q[i]
        /\ Append(q, x)[Len(q) + 1] = x
    BY AppendProperties
  <1>2. /\ Len(q) \in Nat /\ DOMAIN q = 1 .. Len(q)
        /\ DOMAIN Append(q, x) = 1 .. (Len(q) + 1)
    BY <1>1, LenProperties
  <1>3. \A i \in 1 .. Len(q) : q[i] # x
    BY <1>2 DEF Range
  <1>4. IsInjective(Append(q, x))
    BY <1>1, <1>2, <1>3 DEF IsInjective
  <1>5. Range(Append(q, x)) = Range(q) \cup {x}
    BY <1>1, <1>2 DEF Range
  <1> QED
    BY <1>1, <1>4, <1>5

\* Taking the head off a queue without duplicates leaves the other waiters on it,
\* each once.
LEMMA QueueTail ==
    ASSUME NEW S, NEW q \in Seq(S), q # <<>>, IsInjective(q)
    PROVE  /\ Tail(q) \in Seq(S) /\ Head(q) \in S
           /\ IsInjective(Tail(q))
           /\ Head(q) \in Range(q)
           /\ Range(Tail(q)) = Range(q) \ {Head(q)}
  <1>1. /\ Head(q) \in S /\ Tail(q) \in Seq(S) /\ Len(Tail(q)) = Len(q) - 1
        /\ \A i \in 1 .. Len(Tail(q)) : Tail(q)[i] = q[i + 1]
    BY HeadTailProperties
  <1>2. /\ Len(q) \in Nat \ {0} /\ DOMAIN q = 1 .. Len(q)
        /\ DOMAIN Tail(q) = 1 .. (Len(q) - 1)
    BY <1>1, LenProperties, EmptySeq
  <1>3. Head(q) = q[1]
    OBVIOUS
  <1>4. IsInjective(Tail(q))
    BY <1>1, <1>2 DEF IsInjective
  <1>5. \A y : y \in Range(q) => y = q[1] \/ y \in Range(Tail(q))
    <2> SUFFICES ASSUME NEW i \in 1 .. Len(q)
                 PROVE  q[i] = q[1] \/ q[i] \in Range(Tail(q))
      BY <1>2 DEF Range
    <2>1. CASE i = 1
      BY <2>1
    <2>2. CASE i # 1
      <3>1. i - 1 \in 1 .. (Len(q) - 1) /\ Tail(q)[i - 1] = q[i]
        BY <1>1, <1>2, <2>2
      <3> QED
        BY <1>2, <3>1 DEF Range
    <2> QED
      BY <2>1, <2>2
  <1>6. \A y : y \in Range(Tail(q)) => y \in Range(q) /\ y # q[1]
    BY <1>1, <1>2 DEF Range, IsInjective
  <1>7. q[1] \in Range(q)
    BY <1>2 DEF Range
  <1> QED
    BY <1>1, <1>3, <1>4, <1>5, <1>6, <1>7

\* The holders that the next acquisition consults when the map entry is cur.
Consulted(cur) == IF cur = None THEN Unheld ELSE holders[cur]

\* The inductive invariant.  Exclusion between grants follows from exclusion
\* within the object in use only because the grants are that object's holders;
\* that the next unlock finds every waiter needs the queues to hold exactly the
\* suspended callers.
IInv == TypeOK /\ ObjectExclusion /\ GrantsTrue /\ QueuesConsistent /\ NoLostWakeup

\* One turn of flock()'s loop keeps the invariant, if the entry it consults has
\* the granted locks and the blocked callers, or some entry has been orphaned.
LEMMA AttemptInv ==
    ASSUME IInv, NEW c \in Callers, NEW d \in Descs, NEW type \in LockTypes,
           NEW nb \in BOOLEAN, NEW cur \in Objects \cup {None},
           NEW orph \in BOOLEAN, pc[c] # "waiting",
           ~orphaned /\ ~orph =>
             /\ granted = Consulted(cur)
             /\ \A x \in Callers : pc[x] = "waiting" => at[x] = cur /\ cur # None,
           Attempt(c, d, type, nb, cur, orph), UNCHANGED open
    PROVE  IInv'
  <1> USE DEF IInv
  <1> DEFINE hold == Consulted(cur)
             busy == Conflict(hold, d, type)
  <1>1. PICK o \in Candidates(c, cur) :
          /\ current' = o
          /\ orphaned' = (orphaned \/ orph)
          /\ \/ /\ ~busy
                /\ holders' = [holders EXCEPT ![o] = [hold EXCEPT ![d] = type]]
                /\ descToPath' = descToPath \cup {d}
                /\ granted' = [granted EXCEPT ![d] = type]
                /\ pc' = [pc EXCEPT ![c] = "idle"]
                /\ at' = [at EXCEPT ![c] = None]
                /\ call' = [call EXCEPT ![c] = None]
                /\ UNCHANGED waiters
             \/ /\ busy /\ nb
                /\ UNCHANGED <<holders, waiters, descToPath, granted, pc, at, call>>
             \/ /\ busy /\ ~nb
                /\ waiters' = [waiters EXCEPT ![o] = Append(@, c)]
                /\ pc' = [pc EXCEPT ![c] = "waiting"]
                /\ at' = [at EXCEPT ![c] = o]
                /\ call' = [call EXCEPT ![c] = [desc |-> d, type |-> type]]
                /\ UNCHANGED <<holders, descToPath, granted>>
    BY DEF Attempt, Consulted
  <1>2. o \in Objects /\ o # None /\ (cur # None => o = cur)
    BY FileLockAssumption DEF Candidates
  <1>3. orphaned' \in BOOLEAN /\ (~orphaned' => ~orphaned /\ ~orph)
    BY <1>1, Zenon DEF TypeOK
  <1>4. hold \in [Descs -> LockTypes \cup {"none"}]
    BY DEF Consulted, Unheld, TypeOK
  <1>5. \A e, f \in Descs : e # f /\ hold[e] = "ex" => hold[f] = "none"
    BY <1>2 DEF Consulted, Unheld, ObjectExclusion
  <1>6. CASE ~busy
    <2> DEFINE new == [hold EXCEPT ![d] = type]
    <2>1. /\ holders' = [holders EXCEPT ![o] = new]
          /\ descToPath' = descToPath \cup {d}
          /\ granted' = [granted EXCEPT ![d] = type]
          /\ pc' = [pc EXCEPT ![c] = "idle"]
          /\ at' = [at EXCEPT ![c] = None]
          /\ call' = [call EXCEPT ![c] = None]
          /\ waiters' = waiters
      BY <1>1, <1>6
    <2>2. new \in [Descs -> LockTypes \cup {"none"}]
      BY <1>4
    <2>3. \A e \in Descs : new[e] = IF e = d THEN type ELSE hold[e]
      BY <1>4
    <2>t. type = "sh" \/ type = "ex"
      BY DEF LockTypes
    <2>4. \A e, f \in Descs : e # f /\ new[e] = "ex" => new[f] = "none"
      <3>1. \A g \in Descs \ {d} :
              hold[g] # "ex" /\ (type = "ex" => hold[g] = "none")
        BY <1>6 DEF Conflict, LockTypes
      <3> HIDE DEF hold, new
      <3> SUFFICES ASSUME NEW e \in Descs, NEW f \in Descs, e # f, new[e] = "ex"
                   PROVE  new[f] = "none"
        OBVIOUS
      <3>2. CASE e = d
        BY <2>3, <3>1, <3>2
      <3>3. CASE e # d
        <4>1. hold[e] = "ex"
          BY <2>3, <3>3
        <4> QED
          BY <2>t, <3>1, <3>3, <4>1
      <3> QED
        BY <3>2, <3>3
    <2> HIDE DEF new, hold
    <2>5. holders' \in [Objects -> [Descs -> LockTypes \cup {"none"}]]
          /\ holders'[o] = new /\ \A q \in Objects \ {o} : holders'[q] = holders[q]
      BY <2>1, <2>2, <1>2 DEF TypeOK
    <2>6. ObjectExclusion'
      BY <2>4, <2>5 DEF ObjectExclusion
    <2>7. /\ granted' \in [Descs -> LockTypes \cup {"none"}]
          /\ \A e \in Descs : granted'[e] = IF e = d THEN type ELSE granted[e]
      BY <2>1 DEF TypeOK
    <2>8. TypeOK'
      <3>1. /\ current' \in Objects \cup {None}
            /\ descToPath' \subseteq Descs /\ open' \subseteq Descs
            /\ waiters' \in [Objects -> Seq(Callers)]
        BY <1>1, <1>2, <2>1 DEF TypeOK
      <3>2. /\ pc' \in [Callers -> {"idle", "waiting", "woken"}]
            /\ call' \in [Callers -> Calls \cup {None}]
            /\ at' \in [Callers -> Objects \cup {None}]
        BY <2>1 DEF TypeOK
      <3>3. \A x \in Callers : pc'[x] # "idle" => call'[x] # None /\ at'[x] # None
        BY <2>1 DEF TypeOK
      <3> QED
        BY <1>3, <2>5, <2>7, <3>1, <3>2, <3>3 DEF TypeOK
    <2>9. GrantsTrue'
      <3> SUFFICES ASSUME ~orphaned'
                   PROVE  /\ descToPath' = {e \in Descs : granted'[e] # "none"}
                          /\ current' # None /\ granted' = holders'[current']
        BY <1>1, <1>2 DEF GrantsTrue
      <3>1. /\ descToPath = {e \in Descs : granted[e] # "none"}
            /\ granted = hold
        BY <1>3 DEF GrantsTrue, hold
      <3>2. descToPath' = {e \in Descs : granted'[e] # "none"}
        BY <2>1, <2>7, <3>1 DEF LockTypes
      <3>3. granted' = new
        BY <2>1, <3>1 DEF new
      <3> QED
        BY <1>1, <1>2, <2>5, <3>2, <3>3
    <2>10. QueuesConsistent'
      BY <2>1 DEF QueuesConsistent, TypeOK
    <2>11. NoLostWakeup'
      <3>1. new # Unheld
        BY <2>3, <2>t DEF Unheld
      <3> SUFFICES ASSUME ~orphaned', NEW x \in Callers, pc'[x] = "waiting"
                   PROVE  /\ at'[x] = current' /\ current' # None
                          /\ holders'[current'] # Unheld
        BY DEF NoLostWakeup
      <3>2. x # c /\ pc[x] = "waiting" /\ at'[x] = at[x]
        BY <2>1 DEF TypeOK
      <3> QED
        BY <1>1, <1>2, <1>3, <2>5, <3>1, <3>2
    <2> QED
      BY <2>6, <2>8, <2>9, <2>10, <2>11
  <1>7. CASE busy
    <2>1. cur # None
      BY <1>7 DEF Conflict, Consulted, Unheld
    <2>2. /\ holders' = holders /\ descToPath' = descToPath /\ granted' = granted
          /\ current' = cur
      BY <1>1, <1>2, <1>7, <2>1
    <2>3. /\ waiters' \in [Objects -> Seq(Callers)]
          /\ pc' \in [Callers -> {"idle", "waiting", "woken"}]
          /\ at' \in [Callers -> Objects \cup {None}]
          /\ call' \in [Callers -> Calls \cup {None}]
          /\ \A x \in Callers : pc'[x] # "idle" => call'[x] # None /\ at'[x] # None
      <3>1. CASE UNCHANGED <<waiters, pc, at, call>>
        BY <3>1 DEF TypeOK
      <3>2. CASE /\ waiters' = [waiters EXCEPT ![o] = Append(@, c)]
                 /\ pc' = [pc EXCEPT ![c] = "waiting"]
                 /\ at' = [at EXCEPT ![c] = o]
                 /\ call' = [call EXCEPT ![c] = [desc |-> d, type |-> type]]
        <4>1. waiters' \in [Objects -> Seq(Callers)]
          BY <1>2, <3>2, AppendProperties DEF TypeOK
        <4>2. /\ pc' \in [Callers -> {"idle", "waiting", "woken"}]
              /\ at' \in [Callers -> Objects \cup {None}]
              /\ call' \in [Callers -> Calls \cup {None}]
          BY <1>2, <3>2 DEF TypeOK, Calls
        <4>3. [desc |-> d, type |-> type] # None
          BY FileLockAssumption DEF Calls
        <4>4. \A x \in Callers : pc'[x] # "idle" => call'[x] # None /\ at'[x] # None
          BY <1>2, <3>2, <4>3 DEF TypeOK
        <4> QED
          BY <4>1, <4>2, <4>4
      <3> QED
        BY <1>1, <1>7, <3>1, <3>2
    <2>4. TypeOK'
      BY <1>3, <2>2, <2>3 DEF TypeOK
    <2>5. ObjectExclusion'
      BY <2>2 DEF ObjectExclusion
    <2>6. GrantsTrue'
      BY <1>3, <2>1, <2>2 DEF GrantsTrue, Consulted
    <2>7. QueuesConsistent'
      <3>1. CASE UNCHANGED <<waiters, pc, at, call>>
        BY <3>1 DEF QueuesConsistent
      <3>2. CASE /\ waiters' = [waiters EXCEPT ![o] = Append(@, c)]
                 /\ pc' = [pc EXCEPT ![c] = "waiting"]
                 /\ at' = [at EXCEPT ![c] = o]
        <4>1. waiters[o] \in Seq(Callers) /\ IsInjective(waiters[o])
              /\ c \notin Range(waiters[o])
          BY <1>2 DEF TypeOK, QueuesConsistent
        <4>2. /\ IsInjective(Append(waiters[o], c))
              /\ Range(Append(waiters[o], c)) = Range(waiters[o]) \cup {c}
          BY <4>1, QueueAppend
        <4>3. /\ waiters'[o] = Append(waiters[o], c)
              /\ \A q \in Objects \ {o} : waiters'[q] = waiters[q]
          BY <1>2, <3>2 DEF TypeOK
        <4>4. /\ pc'[c] = "waiting" /\ at'[c] = o
              /\ \A x \in Callers \ {c} : pc'[x] = pc[x] /\ at'[x] = at[x]
          BY <3>2 DEF TypeOK
        <4>5. ASSUME NEW q \in Objects
              PROVE  /\ IsInjective(waiters'[q])
                     /\ \A x \in Callers :
                          x \in Range(waiters'[q]) <=> pc'[x] = "waiting" /\ at'[x] = q
          <5>1. CASE q = o
            <6>1. \A x \in Callers :
                    x \in Range(waiters[o]) <=> pc[x] = "waiting" /\ at[x] = o
              BY <1>2 DEF QueuesConsistent
            <6>2. \A x \in Callers :
                    x \in Range(waiters'[o]) <=> pc'[x] = "waiting" /\ at'[x] = o
              BY <4>2, <4>3, <4>4, <6>1
            <6> QED
              BY <4>2, <4>3, <5>1, <6>2
          <5>2. CASE q # o
            BY <4>3, <4>4, <5>2 DEF QueuesConsistent
          <5> QED
            BY <5>1, <5>2
        <4> QED
          BY <4>5 DEF QueuesConsistent
      <3> QED
        BY <1>1, <1>7, <3>1, <3>2
    <2>8. NoLostWakeup'
      <3>1. holders[cur] # Unheld
        BY <1>7, <2>1 DEF Conflict, Consulted, Unheld
      <3> SUFFICES ASSUME ~orphaned', NEW x \in Callers, pc'[x] = "waiting"
                   PROVE  at'[x] = current' /\ current' # None
                          /\ holders'[current'] # Unheld
        BY DEF NoLostWakeup
      <3>2. CASE x = c /\ pc' # pc
        BY <1>1, <1>2, <1>7, <2>1, <2>2, <3>1, <3>2 DEF TypeOK
      <3>3. CASE x # c \/ pc' = pc
        <4>1. pc[x] = "waiting" /\ at'[x] = at[x]
          BY <1>1, <1>7, <3>3 DEF TypeOK
        <4> QED
          BY <1>3, <2>1, <2>2, <3>1, <4>1
      <3> QED
        BY <3>2, <3>3
    <2> QED
      BY <2>4, <2>5, <2>6, <2>7, <2>8
  <1> QED
    BY <1>6, <1>7

\* unlock() keeps the invariant: what a description was told of and what the
\* entry in use records are dropped together.
LEMMA UnlockInv ==
    ASSUME IInv, NEW d \in Descs, UNCHANGED <<call, at, orphaned>>,
           open' \subseteq Descs,
           granted' = [granted EXCEPT ![d] = "none"],
           \/ Unlock(d)
           \/ d \notin descToPath
              /\ UNCHANGED <<current, holders, waiters, descToPath, pc>>
    PROVE  IInv'
  <1> USE DEF IInv
  <1>0. /\ granted' \in [Descs -> LockTypes \cup {"none"}]
        /\ \A e \in Descs : granted'[e] = IF e = d THEN "none" ELSE granted[e]
    BY DEF TypeOK
  <1>1. CASE UNCHANGED <<current, holders, waiters, descToPath, pc>>
             /\ (current = None \/ d \notin descToPath)
    <2>1. TypeOK'
      BY <1>0, <1>1 DEF TypeOK
    <2>2. ObjectExclusion'
      BY <1>1 DEF ObjectExclusion
    <2>4. QueuesConsistent' /\ NoLostWakeup'
      BY <1>1 DEF QueuesConsistent, NoLostWakeup
    <2>3. GrantsTrue'
      <3>1. ~orphaned => granted[d] = "none"
        BY <1>1 DEF GrantsTrue, Unheld
      <3>2. ~orphaned => granted' = granted
        BY <3>1 DEF TypeOK
      <3> QED
        BY <1>1, <3>2 DEF GrantsTrue
    <2> QED
      BY <2>1, <2>2, <2>3, <2>4
  <1>2. CASE current # None /\ Unlock(d)
    <2> DEFINE held == holders[current][d] # "none"
               hold == [holders[current] EXCEPT ![d] = "none"]
               q == waiters[current]
               n == Woken(held, q)
               queue == Unsettled(q, n)
    <2>1. /\ holders' = [holders EXCEPT ![current] = hold]
          /\ descToPath' = IF held THEN descToPath \ {d} ELSE descToPath
          /\ waiters' = [waiters EXCEPT ![current] = queue]
          /\ pc' = IF n = 0 THEN pc ELSE [pc EXCEPT ![Head(q)] = "woken"]
          /\ current' = IF Disused(hold, queue) THEN None ELSE current
      BY <1>2 DEF Unlock
    <2>2. /\ current \in Objects /\ q \in Seq(Callers) /\ IsInjective(q)
          /\ holders[current] \in [Descs -> LockTypes \cup {"none"}]
      BY <1>2 DEF TypeOK, QueuesConsistent
    <2>3. n \in {0, 1} /\ (n = 1 => q # <<>>) /\ (n = 0 => q = <<>> \/ ~held)
      BY DEF Woken
    <2>4. /\ queue \in Seq(Callers) /\ IsInjective(queue)
          /\ n = 0 => queue = q
          /\ n = 1 => /\ Head(q) \in Callers /\ Head(q) \in Range(q)
                      /\ Range(queue) = Range(q) \ {Head(q)}
      <3> HIDE DEF q, n
      <3> QED
        BY <2>2, <2>3, QueueTail DEF Unsettled
    <2>5. hold \in [Descs -> LockTypes \cup {"none"}]
          /\ \A e \in Descs : hold[e] = IF e = d THEN "none" ELSE holders[current][e]
      BY <2>2
    <2>q. \A x \in Callers : x \in Range(q) <=> pc[x] = "waiting" /\ at[x] = current
      BY <2>2 DEF QueuesConsistent
    <2> HIDE DEF hold, queue, n, q
    <2>6. /\ holders' \in [Objects -> [Descs -> LockTypes \cup {"none"}]]
          /\ holders'[current] = hold
          /\ \A o \in Objects \ {current} : holders'[o] = holders[o]
      BY <2>1, <2>2, <2>5 DEF TypeOK
    <2>7. ObjectExclusion'
      <3> SUFFICES ASSUME NEW o \in Objects, NEW e \in Descs, NEW f \in Descs,
                          e # f, holders'[o][e] = "ex"
                   PROVE  holders'[o][f] = "none"
        BY DEF ObjectExclusion
      <3>1. CASE o # current
        BY <2>6, <3>1 DEF ObjectExclusion
      <3>2. CASE o = current
        <4>1. hold[e] = "ex" /\ e # d
          BY <2>5, <2>6, <3>2
        <4>2. holders[current][e] = "ex" /\ holders[current][f] = "none"
          BY <2>2, <2>5, <4>1 DEF ObjectExclusion
        <4> QED
          BY <2>5, <2>6, <3>2, <4>2
      <3> QED
        BY <3>1, <3>2
    <2>8. /\ pc' \in [Callers -> {"idle", "waiting", "woken"}]
          /\ \A x \in Callers : pc'[x] # "idle" => pc[x] # "idle"
          /\ \A x \in Callers :
               pc'[x] = IF n = 1 /\ x = Head(q) THEN "woken" ELSE pc[x]
      BY <2>1, <2>3, <2>4, <2>q DEF TypeOK
    <2>9. TypeOK'
      <3>1. current' \in Objects \cup {None} /\ descToPath' \subseteq Descs
        BY <2>1, <2>2 DEF TypeOK
      <3>2. waiters' \in [Objects -> Seq(Callers)]
        BY <2>1, <2>2, <2>4 DEF TypeOK
      <3>3. /\ call' \in [Callers -> Calls \cup {None}]
            /\ at' \in [Callers -> Objects \cup {None}] /\ orphaned' \in BOOLEAN
            /\ \A x \in Callers : pc'[x] # "idle" => call'[x] # None /\ at'[x] # None
        BY <2>8 DEF TypeOK
      <3> QED
        BY <1>0, <2>6, <2>8, <3>1, <3>2, <3>3 DEF TypeOK
    <2>10. QueuesConsistent'
      <3>1. /\ waiters'[current] = queue
            /\ \A o \in Objects \ {current} : waiters'[o] = waiters[o]
        BY <2>1, <2>2 DEF TypeOK
      <3>2. \A x \in Callers : x \in Range(queue) <=> pc'[x] = "waiting" /\ at[x] = current
        BY <2>3, <2>4, <2>8, <2>q
      <3>3. \A o \in Objects \ {current} : \A x \in Callers :
              x \in Range(waiters[o]) <=> pc'[x] = "waiting" /\ at[x] = o
        BY <2>4, <2>8, <2>q DEF QueuesConsistent
      <3>4. \A o \in Objects : IsInjective(waiters'[o])
        BY <2>4, <3>1 DEF QueuesConsistent
      <3> QED
        BY <2>2, <3>1, <3>2, <3>3, <3>4 DEF QueuesConsistent
    <2>11. GrantsTrue'
      <3> SUFFICES ASSUME ~orphaned
                   PROVE  /\ descToPath' = {e \in Descs : granted'[e] # "none"}
                          /\ granted' = IF current' = None THEN Unheld
                                        ELSE holders'[current']
        BY DEF GrantsTrue
      <3>1. /\ descToPath = {e \in Descs : granted[e] # "none"}
            /\ granted = holders[current]
        BY <1>2 DEF GrantsTrue
      <3>2. granted' = hold
        BY <3>1 DEF hold
      <3>3. descToPath' = {e \in Descs : granted'[e] # "none"}
        BY <1>0, <2>1, <3>1
      <3>4. CASE Disused(hold, queue)
        BY <2>1, <3>2, <3>3, <3>4 DEF Disused
      <3>5. CASE ~Disused(hold, queue)
        BY <1>2, <2>1, <2>6, <3>2, <3>3, <3>5
      <3> QED
        BY <3>4, <3>5
    <2>12. NoLostWakeup'
      <3> SUFFICES ASSUME ~orphaned, NEW x \in Callers, pc'[x] = "waiting"
                   PROVE  /\ at[x] = current' /\ current' # None
                          /\ \/ holders'[current'] # Unheld
                             \/ \E y \in Callers : pc'[y] = "woken" /\ at[y] = current'
        BY DEF NoLostWakeup
      <3>1. pc[x] = "waiting" /\ at[x] = current
        BY <2>8 DEF NoLostWakeup
      <3>2. x \in Range(queue)
        BY <2>3, <2>4, <2>8, <2>q, <3>1
      <3>3. queue # <<>>
        BY <3>2 DEF Range
      <3>4. current' = current
        BY <2>1, <3>3 DEF Disused
      <3>5. CASE n = 1
        <4>1. pc'[Head(q)] = "woken" /\ at[Head(q)] = current /\ Head(q) \in Callers
          BY <2>4, <2>8, <2>q, <3>5
        <4> QED
          BY <1>2, <3>1, <3>4, <4>1
      <3>6. CASE n = 0
        <4>1. ~held
          BY <2>3, <2>4, <3>3, <3>6
        <4>2. hold = holders[current]
          BY <2>2, <4>1 DEF hold
        <4>3. pc' = pc
          BY <2>1, <3>6
        <4> QED
          BY <1>2, <2>6, <3>1, <3>4, <4>2, <4>3 DEF NoLostWakeup
      <3> QED
        BY <2>3, <3>5, <3>6
    <2> QED
      BY <2>7, <2>9, <2>10, <2>11, <2>12
  <1> QED
    BY <1>1, <1>2 DEF Unlock

\* Every step of the lock manager keeps the invariant.
LEMMA NextInv ==
    ASSUME IInv, [Next]_vars
    PROVE  IInv'
  <1> USE DEF IInv
  <1>1. ASSUME NEW c \in Callers, NEW d \in Descs, NEW type \in LockTypes,
               NEW nb \in BOOLEAN, Flock(c, d, type, nb)
        PROVE  IInv'
    <2>1. /\ pc[c] # "waiting" /\ current \in Objects \cup {None} /\ open' = open
          /\ Attempt(c, d, type, nb, current, FALSE)
      BY <1>1 DEF Flock, TypeOK
    <2>2. ~orphaned =>
            /\ granted = Consulted(current)
            /\ \A x \in Callers : pc[x] = "waiting" => at[x] = current /\ current # None
      BY DEF GrantsTrue, NoLostWakeup, Consulted
    <2> QED
      BY <2>1, <2>2, AttemptInv
  <1>2. ASSUME NEW c \in Callers, Resume(c)
        PROVE  IInv'
    <2> DEFINE o == at[c]
               deletes == Disused(holders[o], waiters[o])
               cur == IF deletes THEN None ELSE current
               orph == deletes /\ current \notin {None, o}
    <2>1. /\ pc[c] = "woken" /\ open' = open
          /\ Attempt(c, call[c].desc, call[c].type, FALSE, cur, orph)
      BY <1>2 DEF Resume
    <2>2. /\ call[c] \in Calls /\ o \in Objects
          /\ cur \in Objects \cup {None} /\ orph \in BOOLEAN
      BY <2>1 DEF TypeOK
    <2>3. call[c].desc \in Descs /\ call[c].type \in LockTypes
      BY <2>2 DEF Calls
    <2>4. ASSUME ~orphaned, ~orph
          PROVE  /\ granted = Consulted(cur)
                 /\ \A x \in Callers : pc[x] = "waiting" => at[x] = cur /\ cur # None
      <3>1. CASE ~deletes
        BY <2>4, <3>1 DEF GrantsTrue, NoLostWakeup, Consulted
      <3>2. CASE deletes
        <4>1. current \in {None, o} /\ holders[o] = Unheld /\ waiters[o] = <<>>
          BY <2>4, <3>2 DEF Disused
        <4>2. granted = Unheld
          BY <2>4, <4>1 DEF GrantsTrue
        <4>3. Range(waiters[o]) = {}
          BY <4>1 DEF Range
        <4>4. \A x \in Callers : pc[x] # "waiting"
          BY <2>2, <2>4, <4>1, <4>3 DEF NoLostWakeup, QueuesConsistent
        <4> QED
          BY <3>2, <4>2, <4>4 DEF Consulted
      <3> QED
        BY <3>1, <3>2
    <2> HIDE DEF cur, orph
    <2> QED
      BY <2>1, <2>2, <2>3, <2>4, AttemptInv
  <1>3. ASSUME NEW d \in Descs, FlockUn(d)
        PROVE  IInv'
    BY <1>3, UnlockInv DEF FlockUn, TypeOK
  <1>4. ASSUME NEW d \in Descs, CloseLast(d)
        PROVE  IInv'
    <2>1. open' \subseteq Descs
      BY <1>4 DEF CloseLast, TypeOK
    <2> QED
      BY <1>4, <2>1, UnlockInv DEF CloseLast
  <1>5. CASE UNCHANGED vars
    <2>1. TypeOK'
      BY <1>5, Zenon DEF vars, TypeOK
    <2>2. ObjectExclusion' /\ GrantsTrue' /\ QueuesConsistent' /\ NoLostWakeup'
      BY <1>5 DEF vars, ObjectExclusion, GrantsTrue, QueuesConsistent, NoLostWakeup
    <2> QED
      BY <2>1, <2>2
  <1> QED
    BY <1>1, <1>2, <1>3, <1>4, <1>5 DEF Next

\* The invariant holds in every reachable state of every instance.
THEOREM FileLockInvariant == Spec => []IInv
  <1>1. Init => IInv
    <2> SUFFICES ASSUME Init PROVE IInv
      OBVIOUS
    <2>0. orphaned \in BOOLEAN
      BY Zenon DEF Init
    <2>1. TypeOK
      BY <2>0 DEF Init, TypeOK, Unheld
    <2>2. QueuesConsistent
      BY DEF Init, QueuesConsistent, Range, IsInjective
    <2>3. ObjectExclusion /\ GrantsTrue /\ NoLostWakeup
      BY DEF Init, ObjectExclusion, GrantsTrue, NoLostWakeup, Unheld
    <2> QED
      BY <2>1, <2>2, <2>3 DEF IInv
  <1>2. IInv /\ [Next]_vars => IInv'
    BY NextInv
  <1> QED
    BY <1>1, <1>2, PTL DEF Spec

\* Until a clean-up drops another object's entry, granted locks exclude each
\* other, for any number of callers and descriptions.
THEOREM LocksExclude == Spec => []ExclusionUnlessOrphaned
  <1>1. IInv => ExclusionUnlessOrphaned
    <2> SUFFICES ASSUME IInv, ~orphaned, NEW d \in Descs, NEW e \in Descs,
                        d # e, granted[d] = "ex"
                 PROVE  granted[e] = "none"
      BY DEF ExclusionUnlessOrphaned, MutualExclusion
    <2>1. CASE current = None
      BY <2>1 DEF IInv, GrantsTrue, Unheld
    <2>2. CASE current # None
      <3>1. current \in Objects /\ granted = holders[current]
        BY <2>2 DEF IInv, TypeOK, GrantsTrue
      <3> QED
        BY <3>1 DEF IInv, ObjectExclusion
    <2> QED
      BY <2>1, <2>2
  <1> QED
    BY <1>1, FileLockInvariant, PTL

\* Until then, too, every granted lock is one that closing its description
\* releases, and every blocked caller is one that the next unlock finds.
THEOREM LocksAccountedFor == Spec => [](TypeOK /\ GrantsTrue /\ NoLostWakeup)
  <1>1. IInv => TypeOK /\ GrantsTrue /\ NoLostWakeup
    BY DEF IInv
  <1> QED
    BY <1>1, FileLockInvariant, PTL

\* No unlock and no close leaves a blocked caller behind, until then.
THEOREM WakeupsNotLost == Spec => []NoLostWakeup
  <1> QED
    BY LocksAccountedFor, PTL
=============================================================================
