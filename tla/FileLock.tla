------------------------------ MODULE FileLock ------------------------------
(***************************************************************************)
(* Advisory locks: FileLockManager (packages/core/src/kernel/file-lock.ts) *)
(* for one path.  A description's path never changes and the manager keeps *)
(* a separate state per path, so paths do not interact.                    *)
(*                                                                         *)
(* The manager's map holds a PathLockState object for the path; a caller   *)
(* blocked in flock() keeps its own reference to the object it blocked on. *)
(* The map may drop that object, or point to another one, before the       *)
(* caller runs again, so objects are modelled by identity.  An object that *)
(* neither the map nor a blocked caller refers to is garbage and its       *)
(* identity may be used again.                                             *)
(***************************************************************************)
EXTENDS Naturals, Sequences, Functions

CONSTANTS Callers,    \* chains of flock() calls
          Descs,      \* file descriptions opened on the path
          Objects,    \* identities of PathLockState objects, one per caller at least
          None        \* the map has no entry for the path

LockTypes == {"sh", "ex"}
Calls == [desc : Descs, type : LockTypes]

ASSUME FileLockAssumption == None \notin Objects /\ None \notin Calls

VARIABLES
    current,      \* locks.get(path)
    holders,      \* PathLockState.holders: per object and description, a type
    waiters,      \* PathLockState.waiters: unsettled handles, oldest first
    descToPath,   \* the descriptions descToPath maps to the path
    open,         \* descriptions some FD still refers to
    pc,           \* "idle", "waiting" on its handle, or "woken" and not yet run
    call,         \* the description and the operation of a blocked call
    at,           \* the object a blocked caller refers to
    (* History of the run, read by no guard. *)
    granted,      \* the lock each description was last told it has
    orphaned      \* cleanupState removed an object other than its argument

vars == <<current, holders, waiters, descToPath, open, pc, call, at, granted,
          orphaned>>

Unheld == [d \in Descs |-> "none"]

----------------------------------------------------------------------------

\* getOrCreate(path), called by c when the map entry is cur: that object, or a
\* new one, which no other caller refers to.
Candidates(c, cur) ==
    IF cur # None THEN {cur}
    ELSE {o \in Objects : \A x \in Callers \ {c} : at[x] # o}

\* Slip: a shared lock is granted beside an exclusive one.
MutConflict(hold, d, type) ==
    type = "ex" /\ \E e \in Descs \ {d} : hold[e] # "none"

\* tryAcquire's test, on the holders of one object
Conflict(hold, d, type) ==
    \E e \in Descs \ {d} :
        IF type = "sh" THEN hold[e] = "ex" ELSE hold[e] # "none"

\* One turn of flock()'s loop for caller c, entered with the map entry cur:
\* acquire, fail with EAGAIN, or wait.  orph tells whether the clean-up that
\* came before dropped another object's entry.
Attempt(c, d, type, nonBlocking, cur, orph) ==
    LET hold == IF cur = None THEN Unheld ELSE holders[cur]
        busy == Conflict(hold, d, type)
    IN
    \E o \in Candidates(c, cur) :
    /\ current' = o
    /\ orphaned' = (orphaned \/ orph)
    /\ \/ /\ ~busy
          /\ holders' = [holders EXCEPT ![o] = [hold EXCEPT ![d] = type]]
          /\ descToPath' = descToPath \cup {d}
          /\ granted' = [granted EXCEPT ![d] = type]
          /\ pc' = [pc EXCEPT ![c] = "idle"]
          /\ at' = [at EXCEPT ![c] = None]
          /\ call' = [call EXCEPT ![c] = None]
          /\ UNCHANGED waiters
       \/ /\ busy /\ nonBlocking
          /\ UNCHANGED <<holders, waiters, descToPath, granted, pc, at, call>>
       \/ /\ busy /\ ~nonBlocking
          /\ waiters' = [waiters EXCEPT ![o] = Append(@, c)]
          /\ pc' = [pc EXCEPT ![c] = "waiting"]
          /\ at' = [at EXCEPT ![c] = o]
          /\ call' = [call EXCEPT ![c] = [desc |-> d, type |-> type]]
          /\ UNCHANGED <<holders, descToPath, granted>>

\* flock(path, descId, LOCK_SH or LOCK_EX, with or without LOCK_NB)
Flock(c, d, type, nonBlocking) ==
    /\ pc[c] = "idle" /\ d \in open
    /\ Attempt(c, d, type, nonBlocking, current, FALSE)
    /\ UNCHANGED open

\* Slip: an entry with holders but without waiters is dropped.
MutDisused(hold, queue) == queue = <<>>

\* cleanupState's test: no holder, and no unsettled handle on the queue.
Disused(hold, queue) == hold = Unheld /\ queue = <<>>

\* flock() after its await: its handle is off the queue already; cleanupState
\* deletes the path's entry when the caller's own object is disused, whichever
\* object the entry holds by then; the loop starts over.
Resume(c) ==
    LET o       == at[c]
        deletes == Disused(holders[o], waiters[o])
    IN
    /\ pc[c] = "woken"
    /\ Attempt(c, call[c].desc, call[c].type, FALSE,
               IF deletes THEN None ELSE current,
               deletes /\ current \notin {None, o})
    /\ UNCHANGED open

\* Slip: nobody is woken when a holder leaves.
MutWoken(held, queue) == 0

\* How many handles unlock() settles: wakeOne(), if the description held a lock.
Woken(held, queue) == IF held /\ queue # <<>> THEN 1 ELSE 0

\* What wakeOne() leaves on the queue.
Unsettled(queue, n) == IF n = 0 THEN queue ELSE Tail(queue)

\* unlock(path, descId): the description leaves the holders and the oldest
\* waiter wakes; then cleanupState.
Unlock(d) ==
    \/ /\ current = None
       /\ UNCHANGED <<current, holders, waiters, descToPath, pc>>
    \/ LET held  == holders[current][d] # "none"
           hold  == [holders[current] EXCEPT ![d] = "none"]
           n     == Woken(held, waiters[current])
           queue == Unsettled(waiters[current], n)
       IN
       /\ current # None
       /\ holders' = [holders EXCEPT ![current] = hold]
       /\ descToPath' = IF held THEN descToPath \ {d} ELSE descToPath
       /\ waiters' = [waiters EXCEPT ![current] = queue]
       /\ pc' = IF n = 0 THEN pc ELSE [pc EXCEPT ![Head(waiters[current])] = "woken"]
       /\ current' = IF Disused(hold, queue) THEN None ELSE current

\* flock(path, descId, LOCK_UN)
FlockUn(d) ==
    /\ d \in open
    /\ Unlock(d)
    /\ granted' = [granted EXCEPT ![d] = "none"]
    /\ UNCHANGED <<open, call, at, orphaned>>

\* The last FD of the description is closed: the kernel calls
\* releaseByDescription, which unlocks what descToPath knows of.
CloseLast(d) ==
    /\ d \in open
    /\ open' = open \ {d}
    /\ IF d \in descToPath
       THEN Unlock(d)
       ELSE UNCHANGED <<current, holders, waiters, descToPath, pc>>
    /\ granted' = [granted EXCEPT ![d] = "none"]
    /\ UNCHANGED <<call, at, orphaned>>

Init ==
    /\ current = None
    /\ holders = [o \in Objects |-> Unheld]
    /\ waiters = [o \in Objects |-> <<>>]
    /\ descToPath = {} /\ open = Descs
    /\ pc = [c \in Callers |-> "idle"]
    /\ call = [c \in Callers |-> None]
    /\ at = [c \in Callers |-> None]
    /\ granted = Unheld /\ orphaned = FALSE

Next ==
    \/ \E c \in Callers :
         \/ \E d \in Descs, type \in LockTypes, nb \in BOOLEAN : Flock(c, d, type, nb)
         \/ Resume(c)
    \/ \E d \in Descs : FlockUn(d) \/ CloseLast(d)

Spec == Init /\ [][Next]_vars

----------------------------------------------------------------------------
(* Properties *)

\* Each variable stays in its type.
TypeOK ==
    /\ current \in Objects \cup {None}
    /\ holders \in [Objects -> [Descs -> LockTypes \cup {"none"}]]
    /\ waiters \in [Objects -> Seq(Callers)]
    /\ descToPath \subseteq Descs /\ open \subseteq Descs
    /\ pc \in [Callers -> {"idle", "waiting", "woken"}]
    /\ call \in [Callers -> Calls \cup {None}]
    /\ at \in [Callers -> Objects \cup {None}]
    /\ \A c \in Callers : pc[c] # "idle" => call[c] # None /\ at[c] # None
    /\ granted \in [Descs -> LockTypes \cup {"none"}]
    /\ orphaned \in BOOLEAN

\* Within one PathLockState an exclusive holder is the only one.
ObjectExclusion ==
    \A o \in Objects, d, e \in Descs :
        d # e /\ holders[o][d] = "ex" => holders[o][e] = "none"

\* "process B MUST remain blocked until process A releases the lock": nobody is
\* told of a lock while another description has been told of an exclusive one.
MutualExclusion ==
    \A d, e \in Descs : d # e /\ granted[d] = "ex" => granted[e] = "none"

\* As long as no clean-up has dropped the entry of another object, the locks
\* exclude each other: that clean-up is the only way exclusion is lost.
ExclusionUnlessOrphaned == ~orphaned => MutualExclusion

\* Until then the manager also knows every lock it has granted, in the entry it
\* consults and in descToPath, so closing a description releases its lock.
GrantsTrue ==
    ~orphaned =>
        /\ descToPath = {d \in Descs : granted[d] # "none"}
        /\ granted = IF current = None THEN Unheld ELSE holders[current]

\* Until then a blocked caller is on the queue of the entry in use, and somebody
\* holds the lock or has been woken to try for it: the next unlock finds it.
NoLostWakeup ==
    ~orphaned =>
        \A c \in Callers : pc[c] = "waiting" =>
            /\ at[c] = current /\ current # None
            /\ \/ holders[current] # Unheld
               \/ \E x \in Callers : pc[x] = "woken" /\ at[x] = current

\* A caller is suspended exactly when its handle is on the queue of its object,
\* and once: no unlock settles a handle twice or leaves a settled one queued.
QueuesConsistent ==
    \A o \in Objects :
        /\ IsInjective(waiters[o])
        /\ \A c \in Callers :
              c \in Range(waiters[o]) <=> pc[c] = "waiting" /\ at[c] = o
=============================================================================
