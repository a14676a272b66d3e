--------------------------- MODULE KernelFDProofs ---------------------------
(***************************************************************************)
(* Proofs about KernelFD, for any number of processes, descriptors and     *)
(* descriptions: reference counts are exact, so that pipe and PTY ends and *)
(* locks go with the last descriptor, and a child's standard streams are   *)
(* not held open by the child itself.                                      *)
(***************************************************************************)
EXTENDS KernelFD, FiniteSetTheorems, WellFoundedInduction, TLAPS

\* A set of naturals that is not empty has a least element.
LEMMA LeastNatural ==
    ASSUME NEW S \in SUBSET Nat, S # {}
    PROVE  \E x \in S : \A y \in S : x <= y
  <1> DEFINE less == {e \in Nat \X Nat : e[1] < e[2]}
  <1>1. IsWellFoundedOn(less, Nat)
    BY NatLessThanWellFounded DEF OpToRel
  <1> HIDE DEF less
  <1>2. PICK x \in S : \A y \in S : ~(<<y, x>> \in less)
    BY <1>1, WFMin, Zenon
  <1>3. ASSUME NEW y \in S PROVE x <= y
    <2>1. x \in Nat /\ y \in Nat /\ ~(y < x)
      BY <1>2 DEF less
    <2> QED
      BY <2>1
  <1> QED
    BY <1>3

----------------------------------------------------------------------------
(* The inductive invariant *)

\* Descriptors lead to descriptions that were allocated, and only those are closed,
\* locked, waiting or stranded; a process that does not exist, yet or any more, has no
\* descriptors.
Allocated ==
    /\ \A p \in Pids, f \in FdNo : table[p][f] < nextDesc
    /\ \A d \in ended \cup locked \cup stranded : d < nextDesc
    /\ \A w \in waiting : w[1] < nextDesc
    /\ \A p \in Pids, f \in FdNo : state[p] \in {"none", "exited"} => table[p][f] = NoDesc

\* Two ends of the same pipe or PTY are of one kind, and files have no other end.
Paired ==
    /\ \A d \in Desc : kind[d] = "file" <=> pair[d] = 0
    /\ \A d \in Desc : pair[d] < nextDesc /\ (d >= nextDesc => kind[d] = "file")
    /\ \A d, e \in Desc : pair[d] = pair[e] => kind[d] = kind[e]

\* Ends and locks go with the last descriptor, in whatever table.
EndsWithLast ==
    \A d \in Desc \ stranded :
        (d < nextDesc /\ kind[d] # "file") => (d \in ended <=> References(d) = {})

LocksWithLast ==
    \A d \in locked : kind[d] = "file" => References(d) # {} \/ d \in late

KInv ==
    /\ TypeOK /\ Allocated /\ Paired
    /\ RefCountExact /\ EndsWithLast /\ LocksWithLast

----------------------------------------------------------------------------
(* Counting references *)

Tables == [FdNo -> Desc \cup {NoDesc}]

\* The descriptors of table t that lead to d.
Leading(t, d) == {f \in FdNo : t[f] = d}

Hit(x, d) == IF x = d THEN 1 ELSE 0

\* The step leaves the tables and what belongs to them in their types,
Typed ==
    /\ table' \in [Pids -> Tables]
    /\ state' \in [Pids -> {"none", "running", "exited", "orphan"}]
    /\ cloexec' \subseteq Pids \X FdNo /\ nextFd' \in [Pids -> 0 .. MaxFd + 1]

\* and the reference counts exact.
Counted ==
    /\ RefCountExact' /\ refCount' \in [Desc -> Nat]
    /\ \A d \in Desc : refCount'[d] = 0 <=> References(d)' = {}

LEMMA FiniteTables ==
    /\ IsFiniteSet(FdNo) /\ IsFiniteSet(Pids \X FdNo)
    /\ NoDesc \notin Desc /\ FdNo \subseteq Nat /\ Unset \notin FdNo
  <1>1. FdNo \subseteq Nat /\ \A f \in FdNo : f <= MaxFd
    BY FDAssumption DEF FdNo
  <1>2. IsFiniteSet(FdNo)
    BY <1>1, FDAssumption, FS_BoundedSetOfNaturals
  <1>3. IsFiniteSet(Pids \X FdNo)
    BY <1>2, FDAssumption, FS_Product
  <1>4. NoDesc \notin Desc /\ Unset \notin FdNo
    BY FDAssumption DEF NoDesc, Desc, Unset, FdNo
  <1> QED
    BY <1>1, <1>2, <1>3, <1>4

LEMMA LeadingCount ==
    ASSUME NEW t, NEW d
    PROVE  /\ IsFiniteSet(Leading(t, d)) /\ Cardinality(Leading(t, d)) \in Nat
           /\ Cardinality(Leading(t, d)) = 0 <=> \A f \in FdNo : t[f] # d
  <1>1. IsFiniteSet(Leading(t, d))
    BY FiniteTables, FS_Subset DEF Leading
  <1>2. Cardinality(Leading(t, d)) \in Nat
    BY <1>1, FS_CardinalityType
  <1>3. Cardinality(Leading(t, d)) = 0 <=> Leading(t, d) = {}
    BY <1>1, FS_EmptySet
  <1> QED
    BY <1>1, <1>2, <1>3 DEF Leading

\* Two sets that differ in one element at most.
LEMMA OneElement ==
    ASSUME NEW A, IsFiniteSet(A), NEW B, IsFiniteSet(B), NEW f, A \ {f} = B \ {f}
    PROVE  Cardinality(B) = Cardinality(A) - (IF f \in A THEN 1 ELSE 0)
                                           + (IF f \in B THEN 1 ELSE 0)
  <1>1. ASSUME NEW S, IsFiniteSet(S)
        PROVE  /\ Cardinality(S) \in Nat /\ Cardinality(S \ {f}) \in Nat
               /\ Cardinality(S) = Cardinality(S \ {f}) + (IF f \in S THEN 1 ELSE 0)
    <2>1. IsFiniteSet(S \ {f}) /\ Cardinality(S) \in Nat
      BY <1>1, FS_Subset, FS_CardinalityType
    <2>2. Cardinality(S \ {f}) \in Nat
      BY <2>1, FS_CardinalityType
    <2>3. CASE f \in S
      <3>1. Cardinality(S \ {f}) = Cardinality(S) - 1
        BY <1>1, <2>3, FS_RemoveElement
      <3> QED
        BY <2>1, <2>2, <2>3, <3>1
    <2>4. CASE f \notin S
      <3>1. S \ {f} = S
        BY <2>4
      <3> QED
        BY <2>1, <2>4, <3>1
    <2> QED
      BY <2>3, <2>4
  <1>2. /\ Cardinality(A) \in Nat /\ Cardinality(A \ {f}) \in Nat
        /\ Cardinality(A) = Cardinality(A \ {f}) + (IF f \in A THEN 1 ELSE 0)
    BY <1>1
  <1>3. /\ Cardinality(B) \in Nat
        /\ Cardinality(B) = Cardinality(B \ {f}) + (IF f \in B THEN 1 ELSE 0)
    BY <1>1
  <1> QED
    BY <1>2, <1>3

\* The table of one process is replaced.
LEMMA Recount ==
    ASSUME TypeOK, table' \in [Pids -> Tables], NEW p \in Pids, NEW d,
           \A q \in Pids : q # p => table'[q] = table[q]
    PROVE  /\ Cardinality(References(d)) \in Nat /\ Cardinality(References(d)') \in Nat
           /\ Cardinality(References(d)') = Cardinality(References(d))
                - Cardinality(Leading(table[p], d)) + Cardinality(Leading(table'[p], d))
           /\ Cardinality(References(d)') = 0 <=> References(d)' = {}
           /\ Cardinality(References(d)) = 0 <=> References(d) = {}
           /\ Cardinality(Leading(table[p], d)) <= Cardinality(References(d))
  <1> DEFINE gone == {p} \X Leading(table[p], d)
             new == {p} \X Leading(table'[p], d)
             stay == References(d) \ gone
  <1>1. table \in [Pids -> Tables]
    BY DEF TypeOK, Tables
  <1>2. gone \subseteq References(d) /\ References(d)' = stay \cup new /\ stay \cap new = {}
    BY <1>1 DEF References, Leading
  <1>3. IsFiniteSet(References(d)) /\ IsFiniteSet(References(d)')
    BY FiniteTables, FS_Subset DEF References
  <1>4. /\ Cardinality(References(d)) \in Nat /\ Cardinality(References(d)') \in Nat
        /\ Cardinality(References(d)') = 0 <=> References(d)' = {}
        /\ Cardinality(References(d)) = 0 <=> References(d) = {}
    BY <1>3, FS_CardinalityType, FS_EmptySet
  <1>5. ASSUME NEW S, IsFiniteSet(S)
        PROVE  IsFiniteSet({p} \X S) /\ Cardinality({p} \X S) = Cardinality(S)
    <2>1. IsFiniteSet({p}) /\ Cardinality({p}) = 1 /\ Cardinality(S) \in Nat
      BY <1>5, FS_Singleton, FS_CardinalityType
    <2>2. IsFiniteSet({p} \X S) /\ Cardinality({p} \X S) = Cardinality({p}) * Cardinality(S)
      BY <1>5, <2>1, FS_Product
    <2> QED
      BY <2>1, <2>2
  <1>6. /\ IsFiniteSet(gone) /\ Cardinality(gone) = Cardinality(Leading(table[p], d))
        /\ IsFiniteSet(new) /\ Cardinality(new) = Cardinality(Leading(table'[p], d))
        /\ Cardinality(Leading(table[p], d)) \in Nat /\ Cardinality(Leading(table'[p], d)) \in Nat
    BY <1>5, LeadingCount
  <1> HIDE DEF gone, new
  <1>7. References(d) \cap gone = gone
    BY <1>2
  <1>8. IsFiniteSet(stay) /\ Cardinality(stay) = Cardinality(References(d)) - Cardinality(gone)
    BY <1>3, <1>7, FS_Difference
  <1> HIDE DEF stay
  <1>9. Cardinality(stay \cup new) = Cardinality(stay) + Cardinality(new)
    <2>1. Cardinality(stay \cup new)
            = Cardinality(stay) + Cardinality(new) - Cardinality(stay \cap new)
      BY <1>6, <1>8, FS_Union
    <2>2. Cardinality(stay \cap new) = 0
      BY <1>2, FS_EmptySet
    <2>3. Cardinality(stay) \in Nat /\ Cardinality(new) \in Nat
      BY <1>6, <1>8, FS_CardinalityType
    <2> QED
      BY <2>1, <2>2, <2>3
  <1>10. Cardinality(gone) <= Cardinality(References(d))
    BY <1>2, <1>3, FS_Subset
  <1> QED
    BY <1>2, <1>4, <1>6, <1>8, <1>9, <1>10

\* What a reference count says, and what it bounds.
LEMMA Counts ==
    ASSUME KInv, NEW d \in Desc
    PROVE  /\ refCount[d] \in Nat /\ refCount[d] = 0 <=> References(d) = {}
           /\ \A p \in Pids, f \in FdNo : table[p][f] = d => refCount[d] > 0
  <1>1. refCount[d] = Cardinality(References(d)) /\ refCount[d] \in Nat
    BY DEF KInv, RefCountExact, TypeOK
  <1>2. IsFiniteSet(References(d))
    BY FiniteTables, FS_Subset DEF References
  <1>3. refCount[d] = 0 <=> References(d) = {}
    BY <1>1, <1>2, FS_EmptySet
  <1>4. ASSUME NEW p \in Pids, NEW f \in FdNo, table[p][f] = d PROVE refCount[d] > 0
    <2>1. <<p, f>> \in References(d)
      BY <1>4 DEF References
    <2> QED
      BY <1>1, <1>3, <2>1
  <1> QED
    BY <1>1, <1>3, <1>4

\* A step that replaces the table of p and adjusts the counts by what it removes and adds.
LEMMA CountStep ==
    ASSUME KInv, table' \in [Pids -> Tables], NEW p \in Pids,
           \A q \in Pids : q # p => table'[q] = table[q],
           DOMAIN refCount' = Desc, refCount' = [d \in Desc |-> refCount'[d]],
           \A d \in Desc : refCount'[d] = refCount[d]
                - Cardinality(Leading(table[p], d)) + Cardinality(Leading(table'[p], d))
    PROVE  Counted
  <1>1. ASSUME NEW d \in Desc
        PROVE  /\ refCount'[d] = Cardinality(References(d)') /\ refCount'[d] \in Nat
               /\ refCount'[d] = 0 <=> References(d)' = {}
    <2>1. refCount[d] = Cardinality(References(d))
      BY DEF KInv, RefCountExact
    <2>2. /\ Cardinality(References(d)') \in Nat
          /\ Cardinality(References(d)') = Cardinality(References(d))
               - Cardinality(Leading(table[p], d)) + Cardinality(Leading(table'[p], d))
          /\ Cardinality(References(d)') = 0 <=> References(d)' = {}
      BY Recount DEF KInv
    <2> QED
      BY <2>1, <2>2
  <1>2. RefCountExact'
    BY <1>1 DEF RefCountExact
  <1>3. refCount' \in [Desc -> Nat]
    BY <1>1
  <1> QED
    BY <1>1, <1>2, <1>3 DEF Counted

\* The same for a step that sets one entry.
LEMMA EntryStep ==
    ASSUME KInv, table' \in [Pids -> Tables], NEW p \in Pids, NEW f \in FdNo,
           \A q \in Pids, g \in FdNo : ~(q = p /\ g = f) => table'[q][g] = table[q][g],
           DOMAIN refCount' = Desc, refCount' = [d \in Desc |-> refCount'[d]],
           \A d \in Desc : refCount'[d] = refCount[d] - Hit(table[p][f], d)
                                            + Hit(table'[p][f], d)
    PROVE  Counted
  <1>1. table \in [Pids -> Tables]
    BY DEF KInv, TypeOK, Tables
  <1>2. \A q \in Pids : q # p => table'[q] = table[q]
    BY <1>1 DEF Tables
  <1>3. ASSUME NEW d \in Desc
        PROVE  refCount'[d] = refCount[d]
                 - Cardinality(Leading(table[p], d)) + Cardinality(Leading(table'[p], d))
    <2> DEFINE A == Leading(table[p], d)
               B == Leading(table'[p], d)
    <2>1. A \ {f} = B \ {f} /\ (f \in A <=> table[p][f] = d) /\ (f \in B <=> table'[p][f] = d)
      BY DEF Leading
    <2>2. /\ IsFiniteSet(A) /\ Cardinality(A) \in Nat /\ IsFiniteSet(B)
          /\ refCount[d] \in Nat
      BY LeadingCount DEF KInv, TypeOK
    <2> HIDE DEF A, B
    <2>3. Cardinality(B) = Cardinality(A) - (IF f \in A THEN 1 ELSE 0)
                                          + (IF f \in B THEN 1 ELSE 0)
      BY <2>1, <2>2, OneElement
    <2>4. refCount'[d] = refCount[d] - (IF f \in A THEN 1 ELSE 0) + (IF f \in B THEN 1 ELSE 0)
      BY <2>1 DEF Hit
    <2>5. refCount'[d] = refCount[d] - Cardinality(A) + Cardinality(B)
      BY <2>2, <2>3, <2>4
    <2> QED
      BY <2>5 DEF A, B
  <1> QED
    BY <1>2, <1>3, CountStep

\* A step that allocates no description: an end is closed, and a lock goes, exactly when
\* the count of its description drops to zero, and no count rises from zero.
LEMMA SharedStep ==
    ASSUME KInv, UNCHANGED descs,
           Typed, Counted,
           \A p \in Pids, f \in FdNo : /\ table'[p][f] < nextDesc
                                       /\ state'[p] \in {"none", "exited"} => table'[p][f] = NoDesc,
           ended' \cup locked' \subseteq Desc,
           \A d \in ended' \cup locked' : d < nextDesc,
           \A d \in Desc : /\ refCount[d] = 0 => refCount'[d] = 0
                           /\ kind[d] # "file" => (d \in ended' <=>
                                d \in ended \/ (refCount[d] # 0 /\ refCount'[d] = 0))
                           /\ d \in locked' /\ kind[d] = "file" => refCount'[d] # 0 \/ d \in late
    PROVE  KInv'
  <1>1. UNCHANGED <<nextDesc, kind, pair, stranded, waiting, late>>
    BY DEF descs, waits
  <1>2. TypeOK'
    BY <1>1 DEF KInv, TypeOK, Tables, Typed, Counted
  <1>3. Allocated'
    BY <1>1 DEF KInv, Allocated
  <1>4. Paired'
    BY <1>1 DEF KInv, Paired
  <1>5. EndsWithLast'
    <2> SUFFICES ASSUME NEW d \in Desc, d \notin stranded, d < nextDesc, kind[d] # "file"
                 PROVE  d \in ended' <=> References(d)' = {}
      BY <1>1 DEF EndsWithLast
    <2>1. d \in ended <=> refCount[d] = 0
      <3>1. d \in ended <=> References(d) = {}
        BY DEF KInv, EndsWithLast
      <3>2. refCount[d] = 0 <=> References(d) = {}
        BY Counts
      <3> QED
        BY <3>1, <3>2
    <2> QED
      BY <2>1 DEF Counted
  <1>6. LocksWithLast'
    <2> SUFFICES ASSUME NEW d \in locked', kind[d] = "file"
                 PROVE  References(d)' # {} \/ d \in late
      BY <1>1 DEF LocksWithLast
    <2> QED
      BY DEF Counted, KInv, TypeOK
  <1> QED
    BY <1>2, <1>3, <1>4, <1>5, <1>6 DEF KInv, Counted

\* A step that allocates n descriptions of kind k, each of them installed, or left
\* stranded.
LEMMA AllocateStep ==
    ASSUME KInv, NEW n \in Nat \ {0}, NEW k \in {"file", "pipe", "pty"}, NewDescs(n, k),
           UNCHANGED <<ended, locked>>, UNCHANGED waits,
           Typed, Counted,
           \A p \in Pids, f \in FdNo : /\ table'[p][f] < nextDesc + n
                                       /\ state'[p] \in {"none", "exited"} => table'[p][f] = NoDesc,
           stranded \subseteq stranded', stranded' \subseteq Desc,
           \A d \in stranded' : d < nextDesc + n,
           \A d \in Desc : d < nextDesc => refCount'[d] = refCount[d],
           \A d \in Desc : d >= nextDesc /\ d < nextDesc + n =>
                             refCount'[d] # 0 \/ k = "file" \/ d \in stranded'
    PROVE  KInv'
  <1>1. /\ nextDesc \in 1 .. MaxDesc + 1 /\ nextDesc' = nextDesc + n
        /\ nextDesc' \in 1 .. MaxDesc + 1 /\ MaxDesc \in Nat
        /\ UNCHANGED <<waiting, late>>
    BY FDAssumption DEF KInv, TypeOK, NewDescs, waits
  <1>2. \A d \in Desc :
          /\ d \in Nat
          /\ kind'[d] = IF d >= nextDesc /\ d < nextDesc + n THEN k ELSE kind[d]
          /\ pair'[d] = IF d >= nextDesc /\ d < nextDesc + n /\ k # "file"
                          THEN nextDesc ELSE pair[d]
    BY <1>1 DEF NewDescs, Desc
  <1>3. kind' \in [Desc -> {"file", "pipe", "pty"}] /\ pair' \in [Desc -> 0 .. MaxDesc]
    <2>1. kind \in [Desc -> {"file", "pipe", "pty"}] /\ pair \in [Desc -> 0 .. MaxDesc]
      BY DEF KInv, TypeOK
    <2>2. nextDesc \in 0 .. MaxDesc
      BY <1>1
    <2> QED
      BY <2>1, <2>2 DEF NewDescs
  <1>4. TypeOK'
    BY <1>1, <1>3 DEF KInv, TypeOK, Tables, Typed, Counted
  <1>5. Allocated'
    BY <1>1 DEF KInv, Allocated, TypeOK, Desc
  <1>6. Paired'
    <2>1. \A d \in Desc : /\ kind[d] = "file" <=> pair[d] = 0
                          /\ pair[d] < nextDesc /\ (d >= nextDesc => kind[d] = "file")
                          /\ pair[d] \in Nat
      BY DEF KInv, Paired, TypeOK
    <2>2. \A d, e \in Desc : pair[d] = pair[e] => kind[d] = kind[e]
      BY DEF KInv, Paired
    <2>3. \A d \in Desc : kind'[d] = "file" <=> pair'[d] = 0
      BY <1>1, <1>2, <2>1
    <2>4. \A d \in Desc : pair'[d] < nextDesc' /\ (d >= nextDesc' => kind'[d] = "file")
      BY <1>1, <1>2, <2>1
    <2>5. \A d, e \in Desc : pair'[d] = pair'[e] => kind'[d] = kind'[e]
      <3> SUFFICES ASSUME NEW d \in Desc, NEW e \in Desc, pair'[d] = pair'[e]
                   PROVE  kind'[d] = kind'[e]
        OBVIOUS
      <3>1. CASE k = "file"
        BY <1>2, <2>1, <2>2, <3>1
      <3>2. CASE k # "file"
        <4> DEFINE fresh(x) == x >= nextDesc /\ x < nextDesc + n
        <4>1. fresh(d) <=> fresh(e)
          BY <1>1, <1>2, <2>1, <3>2
        <4> QED
          BY <1>2, <2>2, <4>1
      <3> QED
        BY <3>1, <3>2
    <2> QED
      BY <2>3, <2>4, <2>5 DEF Paired
  <1>7. EndsWithLast'
    <2> SUFFICES ASSUME NEW d \in Desc, d \notin stranded', d < nextDesc + n, kind'[d] # "file"
                 PROVE  d \in ended <=> References(d)' = {}
      BY <1>1 DEF EndsWithLast
    <2>1. CASE d < nextDesc
      <3>1. kind[d] # "file" /\ d \notin stranded
        BY <1>1, <1>2, <2>1
      <3>2. d \in ended <=> References(d) = {}
        BY <2>1, <3>1 DEF KInv, EndsWithLast
      <3>3. refCount[d] = 0 <=> References(d) = {}
        BY Counts
      <3> QED
        BY <2>1, <3>2, <3>3 DEF Counted
    <2>2. CASE d >= nextDesc
      <3>1. d \notin ended
        BY <1>1, <1>2, <2>2 DEF KInv, Allocated
      <3> QED
        BY <1>2, <2>2, <3>1 DEF Counted
    <2> QED
      BY <1>1, <1>2, <2>1, <2>2
  <1>8. LocksWithLast'
    <2> SUFFICES ASSUME NEW d \in locked, kind'[d] = "file"
                 PROVE  References(d)' # {} \/ d \in late
      BY <1>1 DEF LocksWithLast
    <2>1. d \in Desc /\ d < nextDesc
      BY DEF KInv, TypeOK, Allocated
    <2>2. kind[d] = "file"
      BY <1>1, <1>2, <2>1
    <2>3. References(d) # {} \/ d \in late
      BY <2>2 DEF KInv, LocksWithLast
    <2>4. refCount[d] = 0 <=> References(d) = {}
      BY <2>1, Counts
    <2> QED
      BY <2>1, <2>3, <2>4 DEF Counted
  <1> QED
    BY <1>4, <1>5, <1>6, <1>7, <1>8 DEF KInv, Counted

\* allocateFd returns a free descriptor.
LEMMA AllocateFdFree ==
    ASSUME KInv, NEW t, NEW hint \in Nat, AllocateFd(t, hint) \in FdNo
    PROVE  t[AllocateFd(t, hint)] = NoDesc /\ AllocateFd(t, hint) + 1 \in 0 .. MaxFd + 1
  <1> DEFINE free == {f \in hint .. MaxFd : t[f] = NoDesc}
  <1>1. free \in SUBSET Nat
    BY FDAssumption
  <1>2. free # {} /\ AllocateFd(t, hint) = Min(free)
    BY FiniteTables DEF AllocateFd
  <1>3. \E x \in free : \A y \in free : x <= y
    BY <1>1, <1>2, LeastNatural
  <1>4. Min(free) \in free
    BY <1>3 DEF Min
  <1> QED
    BY <1>2, <1>4, FDAssumption DEF FdNo

\* A description that was not allocated yet has no references.
LEMMA FreshCount ==
    ASSUME KInv, NEW d \in Desc, d >= nextDesc
    PROVE  refCount[d] = 0
  <1>1. \A p \in Pids, f \in FdNo : table[p][f] # d
    <2> SUFFICES ASSUME NEW p \in Pids, NEW f \in FdNo, table[p][f] = d PROVE FALSE
      OBVIOUS
    <2>1. d < nextDesc /\ d \in Nat /\ nextDesc \in Nat
      BY FDAssumption DEF KInv, TypeOK, Allocated, Desc
    <2> QED
      BY <2>1
  <1>2. References(d) = {}
    BY <1>1 DEF References
  <1> QED
    BY <1>2, Counts

----------------------------------------------------------------------------
(* The actions *)

\* What the invariant says of one table, as the actions use it.
LEMMA TableFacts ==
    ASSUME KInv, NEW p \in Pids
    PROVE  /\ table \in [Pids -> Tables] /\ table[p] \in Tables
           /\ \A f \in FdNo : /\ table[p][f] \in Desc \cup {NoDesc} /\ table[p][f] < nextDesc
                              /\ table[p][f] # NoDesc => table[p][f] \in Desc
           /\ refCount \in [Desc -> Nat] /\ nextFd \in [Pids -> 0 .. MaxFd + 1] /\ nextFd[p] \in Nat
           /\ nextDesc \in Nat \ {0} /\ Desc \subseteq Nat \ {0}
           /\ \A q \in Pids, f \in FdNo :
                /\ table[q][f] \in Nat /\ table[q][f] < nextDesc
                /\ state[q] \in {"none", "exited"} => table[q][f] = NoDesc
  BY FDAssumption DEF KInv, TypeOK, Tables, Allocated, Desc, NoDesc

LEMMA OpenInv ==
    ASSUME KInv, NEW p \in Pids, NEW c \in BOOLEAN, Open(p, c)
    PROVE  KInv'
  <1> DEFINE fd == AllocateFd(table[p], nextFd[p])
  <1>1. fd \in FdNo
    BY DEF Open
  <1>2. /\ state[p] = "running" /\ NewDescs(1, "file")
        /\ table' = [table EXCEPT ![p][fd] = nextDesc]
        /\ nextFd' = [nextFd EXCEPT ![p] = fd + 1]
        /\ cloexec' = IF c THEN cloexec \cup {<<p, fd>>} ELSE cloexec \ {<<p, fd>>}
        /\ refCount' = [refCount EXCEPT ![nextDesc] = 1]
        /\ UNCHANGED <<state, ended, locked, stranded, waits>>
    BY DEF Open, Mark
  <1>3. table[p][fd] = NoDesc /\ fd + 1 \in 0 .. MaxFd + 1
    BY <1>1, TableFacts, AllocateFdFree
  <1> HIDE DEF fd
  <1>4. nextDesc \in Desc
    BY <1>2, TableFacts, FDAssumption DEF NewDescs, Desc
  <1>5. refCount[nextDesc] = 0
    BY <1>4, FreshCount, TableFacts
  <1>6. /\ table' \in [Pids -> Tables]
        /\ \A q \in Pids, g \in FdNo :
             table'[q][g] = IF q = p /\ g = fd THEN nextDesc ELSE table[q][g]
    BY <1>1, <1>2, <1>4, TableFacts DEF Tables
  <1>7. Counted
    <2>1. \A d \in Desc : refCount'[d] = refCount[d] - Hit(table[p][fd], d)
                                           + Hit(table'[p][fd], d)
      <3>1. table'[p][fd] = nextDesc
        BY <1>1, <1>6
      <3> QED
        BY <1>2, <1>3, <1>5, <3>1, FiniteTables, TableFacts DEF Hit
    <2>2. DOMAIN refCount' = Desc /\ refCount' = [d \in Desc |-> refCount'[d]]
      BY <1>2, TableFacts
    <2>3. \A q \in Pids, g \in FdNo : ~(q = p /\ g = fd) => table'[q][g] = table[q][g]
      BY <1>6
    <2>4. table' \in [Pids -> Tables]
      BY <1>6
    <2> QED
      BY ONLY KInv, p \in Pids, <1>1, <2>1, <2>2, <2>3, <2>4, EntryStep
  <1>8. Typed /\ stranded' \subseteq Desc /\ \A d \in stranded' : d < nextDesc + 1
    <2>1. cloexec' \subseteq Pids \X FdNo
      BY <1>1, <1>2 DEF KInv, TypeOK
    <2>2. nextFd' \in [Pids -> 0 .. MaxFd + 1]
      BY <1>2, <1>3, TableFacts
    <2>3. table' \in [Pids -> Tables] /\ state' \in [Pids -> {"none", "running", "exited", "orphan"}]
      BY <1>2, <1>6 DEF KInv, TypeOK
    <2>4. stranded' \subseteq Desc /\ \A d \in stranded' : d < nextDesc
      BY <1>2 DEF KInv, TypeOK, Allocated
    <2>5. \A d \in Nat : d < nextDesc => d < nextDesc + 1
      BY TableFacts
    <2> QED
      BY <2>1, <2>2, <2>3, <2>4, <2>5, TableFacts DEF Typed
  <1>9. \A q \in Pids, f \in FdNo : /\ table'[q][f] < nextDesc + 1
                                    /\ state'[q] \in {"none", "exited"} => table'[q][f] = NoDesc
    BY <1>2, <1>6, TableFacts
  <1>10. \A d \in Desc : d < nextDesc => refCount'[d] = refCount[d]
    BY <1>2, TableFacts
  <1>11. NewDescs(1, "file") /\ UNCHANGED <<ended, locked>> /\ UNCHANGED waits /\ stranded \subseteq stranded'
    BY <1>2
  <1>12. 1 \in Nat \ {0} /\ "file" \in {"file", "pipe", "pty"}
    OBVIOUS
  <1>13. \A d \in Desc : d >= nextDesc /\ d < nextDesc + 1 =>
                           refCount'[d] # 0 \/ "file" = "file" \/ d \in stranded'
    OBVIOUS
  <1> QED
    BY ONLY KInv, <1>7, <1>8, <1>9, <1>10, <1>11, <1>12, <1>13, AllocateStep

\* pipe and openpty, both ends installed.
LEMMA CreatePairInv ==
    ASSUME KInv, NEW p \in Pids, NEW k \in {"pipe", "pty"}, CreatePair(p, k)
    PROVE  KInv'
  <1> DEFINE first == AllocateFd(table[p], nextFd[p])
             t1 == [table[p] EXCEPT ![first] = nextDesc]
             second == AllocateFd(t1, first + 1)
  <1>1. first \in FdNo /\ second \in FdNo
    BY DEF CreatePair
  <1>2. /\ state[p] = "running" /\ NewDescs(2, k)
        /\ table' = [table EXCEPT ![p] = [t1 EXCEPT ![second] = nextDesc + 1]]
        /\ nextFd' = [nextFd EXCEPT ![p] = second + 1]
        /\ refCount' = [refCount EXCEPT ![nextDesc] = 1, ![nextDesc + 1] = 1]
        /\ UNCHANGED <<state, cloexec, ended, locked, stranded, waits>>
    BY DEF CreatePair
  <1>3. table[p][first] = NoDesc /\ first + 1 \in Nat
    BY <1>1, TableFacts, AllocateFdFree
  <1>4. t1[second] = NoDesc /\ second + 1 \in 0 .. MaxFd + 1
    BY <1>1, <1>3, AllocateFdFree
  <1>5. nextDesc \in Desc /\ nextDesc + 1 \in Desc /\ nextDesc # NoDesc /\ nextDesc + 1 # nextDesc
    <2>1. nextDesc + 2 <= MaxDesc + 1
      BY <1>2 DEF NewDescs
    <2>2. nextDesc \in Nat /\ nextDesc >= 1 /\ MaxDesc \in Nat
      BY TableFacts, FDAssumption
    <2> QED
      BY ONLY <2>1, <2>2 DEF Desc, NoDesc
  <1>6. second # first /\ table[p][second] = NoDesc
    BY <1>1, <1>4, <1>5, TableFacts DEF Tables
  <1> HIDE DEF first, second
  <1>7. refCount[nextDesc] = 0 /\ refCount[nextDesc + 1] = 0
    BY <1>5, FreshCount, TableFacts
  <1>8. /\ table' \in [Pids -> Tables]
        /\ \A q \in Pids, g \in FdNo :
             table'[q][g] = IF q = p /\ g = second THEN nextDesc + 1
                            ELSE IF q = p /\ g = first THEN nextDesc ELSE table[q][g]
    BY <1>1, <1>2, <1>5, <1>6, TableFacts DEF Tables
  <1> HIDE DEF t1
  <1>9. Counted
    <2>1. ASSUME NEW d \in Desc
          PROVE  refCount'[d] = refCount[d]
                   - Cardinality(Leading(table[p], d)) + Cardinality(Leading(table'[p], d))
      <3> DEFINE A == Leading(table[p], d)
                 B == Leading(table'[p], d)
      <3>1. IsFiniteSet(A) /\ IsFiniteSet(B) /\ Cardinality(A) \in Nat /\ refCount[d] \in Nat
        BY LeadingCount, TableFacts
      <3>2. d # NoDesc
        BY FiniteTables
      <3>3. CASE d = nextDesc
        <4>1. A \ {first} = B \ {first} /\ first \notin A /\ first \in B
          BY <1>1, <1>3, <1>5, <1>6, <1>8, <3>2, <3>3 DEF Leading
        <4> HIDE DEF A, B
        <4>2. Cardinality(B) = Cardinality(A) + 1
          BY <3>1, <4>1, OneElement
        <4>3. refCount'[d] = 1 /\ refCount[d] = 0
          BY <1>2, <1>5, <1>7, <3>3, TableFacts
        <4>4. refCount'[d] = refCount[d] - Cardinality(A) + Cardinality(B)
          BY <3>1, <4>2, <4>3
        <4> QED
          BY <4>4 DEF A, B
      <3>4. CASE d = nextDesc + 1
        <4>1. A \ {second} = B \ {second} /\ second \notin A /\ second \in B
          BY <1>1, <1>3, <1>5, <1>6, <1>8, <3>2, <3>4 DEF Leading
        <4> HIDE DEF A, B
        <4>2. Cardinality(B) = Cardinality(A) + 1
          BY <3>1, <4>1, OneElement
        <4>3. refCount'[d] = 1 /\ refCount[d] = 0
          BY <1>2, <1>5, <1>7, <3>4, TableFacts
        <4>4. refCount'[d] = refCount[d] - Cardinality(A) + Cardinality(B)
          BY <3>1, <4>2, <4>3
        <4> QED
          BY <4>4 DEF A, B
      <3>5. CASE d # nextDesc /\ d # nextDesc + 1
        <4>1. A = B
          BY <1>3, <1>6, <1>8, <3>2, <3>5 DEF Leading
        <4>2. refCount'[d] = refCount[d]
          BY <1>2, <3>5, TableFacts
        <4> HIDE DEF A, B
        <4>3. refCount'[d] = refCount[d] - Cardinality(A) + Cardinality(B)
          BY <3>1, <4>1, <4>2
        <4> QED
          BY <4>3 DEF A, B
      <3> QED
        BY <3>3, <3>4, <3>5
    <2>2. DOMAIN refCount' = Desc /\ refCount' = [d \in Desc |-> refCount'[d]]
      BY <1>2, TableFacts
    <2>3. \A q \in Pids : q # p => table'[q] = table[q]
      BY <1>2, TableFacts
    <2> QED
      BY ONLY KInv, p \in Pids, <1>8, <2>1, <2>2, <2>3, CountStep
  <1>10. Typed /\ stranded' \subseteq Desc /\ \A d \in stranded' : d < nextDesc + 2
    BY <1>1, <1>2, <1>4, <1>8, TableFacts DEF KInv, TypeOK, Allocated, Desc, Typed
  <1>11. \A q \in Pids, f \in FdNo : /\ table'[q][f] < nextDesc + 2
                                     /\ state'[q] \in {"none", "exited"} => table'[q][f] = NoDesc
    BY <1>2, <1>8, TableFacts
  <1>12. \A d \in Desc : d < nextDesc => refCount'[d] = refCount[d]
    BY <1>2, TableFacts
  <1>13. NewDescs(2, k) /\ UNCHANGED <<ended, locked>> /\ UNCHANGED waits /\ stranded \subseteq stranded'
    BY <1>2
  <1>14. 2 \in Nat \ {0} /\ k \in {"file", "pipe", "pty"}
    OBVIOUS
  <1>15. \A d \in Desc : d >= nextDesc /\ d < nextDesc + 2 =>
                           refCount'[d] # 0 \/ k = "file" \/ d \in stranded'
    <2> SUFFICES ASSUME NEW d \in Desc, d >= nextDesc, d < nextDesc + 2
                 PROVE  refCount'[d] # 0
      OBVIOUS
    <2>1. d = nextDesc \/ d = nextDesc + 1
      BY TableFacts
    <2> QED
      BY <1>2, <1>5, <2>1, TableFacts
  <1> QED
    BY ONLY KInv, <1>9, <1>10, <1>11, <1>12, <1>13, <1>14, <1>15, AllocateStep

\* pipe and openpty when the second openWith throws.
LEMMA CreatePairFailsInv ==
    ASSUME KInv, NEW p \in Pids, NEW k \in {"pipe", "pty"}, CreatePairFails(p, k)
    PROVE  KInv'
  <1> DEFINE fd == AllocateFd(table[p], nextFd[p])
  <1>1. fd \in FdNo
    BY DEF CreatePairFails
  <1>2. /\ state[p] = "running" /\ NewDescs(2, k)
        /\ table' = [table EXCEPT ![p] = [table[p] EXCEPT ![fd] = nextDesc]]
        /\ nextFd' = [nextFd EXCEPT ![p] = fd + 1]
        /\ refCount' = [refCount EXCEPT ![nextDesc] = 1]
        /\ stranded' = stranded \cup {nextDesc + 1}
        /\ UNCHANGED <<state, cloexec, ended, locked, waits>>
    BY DEF CreatePairFails
  <1>3. table[p][fd] = NoDesc /\ fd + 1 \in 0 .. MaxFd + 1
    BY <1>1, TableFacts, AllocateFdFree
  <1> HIDE DEF fd
  <1>4. nextDesc \in Desc /\ nextDesc + 1 \in Desc
    BY <1>2, TableFacts, FDAssumption DEF NewDescs, Desc
  <1>5. refCount[nextDesc] = 0
    BY <1>4, FreshCount, TableFacts
  <1>6. /\ table' \in [Pids -> Tables]
        /\ \A q \in Pids, g \in FdNo :
             table'[q][g] = IF q = p /\ g = fd THEN nextDesc ELSE table[q][g]
    BY <1>1, <1>2, <1>4, TableFacts DEF Tables
  <1>7. Counted
    <2>1. \A d \in Desc : refCount'[d] = refCount[d] - Hit(table[p][fd], d)
                                           + Hit(table'[p][fd], d)
      <3>1. table'[p][fd] = nextDesc
        BY <1>1, <1>6
      <3> QED
        BY <1>2, <1>3, <1>5, <3>1, FiniteTables, TableFacts DEF Hit
    <2>2. DOMAIN refCount' = Desc /\ refCount' = [d \in Desc |-> refCount'[d]]
      BY <1>2, TableFacts
    <2>3. \A q \in Pids, g \in FdNo : ~(q = p /\ g = fd) => table'[q][g] = table[q][g]
      BY <1>6
    <2>4. table' \in [Pids -> Tables]
      BY <1>6
    <2> QED
      BY ONLY KInv, p \in Pids, <1>1, <2>1, <2>2, <2>3, <2>4, EntryStep
  <1>8. Typed /\ stranded' \subseteq Desc /\ \A d \in stranded' : d < nextDesc + 2
    BY <1>1, <1>2, <1>3, <1>4, <1>6, TableFacts DEF KInv, TypeOK, Allocated, Desc, Typed
  <1>9. \A q \in Pids, f \in FdNo : /\ table'[q][f] < nextDesc + 2
                                    /\ state'[q] \in {"none", "exited"} => table'[q][f] = NoDesc
    BY <1>2, <1>6, TableFacts
  <1>10. \A d \in Desc : d < nextDesc => refCount'[d] = refCount[d]
    BY <1>2, TableFacts
  <1>11. NewDescs(2, k) /\ UNCHANGED <<ended, locked>> /\ UNCHANGED waits /\ stranded \subseteq stranded'
    BY <1>2
  <1>12. 2 \in Nat \ {0} /\ k \in {"file", "pipe", "pty"}
    OBVIOUS
  <1>13. \A d \in Desc : d >= nextDesc /\ d < nextDesc + 2 =>
                           refCount'[d] # 0 \/ k = "file" \/ d \in stranded'
    <2> SUFFICES ASSUME NEW d \in Desc, d >= nextDesc, d < nextDesc + 2
                 PROVE  refCount'[d] # 0 \/ d \in stranded'
      OBVIOUS
    <2>1. d = nextDesc \/ d = nextDesc + 1
      BY TableFacts
    <2> QED
      BY <1>2, <1>4, <2>1, TableFacts
  <1> QED
    BY ONLY KInv, <1>7, <1>8, <1>9, <1>10, <1>11, <1>12, <1>13, AllocateStep

\* The copy of an entry into a free one: dup and F_DUPFD.
LEMMA CopyInv ==
    ASSUME KInv, NEW p \in Pids, NEW fd \in FdNo, NEW new \in FdNo,
           state[p] = "running", table[p][fd] # NoDesc, table[p][new] = NoDesc,
           table' = [table EXCEPT ![p][new] = table[p][fd]],
           refCount' = [refCount EXCEPT ![table[p][fd]] = @ + 1],
           cloexec' \subseteq Pids \X FdNo, nextFd' \in [Pids -> 0 .. MaxFd + 1],
           UNCHANGED <<state, descs, ended, locked>>
    PROVE  KInv'
  <1> DEFINE x == table[p][fd]
  <1>1. x \in Desc /\ x < nextDesc /\ refCount[x] > 0 /\ refCount[x] \in Nat
    BY TableFacts, Counts
  <1>2. /\ table' = [table EXCEPT ![p][new] = x]
        /\ refCount' = [refCount EXCEPT ![x] = @ + 1]
    OBVIOUS
  <1> HIDE DEF x
  <1>3. /\ table' \in [Pids -> Tables]
        /\ \A q \in Pids, g \in FdNo :
             table'[q][g] = IF q = p /\ g = new THEN x ELSE table[q][g]
    BY <1>1, <1>2, TableFacts DEF Tables
  <1>4. Counted
    <2>1. \A d \in Desc : refCount'[d] = refCount[d] - Hit(table[p][new], d)
                                           + Hit(table'[p][new], d)
      BY <1>3, <1>1, <1>2, FiniteTables, TableFacts DEF Hit
    <2>2. DOMAIN refCount' = Desc /\ refCount' = [d \in Desc |-> refCount'[d]]
      BY <1>2, TableFacts
    <2>3. \A q \in Pids, g \in FdNo : ~(q = p /\ g = new) => table'[q][g] = table[q][g]
      BY <1>3
    <2>4. table' \in [Pids -> Tables]
      BY <1>3
    <2> QED
      BY ONLY KInv, p \in Pids, new \in FdNo, <2>1, <2>2, <2>3, <2>4, EntryStep
  <1>5. Typed
    BY <1>3 DEF KInv, TypeOK, Typed
  <1>6. \A q \in Pids, f \in FdNo : /\ table'[q][f] < nextDesc
                                    /\ state'[q] \in {"none", "exited"} => table'[q][f] = NoDesc
    BY <1>1, <1>3, TableFacts
  <1>7. ended' \cup locked' \subseteq Desc /\ \A d \in ended' \cup locked' : d < nextDesc
    BY DEF KInv, TypeOK, Allocated
  <1>8. \A d \in Desc : /\ refCount[d] = 0 <=> refCount'[d] = 0
                        /\ d \in locked /\ kind[d] = "file" => refCount[d] # 0 \/ d \in late
    BY <1>1, <1>2, TableFacts, Counts DEF KInv, LocksWithLast
  <1>9. \A d \in Desc : /\ refCount[d] = 0 => refCount'[d] = 0
                        /\ kind[d] # "file" => (d \in ended' <=>
                             d \in ended \/ (refCount[d] # 0 /\ refCount'[d] = 0))
                        /\ d \in locked' /\ kind[d] = "file" => refCount'[d] # 0 \/ d \in late
    BY <1>8
  <1>10. UNCHANGED descs
    OBVIOUS
  <1> QED
    BY ONLY KInv, <1>4, <1>5, <1>6, <1>7, <1>9, <1>10, SharedStep

LEMMA DupInv ==
    ASSUME KInv, NEW p \in Pids, NEW fd \in FdNo, Dup(p, fd)
    PROVE  KInv'
  <1> DEFINE new == AllocateFd(table[p], nextFd[p])
  <1>1. /\ state[p] = "running" /\ table[p][fd] # NoDesc /\ new \in FdNo
        /\ table' = [table EXCEPT ![p][new] = table[p][fd]]
        /\ nextFd' = [nextFd EXCEPT ![p] = new + 1]
        /\ refCount' = [refCount EXCEPT ![table[p][fd]] = @ + 1]
        /\ UNCHANGED <<state, cloexec, descs, ended, locked>>
    BY DEF Dup
  <1>2. table[p][new] = NoDesc /\ new + 1 \in 0 .. MaxFd + 1
    BY <1>1, TableFacts, AllocateFdFree
  <1> HIDE DEF new
  <1>3. cloexec' \subseteq Pids \X FdNo /\ nextFd' \in [Pids -> 0 .. MaxFd + 1]
    BY <1>1, <1>2 DEF KInv, TypeOK
  <1> QED
    BY <1>1, <1>2, <1>3, CopyInv

LEMMA DupMinInv ==
    ASSUME KInv, NEW p \in Pids, NEW fd \in FdNo, NEW min \in FdNo, NEW c \in BOOLEAN,
           DupMin(p, fd, min, c)
    PROVE  KInv'
  <1> DEFINE new == AllocateFd(table[p], min)
  <1>1. /\ state[p] = "running" /\ table[p][fd] # NoDesc /\ new \in FdNo
        /\ table' = [table EXCEPT ![p][new] = table[p][fd]]
        /\ cloexec' = IF c THEN cloexec \cup {<<p, new>>} ELSE cloexec \ {<<p, new>>}
        /\ refCount' = [refCount EXCEPT ![table[p][fd]] = @ + 1]
        /\ UNCHANGED <<state, nextFd, descs, ended, locked>>
    BY DEF DupMin, Mark
  <1>2. table[p][new] = NoDesc
    BY <1>1, FiniteTables, AllocateFdFree
  <1> HIDE DEF new
  <1>3. cloexec' \subseteq Pids \X FdNo /\ nextFd' \in [Pids -> 0 .. MaxFd + 1]
    BY <1>1 DEF KInv, TypeOK
  <1> QED
    BY <1>1, <1>2, <1>3, CopyInv

\* An entry gets another description, or none, and what was behind it loses a reference.
LEMMA ReplaceInv ==
    ASSUME KInv, NEW p \in Pids, NEW fd \in FdNo, table' \in [Pids -> Tables],
           \A q \in Pids, g \in FdNo : ~(q = p /\ g = fd) => table'[q][g] = table[q][g],
           state[p] = "running", table'[p][fd] < nextDesc,
           table'[p][fd] \in Desc => refCount[table'[p][fd]] > 0,
           DOMAIN refCount' = Desc, refCount' = [d \in Desc |-> refCount'[d]],
           \A d \in Desc : refCount'[d] = refCount[d] - Hit(table[p][fd], d)
                                            + Hit(table'[p][fd], d),
           cloexec' \subseteq cloexec,
           Released({table[p][fd]} \ {NoDesc}, refCount'),
           UNCHANGED <<state, nextFd, descs>>
    PROVE  KInv'
  <1> DEFINE old == table[p][fd]
             x == table'[p][fd]
  <1>1. /\ table' \in [Pids -> Tables]
        /\ \A q \in Pids, g \in FdNo :
             table'[q][g] = IF q = p /\ g = fd THEN x ELSE table[q][g]
    OBVIOUS
  <1>2. Counted
    BY ONLY KInv, p \in Pids, fd \in FdNo, table' \in [Pids -> Tables],
       \A q \in Pids, g \in FdNo : ~(q = p /\ g = fd) => table'[q][g] = table[q][g],
       DOMAIN refCount' = Desc, refCount' = [d \in Desc |-> refCount'[d]],
       \A d \in Desc : refCount'[d] = refCount[d] - Hit(table[p][fd], d)
                                        + Hit(table'[p][fd], d), EntryStep
  <1>3. Typed
    BY <1>1 DEF KInv, TypeOK, Typed
  <1>4. \A q \in Pids, f \in FdNo : /\ table'[q][f] < nextDesc
                                    /\ state'[q] \in {"none", "exited"} => table'[q][f] = NoDesc
    BY <1>1, TableFacts
  <1>5. old \in Desc \cup {NoDesc} /\ old < nextDesc /\ (old \in Desc => refCount[old] > 0)
        /\ NoDesc \notin Desc
    BY TableFacts, Counts, FiniteTables
  <1> HIDE DEF old, x
  <1>6. /\ ended' = ended \cup {d \in {old} \ {NoDesc} :
                                   refCount'[d] <= 0 /\ kind[d] \in {"pipe", "pty"}}
        /\ locked' = locked \ {d \in {old} \ {NoDesc} : refCount'[d] <= 0}
    BY DEF Released, old
  <1>7. ended' \cup locked' \subseteq Desc /\ \A d \in ended' \cup locked' : d < nextDesc
    BY <1>5, <1>6 DEF KInv, TypeOK, Allocated
  <1>8. ASSUME NEW d \in Desc
        PROVE  /\ refCount[d] = 0 => refCount'[d] = 0
               /\ kind[d] # "file" => (d \in ended' <=>
                    d \in ended \/ (refCount[d] # 0 /\ refCount'[d] = 0))
               /\ d \in locked' /\ kind[d] = "file" => refCount'[d] # 0 \/ d \in late
    <2>1. refCount[d] \in Nat /\ refCount'[d] \in Nat /\ kind[d] \in {"file", "pipe", "pty"}
      BY <1>2 DEF Counted, KInv, TypeOK
    <2>2. d # old => refCount'[d] >= refCount[d] /\ (refCount[d] = 0 => refCount'[d] = 0)
      BY <2>1 DEF Hit, old, x
    <2>3. d \in locked /\ kind[d] = "file" => refCount[d] # 0 \/ d \in late
      BY Counts DEF KInv, LocksWithLast
    <2>4. CASE d = old
      BY <1>5, <1>6, <2>1, <2>3, <2>4
    <2>5. CASE d # old
      BY <1>5, <1>6, <2>1, <2>2, <2>3, <2>5
    <2> QED
      BY <2>4, <2>5
  <1>9. UNCHANGED descs
    OBVIOUS
  <1> QED
    BY ONLY KInv, <1>2, <1>3, <1>4, <1>7, <1>8, <1>9, SharedStep

LEMMA Dup2Inv ==
    ASSUME KInv, NEW p \in Pids, NEW old \in FdNo, NEW new \in FdNo, Dup2(p, old, new)
    PROVE  KInv'
  <1> DEFINE d == table[p][old]
             target == table[p][new]
             closed == IF target = NoDesc THEN refCount ELSE [refCount EXCEPT ![target] = @ - 1]
             refs == [closed EXCEPT ![d] = @ + 1]
  <1>1. /\ state[p] = "running" /\ d # NoDesc
        /\ table' = [table EXCEPT ![p][new] = d]
        /\ cloexec' = cloexec \ {<<p, new>>} /\ refCount' = refs
        /\ Released({target} \ {NoDesc}, refs)
        /\ UNCHANGED <<state, nextFd, descs>>
    BY DEF Dup2
  <1>2. /\ d \in Desc /\ d < nextDesc /\ refCount[d] > 0 /\ target \in Desc \cup {NoDesc}
        /\ refCount \in [Desc -> Nat]
    BY <1>1, TableFacts, Counts
  <1> HIDE DEF d, target
  <1>3. \A e \in Desc : refs[e] = refCount[e] - Hit(target, e) + Hit(d, e)
    BY <1>2, FiniteTables DEF Hit
  <1>4. DOMAIN refs = Desc /\ refs = [e \in Desc |-> refs[e]]
    BY <1>2
  <1> HIDE DEF refs
  <1>5. /\ DOMAIN refCount' = Desc /\ refCount' = [e \in Desc |-> refCount'[e]]
        /\ \A e \in Desc : refCount'[e] = refCount[e] - Hit(target, e) + Hit(d, e)
        /\ Released({target} \ {NoDesc}, refCount')
    BY <1>1, <1>3, <1>4
  <1>6. target = table[p][new] /\ cloexec' \subseteq cloexec
    BY <1>1 DEF target
  <1>7. /\ table' \in [Pids -> Tables] /\ table'[p][new] = d
        /\ \A q \in Pids, g \in FdNo : ~(q = p /\ g = new) => table'[q][g] = table[q][g]
    BY <1>1, <1>2, TableFacts DEF Tables
  <1>8. state[p] = "running" /\ UNCHANGED <<state, nextFd, descs>>
    BY <1>1
  <1> QED
    BY ONLY KInv, p \in Pids, new \in FdNo, <1>2, <1>5, <1>6, <1>7, <1>8, ReplaceInv

LEMMA CloseInv ==
    ASSUME KInv, NEW p \in Pids, NEW fd \in FdNo, Close(p, fd)
    PROVE  KInv'
  <1> DEFINE d == table[p][fd]
             refs == [refCount EXCEPT ![d] = @ - 1]
  <1>1. /\ state[p] = "running" /\ d # NoDesc
        /\ table' = [table EXCEPT ![p][fd] = NoDesc]
        /\ cloexec' = cloexec \ {<<p, fd>>} /\ refCount' = refs
        /\ Released({d}, refs)
        /\ UNCHANGED <<state, nextFd, descs>>
    BY DEF Close
  <1>2. d \in Desc /\ refCount \in [Desc -> Nat] /\ NoDesc < nextDesc
    BY <1>1, TableFacts DEF NoDesc
  <1> HIDE DEF d
  <1>3. \A e \in Desc : refs[e] = refCount[e] - Hit(d, e) + Hit(NoDesc, e)
    BY <1>2, FiniteTables DEF Hit
  <1>4. DOMAIN refs = Desc /\ refs = [e \in Desc |-> refs[e]]
    BY <1>2
  <1> HIDE DEF refs
  <1>5. {d} = {d} \ {NoDesc}
    BY <1>1
  <1>6. /\ DOMAIN refCount' = Desc /\ refCount' = [e \in Desc |-> refCount'[e]]
        /\ \A e \in Desc : refCount'[e] = refCount[e] - Hit(d, e) + Hit(NoDesc, e)
        /\ Released({d} \ {NoDesc}, refCount')
    BY <1>1, <1>3, <1>4, <1>5
  <1>7. d = table[p][fd] /\ cloexec' \subseteq cloexec
    BY <1>1 DEF d
  <1>8. /\ table' \in [Pids -> Tables] /\ table'[p][fd] = NoDesc
        /\ \A q \in Pids, g \in FdNo : ~(q = p /\ g = fd) => table'[q][g] = table[q][g]
    BY <1>1, TableFacts DEF Tables
  <1>9. state[p] = "running" /\ UNCHANGED <<state, nextFd, descs>>
    BY <1>1
  <1>10. NoDesc \notin Desc
    BY FiniteTables
  <1> QED
    BY ONLY KInv, p \in Pids, fd \in FdNo, <1>2, <1>6, <1>7, <1>8, <1>9, <1>10, ReplaceInv

\* Steps that leave tables and counts alone.
LEMMA FlagInv ==
    ASSUME KInv, UNCHANGED <<state, table, nextFd, descs, refCount, ended>>,
           cloexec' \subseteq Pids \X FdNo, locked' \subseteq Desc,
           \A d \in locked' : d \in locked \/ (d < nextDesc /\ refCount[d] # 0)
    PROVE  KInv'
  <1>1. Counted
    BY Counts DEF Counted, KInv, RefCountExact, TypeOK, References
  <1>2. Typed
    BY TableFacts DEF Typed, KInv, TypeOK, Tables
  <1>3. \A q \in Pids, f \in FdNo : /\ table'[q][f] < nextDesc
                                    /\ state'[q] \in {"none", "exited"} => table'[q][f] = NoDesc
    BY DEF KInv, Allocated
  <1>4. ended' \cup locked' \subseteq Desc /\ \A d \in ended' \cup locked' : d < nextDesc
    BY DEF KInv, TypeOK, Allocated
  <1>5. \A d \in Desc : /\ refCount[d] = 0 => refCount'[d] = 0
                        /\ kind[d] # "file" => (d \in ended' <=>
                             d \in ended \/ (refCount[d] # 0 /\ refCount'[d] = 0))
                        /\ d \in locked' /\ kind[d] = "file" => refCount'[d] # 0 \/ d \in late
    BY Counts DEF KInv, LocksWithLast
  <1>6. UNCHANGED descs
    OBVIOUS
  <1> QED
    BY ONLY KInv, <1>1, <1>2, <1>3, <1>4, <1>5, <1>6, SharedStep

LEMMA SetCloexecInv ==
    ASSUME KInv, NEW p \in Pids, NEW fd \in FdNo, NEW c \in BOOLEAN, SetCloexec(p, fd, c)
    PROVE  KInv'
  <1>1. /\ cloexec' \subseteq Pids \X FdNo /\ locked' \subseteq Desc
        /\ \A d \in locked' : d \in locked
    BY DEF SetCloexec, Mark, KInv, TypeOK
  <1>2. UNCHANGED <<state, table, nextFd, descs, refCount, ended>>
    BY DEF SetCloexec
  <1>3. \A d \in locked' : d \in locked \/ (d < nextDesc /\ refCount[d] # 0)
    BY <1>1
  <1> QED
    BY ONLY KInv, <1>1, <1>2, <1>3, FlagInv

LEMMA FlockInv ==
    ASSUME KInv, NEW p \in Pids, NEW fd \in FdNo, Flock(p, fd) \/ FlockUn(p, fd)
    PROVE  KInv'
  <1>1. UNCHANGED <<state, table, cloexec, nextFd, descs, refCount, ended>>
    BY DEF Flock, FlockUn
  <1>2. CASE Flock(p, fd)
    <2>1. table[p][fd] \in Desc /\ table[p][fd] < nextDesc /\ refCount[table[p][fd]] # 0
      BY <1>2, TableFacts, Counts DEF Flock
    <2>2. locked' = locked \cup {table[p][fd]}
      BY <1>2 DEF Flock
    <2> QED
      BY <1>1, <2>1, <2>2, FlagInv DEF KInv, TypeOK
  <1>3. CASE FlockUn(p, fd)
    <2>1. locked' = locked \ {table[p][fd]}
      BY <1>3 DEF FlockUn
    <2> QED
      BY <1>1, <2>1, FlagInv DEF KInv, TypeOK
  <1> QED
    BY <1>2, <1>3

\* A flock that waits, or goes on: the lock of a description without a reference is late.
LEMMA FlockAwaitInv ==
    ASSUME KInv, UNCHANGED <<state, table, cloexec, nextFd, nextDesc, kind, pair, refCount,
                             ended, stranded>>,
           NEW d \in Desc, d < nextDesc, NEW e \in Desc, NEW A,
           A \subseteq waiting \cup {<<d, e>>}, waiting' = A,
           \/ UNCHANGED <<locked, late>>
           \/ locked' = locked \cup {d} /\ late' = IF refCount[d] = 0 THEN late \cup {d} ELSE late
    PROVE  KInv'
  <1>1. late \subseteq late' /\ locked' \subseteq Desc /\ late' \subseteq Desc
        /\ \A g \in locked' : g \in locked \/ g = d
    BY DEF KInv, TypeOK
  <1>2. \A x \in Desc : References(x)' = References(x)
    BY DEF References
  <1>3. TypeOK'
    BY <1>1 DEF KInv, TypeOK
  <1>4. Allocated' /\ Paired' /\ RefCountExact'
    BY <1>1, <1>2 DEF KInv, Allocated, Paired, RefCountExact
  <1>5. EndsWithLast'
    BY <1>2 DEF KInv, EndsWithLast
  <1>6. LocksWithLast'
    <2> SUFFICES ASSUME NEW g \in locked', kind[g] = "file"
                 PROVE  References(g) # {} \/ g \in late'
      BY <1>1, <1>2 DEF LocksWithLast
    <2>1. CASE g \in locked
      BY <1>1, <2>1 DEF KInv, LocksWithLast
    <2>2. CASE g \notin locked
      <3>1. g = d /\ (refCount[d] = 0 => d \in late')
        BY <1>1, <2>2
      <3>2. refCount[d] = 0 <=> References(d) = {}
        BY Counts
      <3> QED
        BY <3>1, <3>2
    <2> QED
      BY <2>1, <2>2
  <1> QED
    BY <1>3, <1>4, <1>5, <1>6 DEF KInv

LEMMA FlockWaitsInv ==
    ASSUME KInv, NEW p \in Pids, NEW fd \in FdNo, NEW e \in Desc, FlockWaits(p, fd, e)
    PROVE  KInv'
  <1>1. table[p][fd] \in Desc /\ table[p][fd] < nextDesc
    BY TableFacts DEF FlockWaits
  <1> QED
    BY <1>1, FlockAwaitInv DEF FlockWaits

LEMMA FlockResumesInv ==
    ASSUME KInv, NEW d \in Desc, NEW e \in Desc, FlockResumes(d, e)
    PROVE  KInv'
  <1>1. d < nextDesc
    BY DEF FlockResumes, KInv, Allocated
  <1>2. CASE waiting' = waiting \ {<<d, e>>}
    BY <1>1, <1>2, FlockAwaitInv DEF FlockResumes
  <1>3. CASE waiting' # waiting \ {<<d, e>>}
    <2>1. PICK g \in locked : waiting' = (waiting \ {<<d, e>>}) \cup {<<d, g>>}
      BY <1>3 DEF FlockResumes
    <2>2. g \in Desc /\ UNCHANGED <<locked, late>>
      BY <1>3 DEF FlockResumes, KInv, TypeOK
    <2> QED
      BY <1>1, <2>1, <2>2, FlockAwaitInv DEF FlockResumes
  <1> QED
    BY <1>2, <1>3

\* spawn: the child's table leads only where the caller's does.
LEMMA ChildEntries ==
    ASSUME KInv, NEW p \in Pids, NEW ov \in [Stdio -> FdNo \cup {Unset}]
    PROVE  /\ ChildTable(p, ov) \in Tables
           /\ \A f \in FdNo : ChildTable(p, ov)[f] = NoDesc
                                \/ \E g \in FdNo : ChildTable(p, ov)[f] = table[p][g]
  <1> DEFINE t == Overridden(p, Forked(p), ov)
             From(x) == x = NoDesc \/ \E g \in FdNo : x = table[p][g]
  <1>1. ASSUME NEW x, From(x) PROVE x \in Desc \cup {NoDesc}
    BY <1>1, TableFacts
  <1>2. Forked(p) = [f \in FdNo |-> Forked(p)[f]] /\ \A f \in FdNo : From(Forked(p)[f])
    BY DEF Forked
  <1>3. t = [f \in FdNo |-> t[f]]
    BY DEF Overridden
  <1>4. \A f \in FdNo : From(t[f])
    BY <1>2 DEF Overridden, Used
  <1> HIDE DEF t, From
  <1>5. /\ ChildTable(p, ov) = [f \in FdNo |-> ChildTable(p, ov)[f]]
        /\ \A f \in FdNo : From(ChildTable(p, ov)[f])
    <2> DEFINE r == [f \in FdNo |-> IF f \in Counterparts(t) THEN NoDesc ELSE t[f]]
    <2>1. ChildTable(p, ov) = Forked(p) \/ ChildTable(p, ov) = r
      BY DEF ChildTable, t
    <2>2. From(NoDesc)
      BY DEF From
    <2>3. r = [f \in FdNo |-> r[f]] /\ \A f \in FdNo : From(r[f])
      BY <1>4, <2>2
    <2> HIDE DEF r
    <2> QED
      BY <1>2, <2>1, <2>3
  <1> HIDE DEF From
  <1>6. \A f \in FdNo : ChildTable(p, ov)[f] \in Desc \cup {NoDesc}
    BY <1>1, <1>5
  <1>7. ChildTable(p, ov) \in Tables
    BY <1>5, <1>6 DEF Tables
  <1> QED
    BY <1>5, <1>7 DEF From

LEMMA SpawnInv ==
    ASSUME KInv, NEW p \in Pids, NEW c \in Pids, NEW ov \in [Stdio -> FdNo \cup {Unset}],
           NEW ok \in BOOLEAN, Spawn(p, c, ov, ok)
    PROVE  KInv'
  <1> DEFINE t == ChildTable(p, ov)
  <1>1. /\ state[p] = "running" /\ state[c] = "none"
        /\ table' = [table EXCEPT ![c] = t]
        /\ nextFd' = [nextFd EXCEPT ![c] = nextFd[p]]
        /\ refCount' = [d \in Desc |-> refCount[d] + Cardinality(Leading(t, d))]
        /\ state' = [state EXCEPT ![c] = IF ok THEN "running" ELSE "orphan"]
        /\ UNCHANGED <<cloexec, descs, ended, locked>>
    BY DEF Spawn, CountedIn, Leading
  <1>2. t \in Tables /\ \A f \in FdNo : t[f] = NoDesc \/ \E g \in FdNo : t[f] = table[p][g]
    BY ChildEntries
  <1> HIDE DEF t
  <1>3. /\ table' \in [Pids -> Tables] /\ table'[c] = t
        /\ \A q \in Pids : q # c => table'[q] = table[q]
    BY <1>1, <1>2, TableFacts
  <1>4. \A d \in Desc : /\ refCount[d] \in Nat /\ Cardinality(Leading(t, d)) \in Nat
                        /\ refCount'[d] = refCount[d] + Cardinality(Leading(t, d))
                        /\ Cardinality(Leading(table[c], d)) = 0
    <2>1. \A f \in FdNo : table[c][f] = NoDesc
      BY <1>1, TableFacts
    <2> QED
      BY <1>1, <2>1, LeadingCount, FiniteTables, TableFacts
  <1>5. \A d \in Desc : refCount'[d] = refCount[d]
          - Cardinality(Leading(table[c], d)) + Cardinality(Leading(table'[c], d))
    BY <1>3, <1>4
  <1>6. DOMAIN refCount' = Desc /\ refCount' = [d \in Desc |-> refCount'[d]]
    BY <1>1
  <1>7. Counted
    BY ONLY KInv, c \in Pids, <1>3, <1>5, <1>6, CountStep
  <1>8. Typed
    BY <1>1, <1>3 DEF KInv, TypeOK, Typed
  <1>9. \A q \in Pids, f \in FdNo : /\ table'[q][f] < nextDesc
                                    /\ state'[q] \in {"none", "exited"} => table'[q][f] = NoDesc
    <2> SUFFICES ASSUME NEW q \in Pids, NEW f \in FdNo
                 PROVE  /\ table'[q][f] < nextDesc
                        /\ state'[q] \in {"none", "exited"} => table'[q][f] = NoDesc
      OBVIOUS
    <2>1. CASE q = c
      <3>1. state'[c] \notin {"none", "exited"}
        BY <1>1 DEF KInv, TypeOK
      <3>2. t[f] < nextDesc
        BY <1>2, TableFacts DEF NoDesc
      <3> QED
        BY <1>3, <2>1, <3>1, <3>2
    <2>2. CASE q # c
      BY <1>1, <1>3, <2>2, TableFacts DEF KInv, TypeOK
    <2> QED
      BY <2>1, <2>2
  <1>10. ended' \cup locked' \subseteq Desc /\ \A d \in ended' \cup locked' : d < nextDesc
    BY <1>1 DEF KInv, TypeOK, Allocated
  <1>11. \A d \in Desc : /\ refCount[d] = 0 <=> refCount'[d] = 0
                         /\ d \in locked /\ kind[d] = "file" => refCount[d] # 0 \/ d \in late
    <2> SUFFICES ASSUME NEW d \in Desc
                 PROVE  /\ refCount[d] = 0 <=> refCount'[d] = 0
                        /\ d \in locked /\ kind[d] = "file" => refCount[d] # 0 \/ d \in late
      OBVIOUS
    <2>1. refCount[d] = 0 => Cardinality(Leading(t, d)) = 0
      BY <1>2, LeadingCount, Counts, FiniteTables
    <2>2. d \in locked /\ kind[d] = "file" => refCount[d] # 0 \/ d \in late
      BY Counts DEF KInv, LocksWithLast
    <2> QED
      BY <1>4, <2>1, <2>2
  <1>12. \A d \in Desc : /\ refCount[d] = 0 => refCount'[d] = 0
                         /\ kind[d] # "file" => (d \in ended' <=>
                              d \in ended \/ (refCount[d] # 0 /\ refCount'[d] = 0))
                         /\ d \in locked' /\ kind[d] = "file" => refCount'[d] # 0 \/ d \in late
    BY <1>1, <1>11
  <1>13. UNCHANGED descs
    BY <1>1
  <1> QED
    BY ONLY KInv, <1>7, <1>8, <1>9, <1>10, <1>12, <1>13, SharedStep

LEMMA SpawnHostInv ==
    ASSUME KInv, NEW c \in Pids, SpawnHost(c)
    PROVE  KInv'
  <1> DEFINE t == [f \in FdNo |-> IF f \in Stdio THEN nextDesc + f ELSE NoDesc]
  <1>1. /\ state[c] = "none" /\ NewDescs(NStdio, "file")
        /\ table' = [table EXCEPT ![c] = t]
        /\ nextFd' = [nextFd EXCEPT ![c] = NStdio]
        /\ refCount' = [d \in Desc |-> IF d \in nextDesc .. nextDesc + NStdio - 1
                                         THEN 1 ELSE refCount[d]]
        /\ state' = [state EXCEPT ![c] = "running"]
        /\ UNCHANGED <<cloexec, ended, locked, stranded, waits>>
    BY DEF SpawnHost
  <1>2. /\ nextDesc \in Nat \ {0} /\ NStdio \in Nat \ {0} /\ Desc \subseteq Nat \ {0}
        /\ nextDesc + NStdio <= MaxDesc + 1 /\ NStdio <= MaxFd /\ MaxDesc \in Nat /\ MaxFd \in Nat
    BY <1>1, TableFacts, FDAssumption DEF NewDescs
  <1>3. \A f \in FdNo : /\ f \in Nat /\ (f \in Stdio <=> f < NStdio)
                        /\ t[f] = IF f < NStdio THEN nextDesc + f ELSE NoDesc
    BY <1>2 DEF FdNo, Stdio
  <1>4. t \in Tables
    <2>1. \A f \in FdNo : f \in Stdio => nextDesc + f \in Desc
      BY <1>2, <1>3 DEF Desc
    <2> QED
      BY <2>1 DEF Tables
  <1> HIDE DEF t
  <1>5. /\ table' \in [Pids -> Tables] /\ table'[c] = t
        /\ \A q \in Pids : q # c => table'[q] = table[q]
    BY <1>1, <1>4, TableFacts
  <1>6. \A d \in Desc : refCount'[d] = refCount[d]
          - Cardinality(Leading(table[c], d)) + Cardinality(Leading(table'[c], d))
    <2> SUFFICES ASSUME NEW d \in Desc
                 PROVE  refCount'[d] = refCount[d] - Cardinality(Leading(table[c], d))
                                                   + Cardinality(Leading(t, d))
      BY <1>5
    <2>1. Cardinality(Leading(table[c], d)) = 0 /\ refCount[d] \in Nat
      BY <1>1, LeadingCount, FiniteTables, TableFacts
    <2>2. CASE d >= nextDesc /\ d < nextDesc + NStdio
      <3>1. refCount[d] = 0 /\ refCount'[d] = 1
        BY <1>1, <1>2, <2>2, FreshCount
      <3>2. Leading(t, d) = {d - nextDesc}
        BY <1>2, <1>3, <2>2 DEF Leading, FdNo, NoDesc
      <3>3. Cardinality(Leading(t, d)) = 1
        BY <3>2, FS_Singleton
      <3> QED
        BY <2>1, <3>1, <3>3
    <2>3. CASE ~(d >= nextDesc /\ d < nextDesc + NStdio)
      <3>1. refCount'[d] = refCount[d]
        BY <1>1, <1>2, <2>3
      <3>2. \A f \in FdNo : t[f] # d
        BY <1>2, <1>3, <2>3 DEF NoDesc
      <3>3. Cardinality(Leading(t, d)) = 0
        BY <3>2, LeadingCount
      <3> QED
        BY <2>1, <3>1, <3>3
    <2> QED
      BY <2>2, <2>3
  <1>7. DOMAIN refCount' = Desc /\ refCount' = [d \in Desc |-> refCount'[d]]
    BY <1>1
  <1>8. Counted
    BY ONLY KInv, c \in Pids, <1>5, <1>6, <1>7, CountStep
  <1>9. Typed
    BY <1>1, <1>2, <1>5 DEF KInv, TypeOK, Typed
  <1>10. stranded' \subseteq Desc /\ \A d \in stranded' : d < nextDesc + NStdio
    BY <1>1, <1>2 DEF KInv, TypeOK, Allocated
  <1>11. \A q \in Pids, f \in FdNo : /\ table'[q][f] < nextDesc + NStdio
                                     /\ state'[q] \in {"none", "exited"} => table'[q][f] = NoDesc
    <2> SUFFICES ASSUME NEW q \in Pids, NEW f \in FdNo
                 PROVE  /\ table'[q][f] < nextDesc + NStdio
                        /\ state'[q] \in {"none", "exited"} => table'[q][f] = NoDesc
      OBVIOUS
    <2>1. CASE q = c
      <3>1. state'[c] \notin {"none", "exited"}
        BY <1>1 DEF KInv, TypeOK
      <3> QED
        BY <1>2, <1>3, <1>5, <2>1, <3>1 DEF NoDesc
    <2>2. CASE q # c
      BY <1>1, <1>2, <1>5, <2>2, TableFacts DEF KInv, TypeOK
    <2> QED
      BY <2>1, <2>2
  <1>12. \A d \in Desc : d < nextDesc => refCount'[d] = refCount[d]
    BY <1>1, <1>2
  <1>13. NewDescs(NStdio, "file") /\ UNCHANGED <<ended, locked>> /\ UNCHANGED waits /\ stranded \subseteq stranded'
    BY <1>1
  <1>14. NStdio \in Nat \ {0} /\ "file" \in {"file", "pipe", "pty"}
    BY <1>2
  <1>15. \A d \in Desc : d >= nextDesc /\ d < nextDesc + NStdio =>
                           refCount'[d] # 0 \/ "file" = "file" \/ d \in stranded'
    OBVIOUS
  <1> QED
    BY ONLY KInv, <1>8, <1>9, <1>10, <1>11, <1>12, <1>13, <1>14, <1>15, AllocateStep

\* The end of a process: every end and lock whose last descriptors were all its own goes.
LEMMA ExitInv ==
    ASSUME KInv, NEW p \in Pids, Exit(p)
    PROVE  KInv'
  <1> DEFINE t == [f \in FdNo |-> NoDesc]
             last == {table[p][f] : f \in Used(table[p])}
             gone == {d \in last : refCount'[d] <= 0}
             ends == {d \in gone : kind[d] \in {"pipe", "pty"}}
  <1>1. /\ state[p] = "running" /\ state' = [state EXCEPT ![p] = "exited"]
        /\ table' = [table EXCEPT ![p] = t]
        /\ cloexec' \subseteq cloexec
        /\ nextFd' = [nextFd EXCEPT ![p] = NStdio]
        /\ refCount' = [d \in Desc |-> refCount[d] - Cardinality(Leading(table[p], d))]
        /\ UNCHANGED descs
    BY DEF Exit, CountedOut, Leading
  <1>2. ended' = ended \cup ends /\ locked' = locked \ (gone \ ends)
    BY DEF Exit, Swept
  <1>3. t \in Tables /\ \A f \in FdNo : t[f] = NoDesc
    BY DEF Tables
  <1>4. \A d : d \in last <=> d # NoDesc /\ \E f \in FdNo : table[p][f] = d
    BY DEF Used
  <1>5. \A d : /\ d \in gone <=> d \in last /\ refCount'[d] <= 0
               /\ d \in ends <=> d \in gone /\ kind[d] \in {"pipe", "pty"}
    OBVIOUS
  <1> HIDE DEF t, last, gone, ends
  <1>6. /\ table' \in [Pids -> Tables] /\ table'[p] = t
        /\ \A q \in Pids : q # p => table'[q] = table[q]
    BY <1>1, <1>3, TableFacts
  <1>7. \A d \in Desc : /\ refCount[d] \in Nat /\ Cardinality(Leading(table[p], d)) \in Nat
                        /\ refCount'[d] = refCount[d] - Cardinality(Leading(table[p], d))
                        /\ Cardinality(Leading(t, d)) = 0
                        /\ Cardinality(Leading(table[p], d)) = 0 <=> \A f \in FdNo : table[p][f] # d
    BY <1>1, <1>3, LeadingCount, FiniteTables, TableFacts
  <1>8. \A d \in Desc : refCount'[d] = refCount[d]
          - Cardinality(Leading(table[p], d)) + Cardinality(Leading(table'[p], d))
    BY <1>6, <1>7
  <1>9. DOMAIN refCount' = Desc /\ refCount' = [d \in Desc |-> refCount'[d]]
    BY <1>1
  <1>10. Counted
    BY ONLY KInv, p \in Pids, <1>6, <1>8, <1>9, CountStep
  <1>11. Typed
    <2>1. NStdio \in 0 .. MaxFd + 1
      BY FDAssumption
    <2> QED
      BY <1>1, <1>6, <2>1 DEF KInv, TypeOK, Typed
  <1>12. \A q \in Pids, f \in FdNo : /\ table'[q][f] < nextDesc
                                     /\ state'[q] \in {"none", "exited"} => table'[q][f] = NoDesc
    <2> SUFFICES ASSUME NEW q \in Pids, NEW f \in FdNo
                 PROVE  /\ table'[q][f] < nextDesc
                        /\ state'[q] \in {"none", "exited"} => table'[q][f] = NoDesc
      OBVIOUS
    <2>1. CASE q = p
      BY <1>3, <1>6, <2>1, TableFacts DEF NoDesc
    <2>2. CASE q # p
      BY <1>1, <1>6, <2>2, TableFacts DEF KInv, TypeOK
    <2> QED
      BY <2>1, <2>2
  <1>13. \A d \in last : d \in Desc /\ d < nextDesc /\ refCount[d] > 0
    BY <1>4, TableFacts, Counts
  <1>14. ended' \cup locked' \subseteq Desc /\ \A d \in ended' \cup locked' : d < nextDesc
    BY <1>2, <1>5, <1>13 DEF KInv, TypeOK, Allocated
  <1>15. ASSUME NEW d \in Desc
         PROVE  /\ refCount[d] = 0 => refCount'[d] = 0
                /\ kind[d] # "file" => (d \in ended' <=>
                     d \in ended \/ (refCount[d] # 0 /\ refCount'[d] = 0))
                /\ d \in locked' /\ kind[d] = "file" => refCount'[d] # 0 \/ d \in late
    <2>1. refCount'[d] \in Nat /\ kind[d] \in {"file", "pipe", "pty"}
      BY <1>10 DEF Counted, KInv, TypeOK
    <2>2. refCount'[d] = 0 /\ refCount[d] # 0 => d \in last
      BY <1>4, <1>7, FiniteTables
    <2>3. refCount[d] = 0 => refCount'[d] = 0
      BY <1>7, <2>1
    <2>4. d \in locked /\ kind[d] = "file" => refCount[d] # 0 \/ d \in late
      BY Counts DEF KInv, LocksWithLast
    <2>5. d \in last => refCount[d] # 0
      BY <1>13
    <2>6. d \in gone <=> refCount[d] # 0 /\ refCount'[d] = 0
      BY <1>5, <2>1, <2>2, <2>5
    <2> QED
      BY <1>2, <1>5, <2>1, <2>3, <2>4, <2>6
  <1>16. UNCHANGED descs
    BY <1>1
  <1> QED
    BY ONLY KInv, <1>10, <1>11, <1>12, <1>14, <1>15, <1>16, SharedStep

----------------------------------------------------------------------------
(* The theorems *)

LEMMA InitInv == Init => KInv
  <1> SUFFICES ASSUME Init PROVE KInv
    OBVIOUS
  <1>1. TypeOK
    BY FDAssumption DEF Init, TypeOK, FdNo, Desc, NoDesc
  <1>2. Allocated /\ Paired
    BY FDAssumption DEF Init, Allocated, Paired, NoDesc
  <1>3. ASSUME NEW d \in Desc PROVE References(d) = {}
    BY FiniteTables DEF Init, References
  <1>4. RefCountExact
    <2>1. Cardinality({}) = 0
      BY FS_EmptySet
    <2> QED
      BY <1>3, <2>1 DEF Init, RefCountExact
  <1>5. EndsWithLast /\ LocksWithLast
    BY DEF Init, EndsWithLast, LocksWithLast
  <1> QED
    BY <1>1, <1>2, <1>4, <1>5 DEF KInv

LEMMA NextInv == KInv /\ [Next]_vars => KInv'
  <1> SUFFICES ASSUME KInv, [Next]_vars PROVE KInv'
    OBVIOUS
  <1>1. CASE UNCHANGED vars
    <2>1. UNCHANGED <<state, table, nextFd, descs, refCount, ended>> /\ UNCHANGED <<cloexec, locked>>
      BY <1>1 DEF vars, descs, waits
    <2>2. /\ cloexec' \subseteq Pids \X FdNo /\ locked' \subseteq Desc
          /\ \A d \in locked' : d \in locked \/ (d < nextDesc /\ refCount[d] # 0)
      BY <2>1 DEF KInv, TypeOK
    <2> QED
      BY ONLY KInv, <2>1, <2>2, FlagInv
  <1>2. ASSUME NEW d \in Desc, NEW e \in Desc, FlockResumes(d, e) PROVE KInv'
    BY <1>2, FlockResumesInv
  <1>3. CASE Next /\ ~ \E d, e \in Desc : FlockResumes(d, e)
    <2> PICK p \in Pids :
          \/ SpawnHost(p)
          \/ Exit(p)
          \/ \E c \in BOOLEAN : Open(p, c)
          \/ \E k \in {"pipe", "pty"} : CreatePair(p, k) \/ CreatePairFails(p, k)
          \/ \E fd \in FdNo :
               \/ Dup(p, fd) \/ Close(p, fd) \/ Flock(p, fd) \/ FlockUn(p, fd)
               \/ \E e \in Desc : FlockWaits(p, fd, e)
               \/ \E c \in BOOLEAN : SetCloexec(p, fd, c)
               \/ \E min \in FdNo, c \in BOOLEAN : DupMin(p, fd, min, c)
               \/ \E new \in FdNo : Dup2(p, fd, new)
          \/ \E c \in Pids, ov \in [Stdio -> FdNo \cup {Unset}], ok \in BOOLEAN :
               Spawn(p, c, ov, ok)
      BY <1>3, Zenon DEF Next
    <2>1. CASE SpawnHost(p)
      BY <2>1, SpawnHostInv
    <2>2. CASE Exit(p)
      BY <2>2, ExitInv
    <2>3. ASSUME NEW c \in BOOLEAN, Open(p, c) PROVE KInv'
      BY <2>3, OpenInv
    <2>4. ASSUME NEW k \in {"pipe", "pty"}, CreatePair(p, k) PROVE KInv'
      BY <2>4, CreatePairInv
    <2>5. ASSUME NEW k \in {"pipe", "pty"}, CreatePairFails(p, k) PROVE KInv'
      BY <2>5, CreatePairFailsInv
    <2>6. ASSUME NEW fd \in FdNo, Dup(p, fd) PROVE KInv'
      BY <2>6, DupInv
    <2>7. ASSUME NEW fd \in FdNo, Close(p, fd) PROVE KInv'
      BY <2>7, CloseInv
    <2>8. ASSUME NEW fd \in FdNo, Flock(p, fd) \/ FlockUn(p, fd) PROVE KInv'
      BY <2>8, FlockInv
    <2>9. ASSUME NEW fd \in FdNo, NEW c \in BOOLEAN, SetCloexec(p, fd, c) PROVE KInv'
      BY <2>9, SetCloexecInv
    <2>10. ASSUME NEW fd \in FdNo, NEW min \in FdNo, NEW c \in BOOLEAN, DupMin(p, fd, min, c)
           PROVE  KInv'
      BY <2>10, DupMinInv
    <2>11. ASSUME NEW fd \in FdNo, NEW new \in FdNo, Dup2(p, fd, new) PROVE KInv'
      BY <2>11, Dup2Inv
    <2>12. ASSUME NEW c \in Pids, NEW ov \in [Stdio -> FdNo \cup {Unset}], NEW ok \in BOOLEAN,
                  Spawn(p, c, ov, ok)
           PROVE  KInv'
      BY <2>12, SpawnInv
    <2>13. ASSUME NEW fd \in FdNo, NEW e \in Desc, FlockWaits(p, fd, e) PROVE KInv'
      BY <2>13, FlockWaitsInv
    <2> QED
      BY <2>1, <2>2, <2>3, <2>4, <2>5, <2>6, <2>7, <2>8, <2>9, <2>10, <2>11, <2>12, <2>13
  <1> QED
    BY <1>1, <1>2, <1>3

LEMMA AlwaysKInv == Spec => []KInv
  <1>1. Init => KInv
    BY InitInv
  <1>2. KInv /\ [Next]_vars => KInv'
    BY NextInv
  <1> QED
    BY <1>1, <1>2, PTL DEF Spec

\* Every table entry, count and set of the kernel stays in its type: in particular no mix
\* of close, dup2 and exit takes a reference count below zero.
THEOREM DescriptorTypes == Spec => []TypeOK
  <1>1. KInv => TypeOK
    BY DEF KInv
  <1> QED
    BY <1>1, AlwaysKInv, PTL

\* The reference count of a description is the number of descriptors that lead to it, over
\* the tables of all processes (FileDescription.refCount in fd-table.ts).
THEOREM CountsExact == Spec => []RefCountExact
  <1>1. KInv => RefCountExact
    BY DEF KInv
  <1> QED
    BY <1>1, AlwaysKInv, PTL

\* What a table leads to is held by a running process or lies in an orphan table.
LEMMA Holders ==
    ASSUME KInv, NEW d \in Desc, References(d) # {}
    PROVE  HeldIn(d, "running") \/ HeldIn(d, "orphan")
  <1>1. PICK e \in Pids \X FdNo : table[e[1]][e[2]] = d
    BY DEF References
  <1>2. e \in References(d) /\ d # NoDesc
    BY <1>1, FiniteTables DEF References
  <1>3. state[e[1]] \notin {"none", "exited"}
    BY <1>1, <1>2 DEF KInv, Allocated
  <1>4. state[e[1]] \in {"none", "running", "exited", "orphan"}
    BY <1>1 DEF KInv, TypeOK
  <1> QED
    BY <1>2, <1>3, <1>4 DEF HeldIn

\* A pipe or PTY end is closed when the last descriptor of it goes, by fdClose, fdDup2 or
\* the exit of a process, and not before; until then a running process holds it, or the
\* table of a failed spawn does.  Not meant are ends a failed pipe() never installed.
THEOREM EndsClosedWithLast == Spec => []EndsFollowReferences
  <1>1. KInv => EndsFollowReferences
    <2> SUFFICES ASSUME KInv, NEW d \in Desc \ stranded, d < nextDesc, kind[d] # "file"
                 PROVE  /\ d \in ended => References(d) = {}
                        /\ d \notin ended => HeldIn(d, "running") \/ HeldIn(d, "orphan")
      BY DEF EndsFollowReferences
    <2>1. d \in ended <=> References(d) = {}
      BY DEF KInv, EndsWithLast
    <2> QED
      BY <2>1, Holders
  <1> QED
    BY <1>1, AlwaysKInv, PTL

\* No lock of a file outlives the last descriptor of its description, unless a flock that
\* was still waiting then is granted it afterwards.
THEOREM LocksReleasedWithLast == Spec => []LocksFollowReferences
  <1>1. KInv => LocksFollowReferences
    <2> SUFFICES ASSUME KInv, NEW d \in locked, kind[d] = "file", d \notin late
                 PROVE  HeldIn(d, "running") \/ HeldIn(d, "orphan")
      BY DEF LocksFollowReferences
    <2>1. d \in Desc /\ References(d) # {}
      BY DEF KInv, TypeOK, LocksWithLast
    <2> QED
      BY <2>1, Holders
  <1> QED
    BY <1>1, AlwaysKInv, PTL

\* What createChildFDTable leaves above stdio when the caller overrides a stream.
LEMMA NoCounterpartLeft ==
    ASSUME KInv, NEW c \in Pids, NEW p \in Pids, NEW ov \in [Stdio -> FdNo \cup {Unset}],
           NEW ok \in BOOLEAN, Spawn(p, c, ov, ok), \E s \in Stdio : ov[s] # Unset,
           NEW f \in Used(table'[c]) \ Stdio, NEW s \in Used(table'[c]) \cap Stdio,
           kind[table'[c][s]] = "pipe"
    PROVE  pair[table'[c][f]] # pair[table'[c][s]]
  <1> DEFINE t == Overridden(p, Forked(p), ov)
             r == [g \in FdNo |-> IF g \in Counterparts(t) THEN NoDesc ELSE t[g]]
  <1>1. ChildTable(p, ov) = r
    BY DEF ChildTable
  <1>2. table'[c] = r /\ r \in Tables
    <2>1. table'[c] = ChildTable(p, ov)
      BY TableFacts DEF Spawn
    <2>2. ChildTable(p, ov) \in Tables
      BY ChildEntries
    <2> QED
      BY <1>1, <2>1, <2>2
  <1>3. f \in FdNo /\ f \notin Stdio /\ r[f] # NoDesc /\ s \in FdNo /\ s \in Stdio /\ r[s] # NoDesc
    BY <1>2 DEF Used
  <1>4. r[f] = t[f] /\ f \notin Counterparts(t) /\ r[s] = t[s]
    BY <1>3
  <1>5. t[f] \in Desc /\ t[s] \in Desc
    BY <1>2, <1>3, <1>4 DEF Tables
  <1> HIDE DEF t, r
  <1>6. ~(kind[t[f]] = "pipe" /\ pair[t[s]] = pair[t[f]])
    BY <1>2, <1>3, <1>4 DEF Counterparts
  <1>7. pair[t[s]] = pair[t[f]] => kind[t[s]] = kind[t[f]]
    BY <1>5 DEF KInv, Paired
  <1> QED
    BY <1>2, <1>4, <1>6, <1>7

\* A child whose standard streams the caller overrides never holds, above stdio, an end of
\* a pipe that is one of its standard streams.
THEOREM StdioPipesNotSelfHeld == Spec => NoSelfHeldPipe
  <1> DEFINE A == \A c \in Pids : state'[c] # state[c] =>
         \A p \in Pids, ov \in [Stdio -> FdNo \cup {Unset}], ok \in BOOLEAN :
           (Spawn(p, c, ov, ok) /\ \E s \in Stdio : ov[s] # Unset) =>
             \A f \in Used(table'[c]) \ Stdio, s \in Used(table'[c]) \cap Stdio :
               kind[table'[c][s]] = "pipe" =>
                 pair[table'[c][f]] # pair[table'[c][s]]
  <1>1. KInv => [A]_vars
    BY NoCounterpartLeft
  <1>2. Spec => [][A]_vars
    BY <1>1, AlwaysKInv, PTL
  <1> QED
    BY <1>2 DEF NoSelfHeldPipe

=============================================================================
