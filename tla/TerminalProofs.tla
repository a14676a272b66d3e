--------------------------- MODULE TerminalProofs ---------------------------
(***************************************************************************)
(* Proofs about Terminal, for any processes, limits and modes: the buffers *)
(* stay within their limit, no read waits for what is there, and no byte   *)
(* of output is lost or duplicated on its way to the host.                 *)
(***************************************************************************)
EXTENDS Terminal, SequenceTheorems, WellFoundedInduction, TLAPS

\* A set of naturals that is not empty has a least element.
LEMMA LeastNatural ==
    ASSUME NEW S \in SUBSET Nat, S # {}
    PROVE  \E x \in S : \A y \in S : x <= y
  <1> DEFINE less == {e \in Nat \X Nat : e[1] < e[2]}
  <1>1. IsWellFoundedOn(less, Nat)
    BY NatLessThanWellFounded DEF OpToRel
  <1> HIDE DEF less
  <1>2. PICK x \in S : \A y \in S : ~(<<y, x>> \in less)
    BY <1>1, WFMin, Zenon
  <1>3. ASSUME NEW y \in S PROVE x <= y
    <2>1. x \in Nat /\ y \in Nat /\ ~(y < x)
      BY <1>2 DEF less
    <2> QED
      BY <2>1
  <1> QED
    BY <1>3

----------------------------------------------------------------------------
(* The inductive invariant *)

\* The pump holds bytes only while it has some to deliver, and it reads as long as
\* the master is open.
PumpState ==
    /\ pump # "got" => got = 0
    /\ ~master => pump = "stopped"

\* A line outgrows MAX_CANON only by newlines that could not be delivered.
LineBounded == line <= MaxCanon + calls

TInv == TypeOK /\ PumpState /\ LineBounded /\ NobodyStranded /\ OutputConserved

----------------------------------------------------------------------------
(* bufferBytes *)

\* f is the function of the partial sums of c.
Sums(f, c) ==
    /\ f \in [0 .. Len(c) -> Nat]
    /\ f[0] = 0
    /\ \A k \in 1 .. Len(c) : f[k] = f[k - 1] + c[k]

LEMMA SumsExist ==
    ASSUME NEW c \in Seq(Nat)
    PROVE  \E f : Sums(f, c)
  <1> DEFINE Upto(n) == \E f \in [0 .. n -> Nat] :
                           f[0] = 0 /\ \A k \in 1 .. n : f[k] = f[k - 1] + c[k]
             bad == {n \in 0 .. Len(c) : ~Upto(n)}
  <1>1. Len(c) \in Nat /\ \A k \in 1 .. Len(c) : c[k] \in Nat
    OBVIOUS
  <1>2. Upto(0)
    <2> DEFINE g == [k \in 0 .. 0 |-> 0]
    <2>1. g \in [0 .. 0 -> Nat] /\ g[0] = 0
      OBVIOUS
    <2>2. \A k \in 1 .. 0 : g[k] = g[k - 1] + c[k]
      OBVIOUS
    <2> HIDE DEF g
    <2> QED
      BY <2>1, <2>2
  <1>3. ASSUME NEW n \in Nat, n + 1 <= Len(c), Upto(n) PROVE Upto(n + 1)
    <2>1. PICK f \in [0 .. n -> Nat] :
                 f[0] = 0 /\ \A k \in 1 .. n : f[k] = f[k - 1] + c[k]
      BY <1>3
    <2> DEFINE g == [k \in 0 .. n + 1 |-> IF k <= n THEN f[k] ELSE f[n] + c[n + 1]]
    <2>2. c[n + 1] \in Nat /\ f[n] \in Nat
      BY <1>1, <1>3
    <2>3. g \in [0 .. n + 1 -> Nat] /\ g[0] = 0
      BY <2>1, <2>2
    <2>4. ASSUME NEW k \in 1 .. n + 1 PROVE g[k] = g[k - 1] + c[k]
      <3>1. CASE k <= n
        BY <2>1, <3>1
      <3>2. CASE k = n + 1
        BY <3>2
      <3> QED
        BY <3>1, <3>2
    <2> HIDE DEF g
    <2> QED
      BY <2>3, <2>4
  <1> HIDE DEF Upto
  <1>4. bad = {}
    <2> SUFFICES ASSUME bad # {} PROVE FALSE
      OBVIOUS
    <2>1. bad \in SUBSET Nat
      BY <1>1
    <2>2. PICK n \in bad : \A m \in bad : n <= m
      BY <2>1, LeastNatural
    <2>3. n \in Nat /\ n # 0 /\ n <= Len(c) /\ ~Upto(n)
      BY <1>1, <1>2, <2>2
    <2>4. n - 1 \in Nat /\ Upto(n - 1)
      BY <1>1, <2>2, <2>3
    <2>5. Upto((n - 1) + 1)
      BY <1>1, <1>3, <2>3, <2>4
    <2> QED
      BY <2>3, <2>5
  <1>5. Upto(Len(c))
    BY <1>1, <1>4
  <1> QED
    BY <1>5 DEF Upto, Sums

LEMMA SumsBytes ==
    ASSUME NEW c \in Seq(Nat), NEW f, Sums(f, c)
    PROVE  bufferBytes(c) = f[Len(c)]
  <1> DEFINE Step(s) == [k \in 0 .. Len(c) |-> IF k = 0 THEN 0 ELSE s[k - 1] + c[k]]
             sum == CHOOSE s : s = Step(s)
             bad == {k \in 0 .. Len(c) : sum[k] # f[k]}
  <1>1. bufferBytes(c) = sum[Len(c)] /\ Len(c) \in Nat
    BY DEF bufferBytes
  <1>2. f = Step(f)
    <2>1. \A k \in 0 .. Len(c) : f[k] = IF k = 0 THEN 0 ELSE f[k - 1] + c[k]
      BY <1>1 DEF Sums
    <2> QED
      BY <2>1 DEF Sums
  <1>3. sum = Step(sum)
    BY <1>2
  <1>4. sum[0] = 0 /\ \A k \in 1 .. Len(c) : sum[k] = sum[k - 1] + c[k]
    <2> HIDE DEF sum
    <2>1. \A s : s = Step(s) => \A k \in 0 .. Len(c) : s[k] = IF k = 0 THEN 0 ELSE s[k - 1] + c[k]
      OBVIOUS
    <2> HIDE DEF Step
    <2>2. \A k \in 0 .. Len(c) : sum[k] = IF k = 0 THEN 0 ELSE sum[k - 1] + c[k]
      BY <1>3, <2>1
    <2> QED
      BY <1>1, <2>2
  <1> HIDE DEF sum, Step
  <1>5. bad = {}
    <2> SUFFICES ASSUME bad # {} PROVE FALSE
      OBVIOUS
    <2>1. bad \in SUBSET Nat
      BY <1>1
    <2>2. PICK k \in bad : \A j \in bad : k <= j
      BY <2>1, LeastNatural
    <2>3. k \in Nat /\ k # 0 /\ k <= Len(c) /\ sum[k] # f[k]
      BY <1>1, <1>4, <2>2 DEF Sums
    <2>4. k - 1 \notin bad /\ k - 1 \in 0 .. Len(c) /\ k \in 1 .. Len(c)
      BY <1>1, <2>2, <2>3
    <2>5. sum[k - 1] = f[k - 1]
      BY <2>4
    <2> QED
      BY <1>4, <2>3, <2>4, <2>5 DEF Sums
  <1> QED
    BY <1>1, <1>5

LEMMA SumsFacts ==
    ASSUME NEW c \in Seq(Nat), NEW f, Sums(f, c)
    PROVE  /\ Len(c) \in Nat /\ f[0] = 0 /\ DOMAIN f = 0 .. Len(c)
           /\ \A k \in 0 .. Len(c) : f[k] \in Nat
           /\ \A k \in 1 .. Len(c) : /\ k - 1 \in 0 .. Len(c) /\ c[k] \in Nat
                                     /\ f[k] \in Nat /\ f[k - 1] \in Nat
                                     /\ f[k] = f[k - 1] + c[k]
  <1>1. Len(c) \in Nat /\ \A k \in 1 .. Len(c) : c[k] \in Nat
    OBVIOUS
  <1>2. \A k \in 1 .. Len(c) : k - 1 \in 0 .. Len(c) /\ k \in 0 .. Len(c)
    BY <1>1
  <1> QED
    BY <1>1, <1>2 DEF Sums

LEMMA BytesNat ==
    ASSUME NEW c \in Seq(Nat)
    PROVE  bufferBytes(c) \in Nat
  <1>1. PICK f : Sums(f, c)
    BY SumsExist
  <1>2. bufferBytes(c) = f[Len(c)]
    BY <1>1, SumsBytes
  <1> QED
    BY <1>1, <1>2 DEF Sums

LEMMA BytesEmpty == bufferBytes(<<>>) = 0
  <1> DEFINE c == <<>>
             f == [k \in 0 .. 0 |-> 0]
  <1>1. c \in Seq(Nat) /\ Len(c) = 0
    OBVIOUS
  <1>2. f \in [0 .. 0 -> Nat] /\ f[0] = 0 /\ \A k \in 1 .. 0 : f[k] = f[k - 1] + c[k]
    OBVIOUS
  <1> HIDE DEF c, f
  <1>3. Sums(f, c)
    BY <1>1, <1>2 DEF Sums
  <1>4. bufferBytes(c) = f[Len(c)]
    BY <1>1, <1>3, SumsBytes
  <1> QED
    BY <1>1, <1>2, <1>4 DEF c

LEMMA BytesAppend ==
    ASSUME NEW c \in Seq(Nat), NEW n \in Nat
    PROVE  /\ Append(c, n) \in Seq(Nat)
           /\ bufferBytes(Append(c, n)) = bufferBytes(c) + n
  <1> DEFINE d == Append(c, n)
  <1>1. /\ d \in Seq(Nat) /\ Len(d) = Len(c) + 1 /\ Len(c) \in Nat
        /\ \A k \in 1 .. Len(c) : d[k] = c[k]
        /\ d[Len(c) + 1] = n
    OBVIOUS
  <1>2. PICK f : Sums(f, c)
    BY SumsExist
  <1> DEFINE g == [k \in 0 .. Len(c) + 1 |-> IF k <= Len(c) THEN f[k] ELSE f[Len(c)] + n]
  <1> HIDE DEF d
  <1>3. g \in [0 .. Len(d) -> Nat] /\ g[0] = 0 /\ g[Len(d)] = f[Len(c)] + n
    BY <1>1, <1>2 DEF Sums
  <1>4. ASSUME NEW k \in 1 .. Len(d) PROVE g[k] = g[k - 1] + d[k]
    <2>1. CASE k <= Len(c)
      <3>1. k \in 1 .. Len(c) /\ k - 1 \in 0 .. Len(c) /\ k - 1 <= Len(c)
        BY <1>1, <2>1
      <3>2. f[k] = f[k - 1] + c[k] /\ d[k] = c[k]
        BY <1>1, <1>2, <3>1 DEF Sums
      <3> QED
        BY <1>1, <2>1, <3>1, <3>2
    <2>2. CASE k = Len(c) + 1
      BY <1>1, <2>2
    <2> QED
      BY <1>1, <2>1, <2>2
  <1> HIDE DEF g
  <1>5. Sums(g, d)
    BY <1>3, <1>4 DEF Sums
  <1>6. bufferBytes(d) = g[Len(d)] /\ bufferBytes(c) = f[Len(c)]
    BY <1>1, <1>2, <1>5, SumsBytes
  <1> QED
    BY <1>1, <1>3, <1>6 DEF d

\* The partial sums are the bytes of the prefixes, and what they leave those of the rest.
LEMMA BytesSplit ==
    ASSUME NEW c \in Seq(Nat), NEW f, Sums(f, c), NEW k \in 0 .. Len(c)
    PROVE  /\ SubSeq(c, 1, k) \in Seq(Nat) /\ SubSeq(c, k + 1, Len(c)) \in Seq(Nat)
           /\ bufferBytes(SubSeq(c, 1, k)) = f[k]
           /\ bufferBytes(SubSeq(c, k + 1, Len(c))) = f[Len(c)] - f[k]
           /\ f[k] <= f[Len(c)]
  <1> DEFINE d == SubSeq(c, 1, k)
             e == SubSeq(c, k + 1, Len(c))
  <1>1. /\ Len(c) \in Nat /\ k \in Nat /\ k <= Len(c)
        /\ d \in Seq(Nat) /\ Len(d) = k /\ \A i \in 1 .. k : d[i] = c[i]
        /\ e \in Seq(Nat) /\ Len(e) = Len(c) - k /\ \A i \in 1 .. Len(c) - k : e[i] = c[k + i]
    OBVIOUS
  <1> HIDE DEF d, e
  <1>2. bufferBytes(d) = f[k]
    <2> DEFINE g == [i \in 0 .. k |-> f[i]]
    <2>1. \A i \in 0 .. k : f[i] \in Nat
      BY <1>1, SumsFacts
    <2>2. g \in [0 .. Len(d) -> Nat] /\ g[0] = 0
      BY <1>1, <2>1, SumsFacts
    <2>3. ASSUME NEW i \in 1 .. Len(d) PROVE g[i] = g[i - 1] + d[i]
      <3>1. i \in 1 .. Len(c) /\ i - 1 \in 0 .. k /\ i \in 0 .. k
        BY <1>1
      <3>2. f[i] = f[i - 1] + c[i]
        BY <3>1, SumsFacts
      <3> QED
        BY <1>1, <3>1, <3>2
    <2>4. g[Len(d)] = f[k]
      BY <1>1
    <2> HIDE DEF g
    <2>5. Sums(g, d)
      BY <2>2, <2>3 DEF Sums
    <2>6. bufferBytes(d) = g[Len(d)]
      BY <1>1, <2>5, SumsBytes
    <2> QED
      BY <2>4, <2>6
  <1>3. PICK h : Sums(h, e)
    BY <1>1, SumsExist
  <1>4. \A i \in 0 .. Len(e) : f[k + i] = f[k] + h[i]
    <2> DEFINE bad == {i \in 0 .. Len(e) : f[k + i] # f[k] + h[i]}
    <2> SUFFICES ASSUME bad # {} PROVE FALSE
      OBVIOUS
    <2>1. bad \in SUBSET Nat
      BY <1>1
    <2>2. PICK i \in bad : \A j \in bad : i <= j
      BY <2>1, LeastNatural
    <2>3. f[k] \in Nat /\ h[0] = 0
      BY <1>1, <1>3, SumsFacts
    <2>4. i \in Nat /\ i # 0 /\ i <= Len(e) /\ f[k + i] # f[k] + h[i]
      BY <1>1, <2>2, <2>3
    <2>5. i \in 1 .. Len(e) /\ k + i \in 1 .. Len(c) /\ i - 1 \in 0 .. Len(e)
      <3>1. Len(c) \in Nat /\ k \in Nat /\ k <= Len(c) /\ Len(e) = Len(c) - k
        BY <1>1
      <3> QED
        BY ONLY <2>4, <3>1
    <2>6. h[i] = h[i - 1] + e[i] /\ h[i - 1] \in Nat /\ e[i] = c[k + i]
      BY <1>1, <1>3, <2>5, SumsFacts
    <2>7. f[k + i] = f[(k + i) - 1] + c[k + i] /\ c[k + i] \in Nat
      BY <2>5, SumsFacts
    <2>8. i - 1 \notin bad
      BY <2>2, <2>4
    <2>9. f[k + (i - 1)] = f[k] + h[i - 1] /\ k + (i - 1) = (k + i) - 1
      BY <1>1, <2>4, <2>5, <2>8
    <2> QED
      BY ONLY <2>3, <2>4, <2>6, <2>7, <2>9
  <1>5. bufferBytes(e) = h[Len(e)]
    BY <1>1, <1>3, SumsBytes
  <1>6. f[Len(c)] = f[k] + h[Len(e)] /\ h[Len(e)] \in Nat /\ f[k] \in Nat /\ f[Len(c)] \in Nat
    <2>1. Len(e) \in 0 .. Len(e) /\ k + Len(e) = Len(c) /\ Len(c) \in 0 .. Len(c)
      BY <1>1
    <2>2. f[k] \in Nat /\ f[Len(c)] \in Nat /\ h[Len(e)] \in Nat
      BY <1>1, <1>3, <2>1, SumsFacts
    <2> QED
      BY <1>4, <2>1, <2>2
  <1>7. bufferBytes(e) = f[Len(c)] - f[k] /\ f[k] <= f[Len(c)]
    BY <1>5, <1>6
  <1> QED
    BY <1>1, <1>2, <1>7 DEF d, e

\* The first chunk of a buffer gets shorter.
LEMMA BytesShorter ==
    ASSUME NEW c \in Seq(Nat), c # <<>>, NEW m \in Nat, m <= c[1]
    PROVE  /\ [c EXCEPT ![1] = @ - m] \in Seq(Nat)
           /\ bufferBytes([c EXCEPT ![1] = @ - m]) = bufferBytes(c) - m
  <1> DEFINE d == [c EXCEPT ![1] = @ - m]
  <1>1. /\ Len(c) \in Nat /\ Len(c) >= 1 /\ c[1] \in Nat
        /\ d \in Seq(Nat) /\ Len(d) = Len(c) /\ d[1] = c[1] - m
        /\ \A k \in 2 .. Len(c) : d[k] = c[k]
    OBVIOUS
  <1>2. PICK f : Sums(f, c)
    BY SumsExist
  <1>3. f[1] = c[1] /\ \A k \in 1 .. Len(c) : f[k] >= c[1]
    <2> DEFINE bad == {k \in 1 .. Len(c) : ~(f[k] >= c[1])}
    <2>1. f[1] = c[1]
      BY <1>1, <1>2 DEF Sums
    <2>2. bad = {}
      <3> SUFFICES ASSUME bad # {} PROVE FALSE
        OBVIOUS
      <3>1. bad \in SUBSET Nat
        BY <1>1
      <3>2. PICK k \in bad : \A j \in bad : k <= j
        BY <3>1, LeastNatural
      <3>3. k \in Nat /\ k > 1 /\ k <= Len(c) /\ ~(f[k] >= c[1])
        BY <1>1, <2>1, <3>2
      <3>4. k - 1 \notin bad /\ k - 1 \in 1 .. Len(c) /\ k \in 1 .. Len(c)
        BY <1>1, <3>2, <3>3
      <3>5. f[k - 1] >= c[1] /\ f[k] = f[k - 1] + c[k] /\ f[k - 1] \in Nat /\ c[k] \in Nat
        BY <1>2, <3>4, SumsFacts
      <3> QED
        BY <1>1, <3>3, <3>5
    <2> QED
      BY <2>1, <2>2
  <1> DEFINE g == [k \in 0 .. Len(c) |-> IF k = 0 THEN 0 ELSE f[k] - m]
  <1> HIDE DEF d
  <1>4. g \in [0 .. Len(d) -> Nat]
    <2>1. \A k \in 1 .. Len(c) : f[k] \in Nat /\ f[k] >= m
      <3>1. \A k \in 1 .. Len(c) : f[k] \in Nat
        BY <1>2, SumsFacts
      <3> QED
        BY <1>1, <1>3, <3>1
    <2>2. \A k \in 0 .. Len(c) : g[k] \in Nat
      BY <1>1, <2>1
    <2> QED
      BY <1>1, <2>2
  <1>5. g[0] = 0 /\ g[Len(d)] = f[Len(c)] - m
    BY <1>1
  <1>6. ASSUME NEW k \in 1 .. Len(d) PROVE g[k] = g[k - 1] + d[k]
    <2>1. CASE k = 1
      BY <1>1, <1>3, <2>1
    <2>2. CASE k # 1
      <3> k \in 1 .. Len(c)
        BY <1>1
      <3>1. /\ k \in 2 .. Len(c) /\ k - 1 \in 1 .. Len(c) /\ f[k] = f[k - 1] + c[k]
            /\ f[k - 1] \in Nat /\ c[k] \in Nat
        BY <1>1, <1>2, <2>2, SumsFacts
      <3>2. d[k] = c[k] /\ g[k] = f[k] - m /\ g[k - 1] = f[k - 1] - m
        BY <1>1, <3>1
      <3> QED
        BY <3>1, <3>2
    <2> QED
      BY <2>1, <2>2
  <1> HIDE DEF g
  <1>7. Sums(g, d)
    BY <1>4, <1>5, <1>6 DEF Sums
  <1>8. bufferBytes(d) = g[Len(d)] /\ bufferBytes(c) = f[Len(c)]
    BY <1>1, <1>2, <1>7, SumsBytes
  <1> QED
    BY <1>1, <1>5, <1>8 DEF d

\* A read takes what was asked for, or all there is, and leaves the rest.
LEMMA DrainBytes ==
    ASSUME NEW c \in Seq(Nat), NEW n \in Nat
    PROVE  /\ drainBuffer(c, n) \in Seq(Nat)
           /\ bufferBytes(drainBuffer(c, n)) =
                bufferBytes(c) - (IF n <= bufferBytes(c) THEN n ELSE bufferBytes(c))
  <1>1. PICK f : Sums(f, c)
    BY SumsExist
  <1> DEFINE stops == {k \in 0 .. Len(c) :
                         \/ k = Len(c)
                         \/ bufferBytes(SubSeq(c, 1, k)) = n
                         \/ bufferBytes(SubSeq(c, 1, k + 1)) > n}
             taken == Min(stops)
             left == n - bufferBytes(SubSeq(c, 1, taken))
             rest == SubSeq(c, taken + 1, Len(c))
             total == bufferBytes(c)
  <1>2. drainBuffer(c, n) = IF rest = <<>> THEN rest ELSE [rest EXCEPT ![1] = @ - left]
    BY DEF drainBuffer
  <1>3. Len(c) \in Nat /\ total = f[Len(c)] /\ total \in Nat
    BY <1>1, SumsBytes, BytesNat
  <1>4. \A k \in 0 .. Len(c) :
          /\ SubSeq(c, k + 1, Len(c)) \in Seq(Nat)
          /\ bufferBytes(SubSeq(c, 1, k)) = f[k]
          /\ bufferBytes(SubSeq(c, k + 1, Len(c))) = total - f[k]
          /\ f[k] <= total /\ f[k] \in Nat
    BY <1>1, <1>3, BytesSplit, SumsFacts
  <1>5. \A k : k \in stops <=> k \in 0 .. Len(c) /\ (k = Len(c) \/ f[k] = n \/ f[k + 1] > n)
    <2>1. \A k \in 0 .. Len(c) : k = Len(c) \/ k + 1 \in 0 .. Len(c)
      BY <1>3
    <2> QED
      BY <1>4, <2>1
  <1> HIDE DEF stops
  <1>6. taken \in stops /\ \A k \in stops : taken <= k
    <2>1. stops \in SUBSET Nat /\ Len(c) \in stops
      BY <1>3, <1>5
    <2>2. \E x \in stops : \A y \in stops : x <= y
      BY <2>1, LeastNatural
    <2> QED
      BY <2>2 DEF Min
  <1> HIDE DEF taken
  <1>7. taken \in 0 .. Len(c) /\ (taken = Len(c) \/ f[taken] = n \/ f[taken + 1] > n)
    BY <1>5, <1>6
  <1>8. f[taken] <= n
    <2>1. CASE taken = 0
      BY <1>1, <2>1, SumsFacts
    <2>2. CASE taken # 0
      <3>1. taken - 1 \in 0 .. Len(c) /\ taken - 1 # Len(c) /\ (taken - 1) + 1 = taken
        BY <1>3, <1>7, <2>2
      <3>2. taken - 1 \notin stops
        BY <1>6, <1>7
      <3>3. ~(f[taken] > n)
        BY <1>5, <3>1, <3>2
      <3> QED
        BY <1>4, <1>7, <3>3
    <2> QED
      BY <2>1, <2>2
  <1>9. left = n - f[taken] /\ left \in Nat /\ f[taken] \in Nat /\ f[taken] <= total
        /\ rest \in Seq(Nat) /\ bufferBytes(rest) = total - f[taken]
    BY <1>4, <1>7, <1>8
  <1>10. Len(rest) = Len(c) - taken /\ (taken < Len(c) => rest[1] = c[taken + 1])
    BY <1>3, <1>7
  <1> HIDE DEF left, rest, total
  <1>11. CASE taken = Len(c)
    <2>1. rest = <<>>
      BY <1>3, <1>9, <1>10, <1>11
    <2>2. drainBuffer(c, n) = rest
      BY <1>2, <2>1
    <2>3. f[taken] = total
      BY <1>3, <1>11
    <2>4. bufferBytes(rest) = 0 /\ total <= n
      BY <1>3, <1>8, <1>9, <2>3
    <2>5. bufferBytes(rest) = total - (IF n <= total THEN n ELSE total)
      BY <1>3, <2>4
    <2> QED
      BY <1>9, <2>2, <2>5 DEF total
  <1>12. CASE taken # Len(c)
    <2>1. taken + 1 \in 1 .. Len(c) /\ taken + 1 \in 0 .. Len(c) /\ taken < Len(c)
      BY <1>3, <1>7, <1>12
    <2>2. rest # <<>> /\ rest[1] = c[taken + 1]
      <3>1. Len(rest) # 0
        BY <1>3, <1>7, <1>10, <1>12
      <3> QED
        BY <1>10, <2>1, <3>1
    <2>3. f[taken + 1] = f[taken] + c[taken + 1] /\ c[taken + 1] \in Nat
      <3>1. f[taken + 1] = f[(taken + 1) - 1] + c[taken + 1] /\ c[taken + 1] \in Nat
        BY <1>1, <2>1, SumsFacts
      <3>2. (taken + 1) - 1 = taken
        BY <1>7
      <3> QED
        BY <3>1, <3>2
    <2>4. f[taken + 1] <= total /\ f[taken + 1] \in Nat
      BY <1>4, <2>1
    <2>5. left <= rest[1] /\ n <= total
      <3>1. f[taken] = n \/ f[taken + 1] > n
        BY <1>7, <1>12
      <3>2. f[taken] = n => left = 0
        BY <1>9
      <3>3. f[taken + 1] > n => left <= c[taken + 1] /\ n <= total
        BY <1>3, <1>9, <2>3, <2>4
      <3>4. f[taken] = n => left <= c[taken + 1] /\ n <= total
        BY <1>9, <2>3, <3>2
      <3> QED
        BY <2>2, <3>1, <3>3, <3>4
    <2>6. /\ [rest EXCEPT ![1] = @ - left] \in Seq(Nat)
          /\ bufferBytes([rest EXCEPT ![1] = @ - left]) = bufferBytes(rest) - left
      BY <1>9, <2>2, <2>5, BytesShorter
    <2>7. drainBuffer(c, n) = [rest EXCEPT ![1] = @ - left]
      BY <1>2, <2>2
    <2>8. bufferBytes(drainBuffer(c, n)) = (total - f[taken]) - (n - f[taken])
      BY <1>9, <2>6, <2>7
    <2>9. bufferBytes(drainBuffer(c, n)) = total - n
      <3>1. f[taken] \in Nat /\ total \in Nat
        BY <1>3, <1>9
      <3> QED
        BY ONLY n \in Nat, <3>1, <2>8
    <2> QED
      BY <2>5, <2>6, <2>7, <2>9 DEF total
  <1> QED
    BY <1>11, <1>12

----------------------------------------------------------------------------
(* The parts of the invariant after a step *)

OutKept ==
    /\ outBuf' \in Seq(Nat) /\ bufferBytes(outBuf') <= MaxBuf
    /\ pump' \in {"reading", "got", "hungup", "stopped"} /\ {got', delivered'} \subseteq Nat
    /\ written' \in 0 .. MaxOut /\ written' = delivered' + got' + bufferBytes(outBuf')
    /\ pump' # "got" => got' = 0
    /\ ~master' => pump' = "stopped"
    /\ pump' = "reading" => outBuf' = <<>> /\ master' /\ SlaveOpen'

InKept ==
    /\ inBuf' \in Seq(Nat) /\ bufferBytes(inBuf') <= MaxBuf
    /\ readers' \in Seq(Pids)
    /\ line' \in Nat /\ line' <= MaxCanon + calls'
    /\ readers' # <<>> => inBuf' = <<>> /\ master' /\ SlaveOpen'

RestKept ==
    /\ status' \in [Pids -> {"none", "live", "exited"}]
    /\ pgid' \in [Pids -> Pids] /\ fg' \in Pids /\ mode' \in Modes
    /\ {exited', master', waited'} \subseteq BOOLEAN /\ calls' \in 0 .. MaxCalls

LEMMA Parts ==
    ASSUME OutKept, InKept, RestKept
    PROVE  TInv'
  <1>1. bufferBytes(outBuf') \in Nat /\ {MaxOut, MaxCalls, MaxCanon} \subseteq Nat
    BY BytesNat, TerminalAssumption DEF OutKept
  <1>2. got' \in 0 .. MaxOut /\ delivered' \in 0 .. MaxOut
    BY <1>1 DEF OutKept
  <1>3. line' \in 0 .. MaxCanon + MaxCalls
    BY <1>1 DEF InKept, RestKept
  <1>4. TypeOK'
    BY <1>2, <1>3 DEF TypeOK, OutKept, InKept, RestKept
  <1>5. PumpState' /\ LineBounded' /\ NobodyStranded' /\ OutputConserved'
    BY DEF PumpState, LineBounded, NobodyStranded, OutputConserved, OutKept, InKept
  <1> QED
    BY <1>4, <1>5 DEF TInv

\* The invariant before the step, as the parts use it.
LEMMA Before ==
    ASSUME TInv
    PROVE  /\ outBuf \in Seq(Nat) /\ bufferBytes(outBuf) \in Nat /\ bufferBytes(outBuf) <= MaxBuf
           /\ got \in Nat /\ delivered \in Nat /\ written \in Nat /\ line \in Nat /\ calls \in Nat
           /\ written <= MaxOut /\ written = delivered + got + bufferBytes(outBuf)
           /\ pump \in {"reading", "got", "hungup", "stopped"} /\ (pump # "got" => got = 0)
           /\ inBuf \in Seq(Nat) /\ bufferBytes(inBuf) \in Nat /\ bufferBytes(inBuf) <= MaxBuf
           /\ readers \in Seq(Pids) /\ line <= MaxCanon + calls /\ mode \in Modes
           /\ {mode.icanon, mode.echo, mode.isig} \subseteq BOOLEAN
           /\ {exited, master, waited} \subseteq BOOLEAN /\ calls <= MaxCalls
           /\ MaxBuf \in Nat /\ MaxCanon \in Nat /\ ReadSize \in Nat \ {0} /\ MaxOut \in Nat
           /\ MaxCalls \in Nat
           /\ pump = "reading" => outBuf = <<>> /\ master /\ SlaveOpen
           /\ readers # <<>> => inBuf = <<>> /\ master /\ SlaveOpen
           /\ ~master => pump = "stopped"
  <1>1. /\ MaxBuf \in Nat /\ MaxCanon \in Nat /\ ReadSize \in Nat \ {0} /\ MaxOut \in Nat
        /\ MaxCalls \in Nat
    BY TerminalAssumption
  <1>2. outBuf \in Seq(Nat) /\ inBuf \in Seq(Nat)
    BY DEF TInv, TypeOK
  <1>3. bufferBytes(outBuf) \in Nat /\ bufferBytes(inBuf) \in Nat
    BY <1>2, BytesNat
  <1>4. {mode.icanon, mode.echo, mode.isig} \subseteq BOOLEAN
    BY ModesAssumption DEF TInv, TypeOK
  <1>5. got \in Nat /\ delivered \in Nat /\ written \in Nat /\ line \in Nat /\ calls \in Nat
        /\ written <= MaxOut /\ calls <= MaxCalls
    BY <1>1 DEF TInv, TypeOK
  <1> QED
    BY <1>1, <1>2, <1>3, <1>4, <1>5
       DEF TInv, TypeOK, PumpState, LineBounded, NobodyStranded, OutputConserved

LEMMA Sizes ==
    ASSUME TInv
    PROVE  /\ calls \in Nat /\ MaxCalls \in Nat /\ calls <= MaxCalls
           /\ line \in Nat /\ MaxCanon \in Nat /\ line <= MaxCanon + calls
           /\ MaxBuf \in Nat /\ bufferBytes(inBuf) \in Nat /\ bufferBytes(inBuf) <= MaxBuf
           /\ bufferBytes(outBuf) \in Nat /\ bufferBytes(outBuf) <= MaxBuf
  BY Before

LEMMA SameOutput ==
    ASSUME TInv, UNCHANGED <<output, delivered, master>>, SlaveOpen => SlaveOpen'
    PROVE  OutKept
  <1>1. UNCHANGED <<outBuf, pump, got, written, delivered, master>>
    BY DEF output
  <1>2. /\ outBuf' \in Seq(Nat) /\ bufferBytes(outBuf') <= MaxBuf
        /\ written' \in 0 .. MaxOut /\ {got', delivered'} \subseteq Nat
        /\ written' = delivered' + got' + bufferBytes(outBuf')
    BY <1>1, Before
  <1>3. /\ pump' \in {"reading", "got", "hungup", "stopped"} /\ (pump' # "got" => got' = 0)
        /\ (pump' = "reading" => outBuf' = <<>> /\ master' /\ SlaveOpen')
        /\ (~master' => pump' = "stopped")
    BY <1>1, Before
  <1> QED
    BY <1>2, <1>3 DEF OutKept

LEMMA SameInput ==
    ASSUME TInv, UNCHANGED <<inBuf, readers, master>>, SlaveOpen => SlaveOpen',
           line' \in Nat, line' <= MaxCanon + calls'
    PROVE  InKept
  BY Before DEF InKept

LEMMA PutOutKept ==
    ASSUME TInv, NEW n \in Nat, FitsOut(n), PutOut(n),
           UNCHANGED <<delivered, master>>, SlaveOpen => SlaveOpen'
    PROVE  OutKept
  <1>0. /\ got \in Nat /\ delivered \in Nat /\ written \in Nat /\ MaxOut \in Nat
        /\ bufferBytes(outBuf) \in Nat /\ written = delivered + got + bufferBytes(outBuf)
    BY Before
  <1>1. written + n <= MaxOut /\ written' = written + n /\ delivered' = delivered
    BY DEF PutOut
  <1>2. CASE pump = "reading"
    <2>1. pump' = "got" /\ got' = n /\ outBuf' = outBuf /\ got = 0
      BY <1>2, Before DEF PutOut
    <2>2. /\ written' \in 0 .. MaxOut /\ {got', delivered'} \subseteq Nat
          /\ written' = delivered' + got' + bufferBytes(outBuf')
      BY ONLY n \in Nat, <1>1, <1>0, <2>1
    <2>3. outBuf' \in Seq(Nat) /\ bufferBytes(outBuf') <= MaxBuf /\ master'
      BY <1>2, <2>1, Before
    <2> QED
      BY <2>1, <2>2, <2>3 DEF OutKept
  <1>3. CASE pump # "reading"
    <2>1. outBuf' = Append(outBuf, n) /\ UNCHANGED <<pump, got>>
      BY <1>3 DEF PutOut
    <2>2. outBuf' \in Seq(Nat) /\ bufferBytes(outBuf') = bufferBytes(outBuf) + n
      BY <2>1, Before, BytesAppend
    <2>3. bufferBytes(outBuf) + n <= MaxBuf
      BY <1>3 DEF FitsOut
    <2>4. /\ written' \in 0 .. MaxOut /\ {got', delivered'} \subseteq Nat
          /\ written' = delivered' + got' + bufferBytes(outBuf')
      BY ONLY n \in Nat, <1>1, <1>0, <2>1, <2>2
    <2>5. /\ pump' \in {"reading", "got", "hungup", "stopped"} /\ pump' # "reading"
          /\ (pump' # "got" => got' = 0) /\ (~master' => pump' = "stopped")
      BY <1>3, <2>1, Before
    <2> QED
      BY <2>2, <2>3, <2>4, <2>5 DEF OutKept
  <1> QED
    BY <1>2, <1>3

LEMMA EchoKept ==
    ASSUME TInv, NEW n \in Nat, echoOutput(n),
           UNCHANGED <<delivered, master>>, SlaveOpen => SlaveOpen'
    PROVE  OutKept
  <1>1. CASE mode.echo /\ CanEcho(n)
    BY <1>1, PutOutKept DEF echoOutput, CanEcho
  <1>2. CASE ~(mode.echo /\ CanEcho(n))
    BY <1>2, SameOutput DEF echoOutput
  <1> QED
    BY <1>1, <1>2

LEMMA DeliverKept ==
    ASSUME TInv, NEW n \in Nat, FitsIn(n), deliverInput(n),
           UNCHANGED master, SlaveOpen => SlaveOpen',
           line' \in Nat, line' <= MaxCanon + calls'
    PROVE  InKept
  <1>1. CASE readers # <<>>
    <2>1. readers' = Tail(readers) /\ inBuf' = inBuf
      BY <1>1 DEF deliverInput
    <2>2. readers' \in Seq(Pids)
      BY <1>1, <2>1, Before
    <2> QED
      BY <1>1, <2>1, <2>2, Before DEF InKept
  <1>2. CASE readers = <<>>
    <2>1. inBuf' = Append(inBuf, n) /\ readers' = readers
      BY <1>2 DEF deliverInput
    <2>2. inBuf' \in Seq(Nat) /\ bufferBytes(inBuf') = bufferBytes(inBuf) + n
      BY <2>1, Before, BytesAppend
    <2>3. bufferBytes(inBuf) + n <= MaxBuf
      BY <1>2 DEF FitsIn
    <2> QED
      BY <1>2, <2>1, <2>2, <2>3, Before DEF InKept
  <1> QED
    BY <1>1, <1>2

----------------------------------------------------------------------------
(* The actions *)

LEMMA SlaveWriteInv ==
    ASSUME TInv, NEW n \in Nat, SlaveWrite(n)
    PROVE  TInv'
  <1>1. /\ FitsOut(n) /\ PutOut(n) /\ UNCHANGED <<procs, fg, mode, input, host>>
        /\ (calls < MaxCalls /\ calls' = calls + 1) \/ calls' = calls
    BY DEF SlaveWrite, Count
  <1>2. UNCHANGED <<status, pgid, fg, mode, line, inBuf, readers, exited, master, waited, delivered>>
    BY <1>1 DEF procs, input, host
  <1>3. SlaveOpen' = SlaveOpen
    BY <1>2 DEF SlaveOpen, Live
  <1>4. calls' \in 0 .. MaxCalls /\ line' <= MaxCanon + calls' /\ line' \in Nat
    BY <1>1, <1>2, Sizes
  <1>5. OutKept
    BY <1>1, <1>2, <1>3, PutOutKept
  <1>6. InKept
    BY <1>2, <1>3, <1>4, SameInput
  <1>7. RestKept
    BY <1>2, <1>4 DEF RestKept, TInv, TypeOK
  <1> QED
    BY <1>5, <1>6, <1>7, Parts

LEMMA SlaveReadInv ==
    ASSUME TInv, NEW p \in Pids, NEW n \in Nat, SlaveRead(p, n)
    PROVE  TInv'
  <1>1. UNCHANGED <<status, pgid, fg, mode, line, output, exited, master, waited, delivered, calls>>
    BY DEF SlaveRead, procs, host
  <1>2. SlaveOpen' = SlaveOpen /\ SlaveOpen
    BY <1>1 DEF SlaveOpen, Live, SlaveRead
  <1>3. OutKept
    BY <1>1, <1>2, SameOutput
  <1>4. InKept
    <2>1. CASE inBuf # <<>> /\ inBuf' = drainBuffer(inBuf, n) /\ UNCHANGED readers
      <3>1. readers = <<>>
        BY <2>1, Before
      <3>2. inBuf' \in Seq(Nat) /\ bufferBytes(inBuf') \in Nat
            /\ bufferBytes(inBuf') = bufferBytes(inBuf)
                 - (IF n <= bufferBytes(inBuf) THEN n ELSE bufferBytes(inBuf))
        BY <2>1, Before, DrainBytes, BytesNat
      <3>3. bufferBytes(inBuf') <= MaxBuf
        BY <3>2, Sizes
      <3> QED
        BY <1>1, <2>1, <3>1, <3>2, <3>3, Before DEF InKept
    <2>2. CASE inBuf = <<>> /\ master /\ readers' = Append(readers, p) /\ UNCHANGED inBuf
      <3>1. readers' \in Seq(Pids)
        BY <2>2, Before
      <3> QED
        BY <1>1, <1>2, <2>2, <3>1, Before DEF InKept
    <2> QED
      BY <2>1, <2>2 DEF SlaveRead
  <1>5. RestKept
    BY <1>1 DEF RestKept, TInv, TypeOK
  <1> QED
    BY <1>3, <1>4, <1>5, Parts

\* What every character the host types leaves alone.
LEMMA TypesKept ==
    ASSUME TInv, Types
    PROVE  /\ RestKept /\ SlaveOpen' = SlaveOpen /\ UNCHANGED <<delivered, master>>
           /\ calls' = calls + 1
  <1>1. /\ UNCHANGED <<status, pgid, fg, mode, exited, master, waited, delivered>>
        /\ calls < MaxCalls /\ calls' = calls + 1
    BY DEF Types, procs, host, Count
  <1>2. SlaveOpen' = SlaveOpen
    BY <1>1 DEF SlaveOpen, Live
  <1>3. calls' \in 0 .. MaxCalls
    BY <1>1, Sizes
  <1> QED
    BY <1>1, <1>2, <1>3 DEF RestKept, TInv, TypeOK

LEMMA TypeInv ==
    ASSUME TInv,
           TypeChar \/ TypeErase \/ TypeNewline \/ TypeEof \/ TypeRaw \/ TypeIntrAtShell
           \/ (\E n \in 2 .. MaxBuf + 1 : WriteRaw(n))
           \/ \E echoed \in BOOLEAN : TypeSignal(echoed)
    PROVE  TInv'
  <1>1. Types
    BY DEF TypeChar, TypeErase, TypeNewline, TypeEof, TypeRaw, WriteRaw, TypeIntrAtShell, TypeSignal
  <1>2. /\ RestKept /\ SlaveOpen' = SlaveOpen /\ UNCHANGED <<delivered, master>>
        /\ calls' = calls + 1 /\ calls \in Nat /\ line \in Nat /\ line <= MaxCanon + calls
        /\ MaxCanon \in Nat
    BY <1>1, TypesKept, Before
  <1>3. CASE TypeChar
    <2>1. CASE line >= MaxCanon
      <3>1. UNCHANGED <<line, output, inBuf, readers>>
        BY <1>3, <2>1 DEF TypeChar
      <3> QED
        BY <1>2, <3>1, SameOutput, SameInput, Parts
    <2>2. CASE ~(line >= MaxCanon)
      <3>1. line' = line + 1 /\ echoOutput(1) /\ UNCHANGED <<inBuf, readers>>
        BY <1>3, <2>2 DEF TypeChar
      <3>2. OutKept
        BY <1>2, <3>1, EchoKept
      <3> QED
        BY <1>2, <3>1, <3>2, SameInput, Parts
    <2> QED
      BY <2>1, <2>2
  <1>4. CASE TypeErase
    <2>1. line' = line - 1 /\ line > 0 /\ echoOutput(3) /\ UNCHANGED <<inBuf, readers>>
      BY <1>4 DEF TypeErase
    <2>2. OutKept
      BY <1>2, <2>1, EchoKept
    <2> QED
      BY <1>2, <2>1, <2>2, SameInput, Parts
  <1>5. CASE TypeNewline
    <2>1. OutKept
      BY <1>2, <1>5, EchoKept DEF TypeNewline
    <2>2. CASE CanEcho(2) /\ FitsIn(line + 1)
      <3>1. deliverInput(line + 1) /\ line' = 0
        BY <1>5, <2>2 DEF TypeNewline
      <3>2. InKept
        BY <1>2, <2>2, <3>1, DeliverKept
      <3> QED
        BY <1>2, <2>1, <3>2, Parts
    <2>3. CASE ~(CanEcho(2) /\ FitsIn(line + 1))
      <3>1. line' = line + 1 /\ UNCHANGED <<inBuf, readers>>
        BY <1>5, <2>3 DEF TypeNewline
      <3>2. InKept
        BY <1>2, <3>1, SameInput
      <3> QED
        BY <1>2, <2>1, <3>2, Parts
    <2> QED
      BY <2>2, <2>3
  <1>6. CASE TypeEof
    <2>1. OutKept
      BY <1>2, <1>6, SameOutput DEF TypeEof
    <2>2. CASE FitsIn(line)
      <3>1. deliverInput(line) /\ line' = 0
        BY <1>6, <2>2 DEF TypeEof
      <3>2. InKept
        BY <1>2, <2>2, <3>1, DeliverKept
      <3> QED
        BY <1>2, <2>1, <3>2, Parts
    <2>3. CASE ~FitsIn(line)
      <3>1. UNCHANGED <<line, inBuf, readers>>
        BY <1>6, <2>3 DEF TypeEof, input
      <3>2. InKept
        BY <1>2, <3>1, SameInput
      <3> QED
        BY <1>2, <2>1, <3>2, Parts
    <2> QED
      BY <2>2, <2>3
  <1>7. CASE TypeRaw
    <2>1. OutKept
      BY <1>2, <1>7, EchoKept DEF TypeRaw
    <2>2. line' = line
      BY <1>7 DEF TypeRaw
    <2>3. CASE CanEcho(1) /\ FitsIn(1)
      <3>1. deliverInput(1)
        BY <1>7, <2>3 DEF TypeRaw
      <3>2. InKept
        BY <1>2, <2>2, <2>3, <3>1, DeliverKept
      <3> QED
        BY <1>2, <2>1, <3>2, Parts
    <2>4. CASE ~(CanEcho(1) /\ FitsIn(1))
      <3>1. UNCHANGED <<inBuf, readers>>
        BY <1>7, <2>4 DEF TypeRaw
      <3>2. InKept
        BY <1>2, <2>2, <3>1, SameInput
      <3> QED
        BY <1>2, <2>1, <3>2, Parts
    <2> QED
      BY <2>3, <2>4
  <1>8. CASE TypeIntrAtShell
    <2>1. OutKept
      BY <1>2, <1>8, EchoKept DEF TypeIntrAtShell
    <2>2. line' \in Nat /\ line' <= MaxCanon + calls'
      BY <1>2, <1>8 DEF TypeIntrAtShell
    <2>3. CASE CanEcho(4) /\ Signalled(fg) = {} /\ FitsIn(1)
      <3>1. deliverInput(1)
        BY <1>8, <2>3 DEF TypeIntrAtShell
      <3>2. InKept
        BY <1>2, <2>2, <2>3, <3>1, DeliverKept
      <3> QED
        BY <1>2, <2>1, <3>2, Parts
    <2>4. CASE ~(CanEcho(4) /\ Signalled(fg) = {} /\ FitsIn(1))
      <3>1. UNCHANGED <<inBuf, readers>>
        BY <1>8, <2>4 DEF TypeIntrAtShell
      <3>2. InKept
        BY <1>2, <2>2, <3>1, SameInput
      <3> QED
        BY <1>2, <2>1, <3>2, Parts
    <2> QED
      BY <2>3, <2>4
  <1>9. ASSUME NEW echoed \in BOOLEAN, TypeSignal(echoed)
        PROVE  TInv'
    <2>1. OutKept
      BY <1>2, <1>9, EchoKept, SameOutput DEF TypeSignal
    <2>2. line' \in Nat /\ line' <= MaxCanon + calls' /\ UNCHANGED <<inBuf, readers>>
      BY <1>2, <1>9 DEF TypeSignal
    <2>3. InKept
      BY <1>2, <2>2, SameInput
    <2> QED
      BY <1>2, <2>1, <2>3, Parts
  <1>10. ASSUME NEW n \in 2 .. MaxBuf + 1, WriteRaw(n)
         PROVE  TInv'
    <2>1. line' = line /\ UNCHANGED output
      BY <1>10 DEF WriteRaw
    <2>2. OutKept
      BY <1>2, <2>1, SameOutput
    <2>3. n \in Nat
      OBVIOUS
    <2>4. CASE FitsIn(n)
      <3>1. deliverInput(n)
        BY <1>10, <2>4 DEF WriteRaw
      <3>2. InKept
        BY <1>2, <2>1, <2>3, <2>4, <3>1, DeliverKept
      <3> QED
        BY <1>2, <2>2, <3>2, Parts
    <2>5. CASE ~FitsIn(n)
      <3>1. UNCHANGED <<inBuf, readers>>
        BY <1>10, <2>5 DEF WriteRaw
      <3>2. InKept
        BY <1>2, <2>1, <3>1, SameInput
      <3> QED
        BY <1>2, <2>2, <3>2, Parts
    <2> QED
      BY <2>4, <2>5
  <1> QED
    BY <1>3, <1>4, <1>5, <1>6, <1>7, <1>8, <1>9, <1>10

\* Calls that leave the terminal's buffers alone: spawn, setpgid, tcsetpgrp, tcsetattr.
LEMMA CallInv ==
    ASSUME TInv, Count, UNCHANGED <<input, output, host>>, SlaveOpen => SlaveOpen',
           status' \in [Pids -> {"none", "live", "exited"}], pgid' \in [Pids -> Pids],
           fg' \in Pids, mode' \in Modes
    PROVE  TInv'
  <1>1. UNCHANGED <<line, inBuf, readers, exited, master, waited, delivered>>
    BY DEF input, host
  <1>2. calls' \in 0 .. MaxCalls /\ line' <= MaxCanon + calls' /\ line' \in Nat
    BY <1>1, Sizes DEF Count
  <1>3. OutKept
    BY <1>1, SameOutput
  <1>4. InKept
    BY <1>1, <1>2, SameInput
  <1>5. RestKept
    BY <1>1, <1>2 DEF RestKept, TInv, TypeOK
  <1> QED
    BY <1>3, <1>4, <1>5, Parts

LEMMA SpawnInv ==
    ASSUME TInv, NEW p \in Pids, NEW c \in Children, Spawn(p, c)
    PROVE  TInv'
  <1>1. /\ Count /\ UNCHANGED <<input, output, host>> /\ UNCHANGED <<fg, mode>>
        /\ status' = [status EXCEPT ![c] = "live"] /\ pgid' = [pgid EXCEPT ![c] = pgid[p]]
    BY DEF Spawn
  <1>2. /\ status \in [Pids -> {"none", "live", "exited"}] /\ pgid \in [Pids -> Pids]
        /\ fg' \in Pids /\ mode' \in Modes /\ c \in Pids
    BY <1>1 DEF TInv, TypeOK, Pids
  <1>3. status' \in [Pids -> {"none", "live", "exited"}] /\ pgid' \in [Pids -> Pids]
    BY <1>1, <1>2
  <1>4. SlaveOpen'
    BY <1>1, <1>2 DEF SlaveOpen, Live
  <1> QED
    BY <1>1, <1>2, <1>3, <1>4, CallInv

LEMMA GroupInv ==
    ASSUME TInv, (\E p, g \in Pids : setpgid(p, g)) \/ (\E g \in Pids : tcsetpgrp(g))
                 \/ (\E m \in Modes : tcsetattr(m))
    PROVE  TInv'
  <1>1. Count /\ UNCHANGED <<input, output, host>> /\ UNCHANGED status
    BY DEF setpgid, tcsetpgrp, tcsetattr, procs
  <1>2. status' \in [Pids -> {"none", "live", "exited"}] /\ (SlaveOpen => SlaveOpen')
    BY <1>1 DEF TInv, TypeOK, SlaveOpen, Live
  <1>3. pgid' \in [Pids -> Pids] /\ fg' \in Pids /\ mode' \in Modes
    BY DEF setpgid, tcsetpgrp, tcsetattr, procs, TInv, TypeOK
  <1> QED
    BY <1>1, <1>2, <1>3, CallInv

LEMMA ExitInv ==
    ASSUME TInv, NEW p \in Pids, Exit(p)
    PROVE  TInv'
  <1>1. /\ status' = [status EXCEPT ![p] = "exited"]
        /\ UNCHANGED <<pgid, fg, mode, line, inBuf, outBuf, written, calls>>
        /\ UNCHANGED <<exited, master, waited, delivered>>
    BY DEF Exit, host
  <1>2. status \in [Pids -> {"none", "live", "exited"}]
    BY DEF TInv, TypeOK
  <1>3. RestKept
    BY <1>1, <1>2 DEF RestKept, TInv, TypeOK
  <1>4. CASE \A q \in Pids \ {p} : ~Live(q)
    <2>1. /\ readers' = <<>>
          /\ IF pump = "reading" THEN pump' = "hungup" /\ got' = 0 ELSE UNCHANGED <<pump, got>>
      BY <1>4 DEF Exit, SlaveClosed
    <2>2. InKept
      BY <1>1, <2>1, Before DEF InKept
    <2>3. /\ pump' \in {"got", "hungup", "stopped"} /\ got' = got
          /\ (pump' # "got" => got' = 0) /\ (~master' => pump' = "stopped")
      BY <1>1, <2>1, Before
    <2>4. OutKept
      <3>1. /\ outBuf' \in Seq(Nat) /\ bufferBytes(outBuf') <= MaxBuf
            /\ written' \in 0 .. MaxOut /\ {got', delivered'} \subseteq Nat
            /\ written' = delivered' + got' + bufferBytes(outBuf')
        BY <1>1, <2>3, Before
      <3> QED
        BY <2>3, <3>1 DEF OutKept
    <2> QED
      BY <1>3, <2>2, <2>4, Parts
  <1>5. CASE ~(\A q \in Pids \ {p} : ~Live(q))
    <2>1. UNCHANGED <<readers, pump, got>>
      BY <1>5 DEF Exit
    <2>2. SlaveOpen'
      BY <1>1, <1>2, <1>5 DEF SlaveOpen, Live
    <2>3. UNCHANGED output
      BY <1>1, <2>1 DEF output
    <2>4. OutKept
      BY <1>1, <2>2, <2>3, SameOutput
    <2>5. line' \in Nat /\ line' <= MaxCanon + calls'
      BY <1>1, Sizes
    <2>6. InKept
      BY <1>1, <2>1, <2>2, <2>5, SameInput
    <2> QED
      BY <1>3, <2>4, <2>6, Parts
  <1> QED
    BY <1>4, <1>5

LEMMA PumpTurnInv ==
    ASSUME TInv, PumpTurn
    PROVE  TInv'
  <1>1. UNCHANGED <<status, pgid, fg, mode, line, inBuf, readers, written, exited, master, waited, calls>>
    BY DEF PumpTurn, procs, input
  <1>2. SlaveOpen' = SlaveOpen
    BY <1>1 DEF SlaveOpen, Live
  <1>3. pump \in {"got", "hungup"} /\ master
    BY Before DEF PumpTurn
  <1>4. RestKept
    BY <1>1 DEF RestKept, TInv, TypeOK
  <1>5. InKept
    <2>1. line' \in Nat /\ line' <= MaxCanon + calls'
      BY <1>1, Sizes
    <2> QED
      BY <1>1, <1>2, <2>1, SameInput
  <1>6. /\ got \in Nat /\ delivered \in Nat /\ written \in Nat /\ MaxOut \in Nat /\ written <= MaxOut
        /\ bufferBytes(outBuf) \in Nat /\ written = delivered + got + bufferBytes(outBuf)
        /\ outBuf \in Seq(Nat) /\ bufferBytes(outBuf) <= MaxBuf /\ MaxBuf \in Nat
        /\ ReadSize \in Nat \ {0}
    BY Before
  <1>7. written' \in 0 .. MaxOut
    BY <1>1, <1>6
  <1>8. CASE got = 0
    <2>1. pump' = "stopped" /\ got' = 0 /\ outBuf' = outBuf /\ delivered' = delivered
      BY <1>8 DEF PumpTurn
    <2>2. OutKept
      BY <1>1, <1>6, <1>7, <1>8, <2>1 DEF OutKept
    <2> QED
      BY <1>4, <1>5, <2>2, Parts
  <1>9. CASE got # 0 /\ exited
    <2>1. pump' = "stopped" /\ got' = 0 /\ outBuf' = outBuf /\ delivered' = delivered + got
      BY <1>9 DEF PumpTurn
    <2>2. OutKept
      BY <1>1, <1>6, <1>7, <2>1 DEF OutKept
    <2> QED
      BY <1>4, <1>5, <2>2, Parts
  <1>10. CASE got # 0 /\ ~exited
    <2>1. PumpRead /\ delivered' = delivered + got
      BY <1>10 DEF PumpTurn
    <2>2. CASE outBuf # <<>>
      <3> DEFINE bytes == bufferBytes(outBuf)
                 left == bufferBytes(outBuf')
      <3>1. /\ pump' = "got" /\ outBuf' = drainBuffer(outBuf, ReadSize)
            /\ got' = Min({ReadSize, bytes})
        BY <2>1, <2>2 DEF PumpRead
      <3>2. got' = IF ReadSize <= bytes THEN ReadSize ELSE bytes
        <4>1. \E x \in {ReadSize, bytes} : \A y \in {ReadSize, bytes} : x <= y
          BY <1>6
        <4>2. got' \in {ReadSize, bytes} /\ \A y \in {ReadSize, bytes} : got' <= y
          BY <3>1, <4>1 DEF Min
        <4> QED
          BY <1>6, <4>2
      <3>3. /\ outBuf' \in Seq(Nat)
            /\ left = bytes - (IF ReadSize <= bytes THEN ReadSize ELSE bytes)
        BY <1>6, <3>1, DrainBytes
      <3> HIDE DEF bytes, left
      <3>4. bytes \in Nat /\ bytes <= MaxBuf /\ written = delivered + got + bytes
        BY <1>6 DEF bytes
      <3>5. /\ got' \in Nat /\ delivered' \in Nat /\ left <= MaxBuf
            /\ written' = delivered' + got' + left
        <4>1. written' = written
          BY <1>1
        <4> QED
          BY <1>6, <2>1, <3>2, <3>3, <3>4, <4>1
      <3>6. OutKept
        BY <1>1, <1>3, <1>7, <3>1, <3>3, <3>5 DEF OutKept, left
      <3> QED
        BY <1>4, <1>5, <3>6, Parts
    <2>3. CASE outBuf = <<>>
      <3>1. /\ got' = 0 /\ outBuf' = outBuf /\ pump' \in {"hungup", "reading"}
            /\ (pump' = "reading" => SlaveOpen)
        BY <2>1, <2>3 DEF PumpRead
      <3>2. /\ got' \in Nat /\ delivered' \in Nat
            /\ written' = delivered' + got' + bufferBytes(outBuf')
        BY <1>1, <1>6, <2>1, <3>1
      <3>3. OutKept
        BY <1>1, <1>2, <1>3, <1>6, <1>7, <2>3, <3>1, <3>2 DEF OutKept
      <3> QED
        BY <1>4, <1>5, <3>3, Parts
    <2> QED
      BY <2>2, <2>3
  <1> QED
    BY <1>8, <1>9, <1>10

LEMMA ShellReapedInv ==
    ASSUME TInv, ShellReaped
    PROVE  TInv'
  <1>1. /\ UNCHANGED <<status, pgid, fg, mode, line, inBuf, readers, master, waited, delivered, calls>>
        /\ UNCHANGED output /\ exited' = TRUE
    BY DEF ShellReaped, procs, input
  <1>2. SlaveOpen' = SlaveOpen
    BY <1>1 DEF SlaveOpen, Live
  <1>3. OutKept
    BY <1>1, <1>2, SameOutput
  <1>4. line' \in Nat /\ line' <= MaxCanon + calls'
    BY <1>1, Sizes
  <1>5. InKept
    BY <1>1, <1>2, <1>4, SameInput
  <1>6. RestKept
    BY <1>1 DEF RestKept, TInv, TypeOK
  <1> QED
    BY <1>3, <1>5, <1>6, Parts

LEMMA WaitResolvesInv ==
    ASSUME TInv, WaitResolves
    PROVE  TInv'
  <1>1. /\ UNCHANGED <<status, pgid, fg, mode, line, inBuf, exited, delivered, calls>>
        /\ UNCHANGED <<outBuf, pump, got, written>>
        /\ waited' = TRUE /\ master' = FALSE /\ readers' = <<>> /\ pump = "stopped"
    BY DEF WaitResolves, procs, output
  <1>2. OutKept
    <2>1. /\ outBuf' \in Seq(Nat) /\ bufferBytes(outBuf') <= MaxBuf
          /\ written' \in 0 .. MaxOut /\ {got', delivered'} \subseteq Nat
          /\ written' = delivered' + got' + bufferBytes(outBuf')
          /\ got' = 0
      BY <1>1, Before
    <2> QED
      BY <1>1, <2>1 DEF OutKept
  <1>3. line' \in Nat /\ line' <= MaxCanon + calls'
    BY <1>1, Sizes
  <1>4. InKept
    BY <1>1, <1>3, Before DEF InKept
  <1>5. RestKept
    BY <1>1 DEF RestKept, TInv, TypeOK
  <1> QED
    BY <1>2, <1>4, <1>5, Parts

----------------------------------------------------------------------------
(* The theorems *)

LEMMA InitInv == Init => TInv
  <1> SUFFICES ASSUME Init PROVE TInv
    OBVIOUS
  <1>1. bufferBytes(outBuf) = 0 /\ bufferBytes(inBuf) = 0
    BY BytesEmpty DEF Init
  <1>2. SlaveOpen
    BY DEF Init, SlaveOpen, Live, Pids
  <1>3. TypeOK
    <2>1. /\ status \in [Pids -> {"none", "live", "exited"}] /\ pgid \in [Pids -> Pids]
          /\ fg \in Pids /\ mode \in Modes
      BY ModesAssumption DEF Init, Pids
    <2>2. {MaxBuf, MaxCanon, MaxOut, MaxCalls} \subseteq Nat
      BY TerminalAssumption
    <2>3. /\ line \in 0 .. MaxCanon + MaxCalls /\ got \in 0 .. MaxOut /\ calls \in 0 .. MaxCalls
          /\ {written, delivered} \subseteq 0 .. MaxOut
          /\ bufferBytes(inBuf) <= MaxBuf /\ bufferBytes(outBuf) <= MaxBuf
      BY <1>1, <2>2 DEF Init
    <2>4. /\ inBuf \in Seq(Nat) /\ outBuf \in Seq(Nat) /\ readers \in Seq(Pids)
          /\ pump \in {"reading", "got", "hungup", "stopped"}
      BY DEF Init
    <2>5. {exited, master, waited} \subseteq BOOLEAN
      BY Zenon DEF Init
    <2> QED
      BY <2>1, <2>3, <2>4, <2>5 DEF TypeOK
  <1>4. PumpState /\ NobodyStranded
    BY <1>2 DEF Init, PumpState, NobodyStranded
  <1>5. LineBounded /\ OutputConserved
    BY <1>1, TerminalAssumption DEF Init, LineBounded, OutputConserved
  <1> QED
    BY <1>3, <1>4, <1>5 DEF TInv

LEMMA NextInv == TInv /\ [Next]_vars => TInv'
  <1> SUFFICES ASSUME TInv, [Next]_vars PROVE TInv'
    OBVIOUS
  <1>1. CASE UNCHANGED vars
    BY <1>1 DEF vars, procs, input, output, host, TInv, TypeOK, PumpState, LineBounded,
                NobodyStranded, OutputConserved, SlaveOpen, Live
  <1>2. ASSUME NEW n \in 0 .. ReadSize + 1, SlaveWrite(n) PROVE TInv'
    <2>1. n \in Nat
      BY Before
    <2> QED
      BY <1>2, <2>1, SlaveWriteInv
  <1>3. ASSUME NEW p \in Pids, NEW n \in 1 .. 2, SlaveRead(p, n) PROVE TInv'
    BY <1>3, SlaveReadInv
  <1>4. CASE TypeChar \/ TypeErase \/ TypeNewline \/ TypeEof \/ TypeRaw \/ TypeIntrAtShell
             \/ (\E n \in 2 .. MaxBuf + 1 : WriteRaw(n))
             \/ \E echoed \in BOOLEAN : TypeSignal(echoed)
    BY <1>4, TypeInv
  <1>5. ASSUME NEW p \in Pids, NEW c \in Children, Spawn(p, c) PROVE TInv'
    BY <1>5, SpawnInv
  <1>6. CASE (\E p, g \in Pids : setpgid(p, g)) \/ (\E g \in Pids : tcsetpgrp(g))
             \/ (\E m \in Modes : tcsetattr(m))
    BY <1>6, GroupInv
  <1>7. ASSUME NEW p \in Pids, Exit(p) PROVE TInv'
    BY <1>7, ExitInv
  <1>8. CASE PumpTurn \/ ShellReaped \/ WaitResolves
    BY <1>8, PumpTurnInv, ShellReapedInv, WaitResolvesInv
  <1> QED
    BY <1>1, <1>2, <1>3, <1>4, <1>5, <1>6, <1>7, <1>8 DEF Next

LEMMA AlwaysTInv == Spec => []TInv
  <1>1. Init => TInv
    BY InitInv
  <1>2. TInv /\ [Next]_vars => TInv'
    BY NextInv
  <1> QED
    BY <1>1, <1>2, PTL DEF Spec

\* Both buffers of the terminal stay within MAX_PTY_BUFFER_BYTES whatever is typed,
\* echoed and written, and every other variable in its type.
THEOREM TerminalTypes == Spec => []TypeOK
  <1>1. TInv => TypeOK
    BY DEF TInv
  <1> QED
    BY <1>1, AlwaysTInv, PTL

\* No read of a process, nor the pump's, is pending while its data is buffered or the
\* other end is closed.
THEOREM ReadersNotStranded == Spec => []NobodyStranded
  <1>1. TInv => NobodyStranded
    BY DEF TInv
  <1> QED
    BY <1>1, AlwaysTInv, PTL

\* What was put into the output is delivered to the host, held by the pump or buffered,
\* to the byte, through hand-over, buffering and partial reads (drainBuffer).
THEOREM OutputNotLost == Spec => []OutputConserved
  <1>1. TInv => OutputConserved
    BY DEF TInv
  <1> QED
    BY <1>1, AlwaysTInv, PTL

=============================================================================
