----------------------------- MODULE PipeProofs -----------------------------
(***************************************************************************)
(* Proofs about Pipe, for any number of writers, readers and pollers and   *)
(* any buffer size.                                                        *)
(***************************************************************************)
EXTENDS Pipe, SequenceTheorems, TLAPS

\* The wait queue as WaitQueue uses it: enqueue() adds a new handle at the tail,
\* wakeOne() takes the head out, and a handle is never on the queue twice.
LEMMA QueueAppend ==
    ASSUME NEW S, NEW q \in Seq(S), NEW x \in S, IsInjective(q), x \notin Range(q)
    PROVE  /\ Append(q, x) \in Seq(S)
           /\ IsInjective(Append(q, x))
           /\ Range(Append(q, x)) = Range(q) \cup {x}
  <1>1. /\ Append(q, x) \in Seq(S) /\ Len(Append(q, x)) = Len(q) + 1
        /\ \A i \in 1 .. Len(q) : Append(q, x)[i] = q[i]
        /\ Append(q, x)[Len(q) + 1] = x
    BY AppendProperties
  <1>2. /\ Len(q) \in Nat /\ DOMAIN q = 1 .. Len(q)
        /\ DOMAIN Append(q, x) = 1 .. (Len(q) + 1)
    BY <1>1, LenProperties
  <1>3. \A i \in 1 .. Len(q) : q[i] # x
    BY <1>2 DEF Range
  <1>4. IsInjective(Append(q, x))
    BY <1>1, <1>2, <1>3 DEF IsInjective
  <1>5. Range(Append(q, x)) = Range(q) \cup {x}
    BY <1>1, <1>2 DEF Range
  <1> QED
    BY <1>1, <1>4, <1>5

\* Taking the head off a queue without duplicates leaves the other waiters on it,
\* each once.
LEMMA QueueTail ==
    ASSUME NEW S, NEW q \in Seq(S), q # <<>>, IsInjective(q)
    PROVE  /\ Tail(q) \in Seq(S) /\ Head(q) \in S
           /\ IsInjective(Tail(q))
           /\ Head(q) \in Range(q)
           /\ Range(Tail(q)) = Range(q) \ {Head(q)}
  <1>1. /\ Head(q) \in S /\ Tail(q) \in Seq(S) /\ Len(Tail(q)) = Len(q) - 1
        /\ \A i \in 1 .. Len(Tail(q)) : Tail(q)[i] = q[i + 1]
    BY HeadTailProperties
  <1>2. /\ Len(q) \in Nat \ {0} /\ DOMAIN q = 1 .. Len(q)
        /\ DOMAIN Tail(q) = 1 .. (Len(q) - 1)
    BY <1>1, LenProperties, EmptySeq
  <1>3. Head(q) = q[1]
    OBVIOUS
  <1>4. IsInjective(Tail(q))
    BY <1>1, <1>2 DEF IsInjective
  <1>5. \A y : y \in Range(q) => y = q[1] \/ y \in Range(Tail(q))
    <2> SUFFICES ASSUME NEW i \in 1 .. Len(q)
                 PROVE  q[i] = q[1] \/ q[i] \in Range(Tail(q))
      BY <1>2 DEF Range
    <2>1. CASE i = 1
      BY <2>1
    <2>2. CASE i # 1
      <3>1. i - 1 \in 1 .. (Len(q) - 1) /\ Tail(q)[i - 1] = q[i]
        BY <1>1, <1>2, <2>2
      <3> QED
        BY <1>2, <3>1 DEF Range
    <2> QED
      BY <2>1, <2>2
  <1>6. \A y : y \in Range(Tail(q)) => y \in Range(q) /\ y # q[1]
    BY <1>1, <1>2 DEF Range, IsInjective
  <1>7. q[1] \in Range(q)
    BY <1>2 DEF Range
  <1> QED
    BY <1>1, <1>3, <1>4, <1>5, <1>6, <1>7

\* The bytes a writer places: what writeAvailable puts in the stream is a
\* sequence of the length it returns, and never more than it was offered or
\* than the buffer has room for.
LEMMA BytesType ==
    ASSUME TypeOK, NEW w \in Writers, NEW n \in Nat
    PROVE  Bytes(w, n) \in Seq(Byte) /\ Len(Bytes(w, n)) = n
  <1>1. \A i \in 1 .. n : <<w, written[w] + i>> \in Byte
    BY DEF TypeOK, Byte
  <1>2. Bytes(w, n) \in [1 .. n -> Byte]
    BY <1>1 DEF Bytes
  <1> QED
    BY <1>2, IsASeq DEF Bytes

\* An attempt to write places at most what is left and at most the room there is.
LEMMA AcceptedBound ==
    ASSUME TypeOK, BufferBounded, NEW n \in Nat
    PROVE  /\ Accepted(n) \in 0 .. n
           /\ ~Direct(n) => Len(buffer) + Accepted(n) <= MaxBuf
  <1>1. Len(buffer) \in Nat /\ MaxBuf \in Nat
    BY PipeAssumption DEF TypeOK
  <1> QED
    BY <1>1 DEF Accepted, Min2, BufferBounded

\* The part of an attempt to write that both write() and writeBlocking share
\* keeps the types and the buffer bound.
LEMMA WriteAvailableType ==
    ASSUME TypeOK, BufferBounded, NEW w \in Writers, NEW n \in Nat,
           WriteAvailable(w, n)
    PROVE  /\ buffer' \in Seq(Byte) /\ Len(buffer') <= MaxBuf
           /\ delivered' \in Seq(Byte)
           /\ readWaiters' \in Seq(Readers) /\ want' \in [Readers -> Nat]
           /\ written' \in [Writers -> Nat]
           /\ polling' \in [Pollers -> {"idle", "read", "write", "woken"}]
  <1>0. Accepted(n) \in Nat
    BY AcceptedBound
  <1>1. written' \in [Writers -> Nat]
    <2>1. written' = [written EXCEPT ![w] = @ + Accepted(n)]
      BY DEF WriteAvailable
    <2>2. written \in [Writers -> Nat]
      BY DEF TypeOK
    <2> QED
      BY <1>0, <2>1, <2>2
  <1>2. polling' \in [Pollers -> {"idle", "read", "write", "woken"}]
    BY DEF WriteAvailable, WakePollers, TypeOK
  <1>3. CASE Direct(n)
    <2>1. Bytes(w, n) \in Seq(Byte)
      BY BytesType
    <2>2. Head(readWaiters) \in Readers /\ Tail(readWaiters) \in Seq(Readers)
      BY <1>3 DEF Direct, TypeOK
    <2>4. /\ buffer' = buffer /\ delivered' = delivered \o Bytes(w, n)
          /\ readWaiters' = Tail(readWaiters)
          /\ want' = [want EXCEPT ![Head(readWaiters)] = 0]
      BY <1>3 DEF WriteAvailable
    <2>5. delivered' \in Seq(Byte)
      BY <2>1, <2>4 DEF TypeOK
    <2> QED
      BY <1>1, <1>2, <2>2, <2>4, <2>5 DEF TypeOK, BufferBounded
  <1>4. CASE ~Direct(n)
    <2>1. /\ Bytes(w, Accepted(n)) \in Seq(Byte)
          /\ Len(Bytes(w, Accepted(n))) = Accepted(n)
      BY <1>0, BytesType
    <2>2. /\ buffer' = buffer \o Bytes(w, Accepted(n))
          /\ UNCHANGED <<delivered, want, readWaiters>>
      BY <1>4 DEF WriteAvailable
    <2>3. /\ buffer' \in Seq(Byte)
          /\ Len(buffer') = Len(buffer) + Accepted(n)
      BY <2>1, <2>2, ConcatProperties DEF TypeOK
    <2>4. Len(buffer') <= MaxBuf
      BY <1>4, <2>3, AcceptedBound
    <2> QED
      BY <1>1, <1>2, <2>2, <2>3, <2>4 DEF TypeOK
  <1> QED
    BY <1>3, <1>4

----------------------------------------------------------------------------

\* The inductive invariant.  The bound on the buffer needs the types; that no
\* reader is stranded needs that a reader blocks only on an empty buffer; that
\* no writer is stranded needs the queue to hold exactly the suspended writers.
IInv ==
    /\ TypeOK /\ BufferBounded
    /\ NoStrandedReader /\ WritersSeeClose /\ QueueConsistent
    /\ EofMeansDrained /\ PollNotMissed

\* An attempt to write on an open pipe strands no reader and no poller.
LEMMA WriteAvailableWakes ==
    ASSUME IInv, NEW w \in Writers, NEW n \in Nat, ~closedR, ~closedW,
           WriteAvailable(w, n), UNCHANGED <<closedR, closedW, pollSeen>>
    PROVE  NoStrandedReader' /\ PollNotMissed'
  <1> USE DEF IInv
  <1>1. CASE Direct(n)
    <2>1. readWaiters # <<>> /\ buffer = <<>> /\ buffer' = buffer /\ n > 0
      BY <1>1 DEF Direct, WriteAvailable
    <2>2. NoStrandedReader'
      BY <2>1 DEF NoStrandedReader
    <2>3. WakePollers
      BY <1>1, <2>1 DEF WriteAvailable, Accepted
    <2>4. \A p \in Pollers : polling'[p] \notin {"read", "write"}
      BY <2>3 DEF WakePollers, TypeOK
    <2> QED
      BY <2>2, <2>4 DEF PollNotMissed
  <1>2. CASE ~Direct(n) /\ Accepted(n) > 0
    <2>1. WakePollers /\ readWaiters' = readWaiters
      BY <1>2 DEF WriteAvailable
    <2>2. \A p \in Pollers : polling'[p] \notin {"read", "write"}
      BY <2>1 DEF WakePollers, TypeOK
    <2>3. n > 0
      BY <1>2, AcceptedBound
    <2>4. readWaiters = <<>>
      BY <1>2, <2>3 DEF Direct, NoStrandedReader
    <2> QED
      BY <2>1, <2>2, <2>4 DEF NoStrandedReader, PollNotMissed
  <1>3. CASE ~Direct(n) /\ Accepted(n) = 0
    <2>1. /\ buffer' = buffer \o Bytes(w, 0)
          /\ UNCHANGED <<polling, readWaiters>>
      BY <1>3 DEF WriteAvailable
    <2>2. Bytes(w, 0) \in Seq(Byte) /\ Len(Bytes(w, 0)) = 0
      BY BytesType
    <2>3. Bytes(w, 0) = <<>>
      BY <2>2, EmptySeq
    <2>4. buffer' = buffer
      BY <2>1, <2>3, ConcatEmptySeq DEF TypeOK
    <2> QED
      BY <2>1, <2>4 DEF NoStrandedReader, PollNotMissed, Ready
  <1> QED
    BY <1>1, <1>2, <1>3, AcceptedBound

\* write() and the resumption of writeBlocking keep the invariant; each either
\* fails on a closed end, ends the call, or puts the writer on the queue.
LEMMA WriteInv ==
    ASSUME IInv, NEW w \in Writers, NEW n \in 0 .. MaxLen, Write(w, n)
    PROVE  IInv'
  <1> USE DEF IInv
  <1>n. n \in Nat
    BY PipeAssumption
  <1>0. /\ wpc[w] = "idle" /\ ~closedW
        /\ UNCHANGED <<closedR, closedW, nonBlocking, eof, bypassed, pollSeen>>
    BY DEF Write
  <1>1. CASE closedR
    <2>1. WriteFails(w) /\ UNCHANGED wvars
      BY <1>1 DEF Write
    <2>2. signalled' \subseteq Writers
      BY <2>1 DEF WriteFails, TypeOK
    <2>3. UNCHANGED <<buffer, readWaiters, want, polling, delivered, written,
                      acked, writeWaiters, wpc, size, offset>>
      BY <2>1 DEF WriteFails, wvars
    <2>4. TypeOK'
      BY <1>0, <2>2, <2>3, Zenon DEF TypeOK
    <2> QED
      BY <1>0, <2>3, <2>4 DEF BufferBounded, NoStrandedReader, WritersSeeClose,
         QueueConsistent, EofMeansDrained, PollNotMissed, Ready
  <1>2. CASE ~closedR
    <2>1. WriteAvailable(w, n) /\ UNCHANGED signalled
      BY <1>2 DEF Write
    <2>2. /\ buffer' \in Seq(Byte) /\ Len(buffer') <= MaxBuf
          /\ delivered' \in Seq(Byte)
          /\ readWaiters' \in Seq(Readers) /\ want' \in [Readers -> Nat]
          /\ written' \in [Writers -> Nat]
          /\ polling' \in [Pollers -> {"idle", "read", "write", "woken"}]
      BY <1>n, <2>1, WriteAvailableType
    <2>3. NoStrandedReader' /\ PollNotMissed'
      BY <1>n, <1>0, <1>2, <2>1, WriteAvailableWakes
    <2>4. Accepted(n) \in 0 .. n
      BY <1>n, AcceptedBound
    <2>5. EofMeansDrained' /\ WritersSeeClose'
      BY <1>0, <1>2 DEF EofMeansDrained, WritersSeeClose
    <2>6. /\ acked' \in [Writers -> Nat] /\ writeWaiters' \in Seq(Writers)
          /\ wpc' \in [Writers -> {"idle", "waiting", "woken"}]
          /\ size' \in [Writers -> 0 .. MaxLen] /\ offset' \in [Writers -> 0 .. MaxLen]
          /\ QueueConsistent'
      <3>1. CASE UNCHANGED wvars
        <4>1. acked' = [acked EXCEPT ![w] = @ + n]
              \/ acked' = [acked EXCEPT ![w] = @ + Accepted(n)]
              \/ acked' = acked
          BY <1>2, <3>1 DEF Write, Returns
        <4>2. acked' \in [Writers -> Nat]
          <5>1. acked \in [Writers -> Nat] /\ Accepted(n) \in Nat
            BY <2>4 DEF TypeOK
          <5> QED
            BY <4>1, <5>1, <1>n
        <4> QED
          BY <3>1, <4>2 DEF TypeOK, QueueConsistent, wvars
      <3>2. CASE /\ Accepted(n) < n
                 /\ writeWaiters' = Append(writeWaiters, w)
                 /\ wpc' = [wpc EXCEPT ![w] = "waiting"]
                 /\ size' = [size EXCEPT ![w] = n]
                 /\ offset' = [offset EXCEPT ![w] = Accepted(n)]
                 /\ UNCHANGED acked
        <4>1. /\ writeWaiters \in Seq(Writers) /\ IsInjective(writeWaiters)
              /\ w \notin Range(writeWaiters)
          BY <1>0 DEF TypeOK, QueueConsistent
        <4>2. /\ writeWaiters' \in Seq(Writers)
              /\ IsInjective(writeWaiters')
              /\ Range(writeWaiters') = Range(writeWaiters) \cup {w}
          BY <3>2, <4>1, QueueAppend
        <4>3. /\ wpc' \in [Writers -> {"idle", "waiting", "woken"}]
              /\ size' \in [Writers -> 0 .. MaxLen] /\ offset' \in [Writers -> 0 .. MaxLen]
          <5>1. Accepted(n) \in 0 .. MaxLen
            BY <2>4, <1>n, PipeAssumption
          <5> QED
            BY <3>2, <5>1 DEF TypeOK
        <4>4. \A v \in Writers : wpc'[v] = "waiting" <=> v \in Range(writeWaiters')
          BY <3>2, <4>2 DEF TypeOK, QueueConsistent
        <4>5. \A v \in Writers : IF wpc'[v] = "idle"
                                 THEN size'[v] = 0 /\ offset'[v] = 0
                                 ELSE offset'[v] < size'[v]
          BY <3>2, <2>4 DEF TypeOK, QueueConsistent
        <4> QED
          BY <3>2, <4>2, <4>3, <4>4, <4>5 DEF TypeOK, QueueConsistent
      <3> QED
        BY <1>2, <3>1, <3>2 DEF Write
    <2>7. TypeOK'
      BY <1>0, <2>1, <2>2, <2>6, Zenon DEF TypeOK
    <2> QED
      BY <2>2, <2>3, <2>5, <2>6, <2>7 DEF BufferBounded
  <1> QED
    BY <1>1, <1>2

\* A woken writer that runs again fails, finishes or goes back on the queue, and
\* keeps the invariant in each case.
LEMMA ResumeInv ==
    ASSUME IInv, NEW w \in Writers, Resume(w)
    PROVE  IInv'
  <1> USE DEF IInv
  <1> DEFINE n == Remaining(w)
  <1>0. /\ wpc[w] = "woken"
        /\ UNCHANGED <<closedR, closedW, nonBlocking, eof, pollSeen>>
    BY DEF Resume
  <1>b. bypassed' \in BOOLEAN
    BY DEF Resume, TypeOK
  <1>s. /\ offset[w] \in 0 .. MaxLen /\ size[w] \in 0 .. MaxLen
        /\ offset[w] < size[w] /\ MaxLen \in Nat
    BY <1>0, PipeAssumption DEF TypeOK, QueueConsistent
  <1>n. n \in Nat /\ offset[w] \in Nat /\ size[w] \in Nat /\ offset[w] < size[w]
        /\ n = size[w] - offset[w]
    BY <1>s DEF Remaining
  <1>q. w \notin Range(writeWaiters)
    BY <1>0 DEF QueueConsistent
  \* The call ends: the writer is idle and the queue is as it was.
  <1>e. ASSUME WriterLeaves(w)
        PROVE  /\ writeWaiters' = writeWaiters
               /\ wpc' \in [Writers -> {"idle", "waiting", "woken"}]
               /\ size' \in [Writers -> 0 .. MaxLen] /\ offset' \in [Writers -> 0 .. MaxLen]
               /\ QueueConsistent'
    <2>1. /\ writeWaiters' = writeWaiters
          /\ wpc' = [wpc EXCEPT ![w] = "idle"]
          /\ size' = [size EXCEPT ![w] = 0]
          /\ offset' = [offset EXCEPT ![w] = 0]
      BY <1>e DEF WriterLeaves
    <2>2. /\ wpc' \in [Writers -> {"idle", "waiting", "woken"}]
          /\ size' \in [Writers -> 0 .. MaxLen] /\ offset' \in [Writers -> 0 .. MaxLen]
      BY <2>1, PipeAssumption DEF TypeOK
    <2>3. \A v \in Writers : wpc'[v] = "waiting" <=> v \in Range(writeWaiters')
      BY <2>1, <1>q DEF TypeOK, QueueConsistent
    <2>4. \A v \in Writers : IF wpc'[v] = "idle"
                             THEN size'[v] = 0 /\ offset'[v] = 0
                             ELSE offset'[v] < size'[v]
      BY <2>1 DEF TypeOK, QueueConsistent
    <2> QED
      BY <2>1, <2>2, <2>3, <2>4 DEF QueueConsistent
  <1>1. CASE closedR \/ closedW
    <2>1. WriteFails(w) /\ WriterLeaves(w)
      BY <1>1 DEF Resume
    <2>2. signalled' \subseteq Writers
      BY <2>1 DEF WriteFails, TypeOK
    <2>3. UNCHANGED <<buffer, readWaiters, want, polling, delivered, written,
                      acked>>
      BY <2>1 DEF WriteFails
    <2>4. TypeOK'
      BY <1>0, <1>b, <1>e, <2>1, <2>2, <2>3, Zenon DEF TypeOK
    <2> QED
      BY <1>0, <1>e, <2>1, <2>3, <2>4 DEF BufferBounded, NoStrandedReader,
         WritersSeeClose, EofMeansDrained, PollNotMissed, Ready
  <1>2. CASE ~closedR /\ ~closedW
    <2>1. WriteAvailable(w, n) /\ UNCHANGED signalled
      BY <1>2 DEF Resume
    <2>2. /\ buffer' \in Seq(Byte) /\ Len(buffer') <= MaxBuf
          /\ delivered' \in Seq(Byte)
          /\ readWaiters' \in Seq(Readers) /\ want' \in [Readers -> Nat]
          /\ written' \in [Writers -> Nat]
          /\ polling' \in [Pollers -> {"idle", "read", "write", "woken"}]
      BY <1>n, <2>1, WriteAvailableType
    <2>3. NoStrandedReader' /\ PollNotMissed'
      BY <1>n, <1>0, <1>2, <2>1, WriteAvailableWakes
    <2>4. Accepted(n) \in 0 .. n
      BY <1>n, AcceptedBound
    <2>5. EofMeansDrained' /\ WritersSeeClose'
      BY <1>0, <1>2 DEF EofMeansDrained, WritersSeeClose
    <2>6. /\ acked' \in [Writers -> Nat] /\ writeWaiters' \in Seq(Writers)
          /\ wpc' \in [Writers -> {"idle", "waiting", "woken"}]
          /\ size' \in [Writers -> 0 .. MaxLen] /\ offset' \in [Writers -> 0 .. MaxLen]
          /\ QueueConsistent'
      <3>1. CASE Returns(w, size[w]) /\ WriterLeaves(w)
        <4>1. acked' = [acked EXCEPT ![w] = @ + size[w]]
          BY <3>1 DEF Returns
        <4>2. acked \in [Writers -> Nat] /\ writeWaiters \in Seq(Writers)
          BY DEF TypeOK
        <4>3. acked' \in [Writers -> Nat]
          BY <4>1, <4>2, <1>n
        <4> QED
          BY <3>1, <4>2, <4>3, <1>e
      <3>2. CASE /\ Accepted(n) < n
                 /\ writeWaiters' = Append(writeWaiters, w)
                 /\ wpc' = [wpc EXCEPT ![w] = "waiting"]
                 /\ offset' = [offset EXCEPT ![w] = @ + Accepted(n)]
                 /\ UNCHANGED <<size, acked>>
        <4>1. writeWaiters \in Seq(Writers) /\ IsInjective(writeWaiters)
          BY DEF TypeOK, QueueConsistent
        <4>2. /\ writeWaiters' \in Seq(Writers)
              /\ IsInjective(writeWaiters')
              /\ Range(writeWaiters') = Range(writeWaiters) \cup {w}
          BY <3>2, <4>1, <1>q, QueueAppend
        <4>3. /\ Accepted(n) \in Nat /\ offset[w] + Accepted(n) < size[w]
              /\ offset[w] + Accepted(n) \in 0 .. MaxLen
          <5> HIDE DEF n
          <5> QED
            BY <3>2, <2>4, <1>n, <1>s
        <4>4. /\ wpc' \in [Writers -> {"idle", "waiting", "woken"}]
              /\ offset' \in [Writers -> 0 .. MaxLen]
          BY <3>2, <4>3 DEF TypeOK
        <4>5. \A v \in Writers : wpc'[v] = "waiting" <=> v \in Range(writeWaiters')
          BY <3>2, <4>2 DEF TypeOK, QueueConsistent
        <4>6. \A v \in Writers : IF wpc'[v] = "idle"
                                 THEN size'[v] = 0 /\ offset'[v] = 0
                                 ELSE offset'[v] < size'[v]
          BY <3>2, <4>3 DEF TypeOK, QueueConsistent
        <4> QED
          BY <3>2, <4>2, <4>4, <4>5, <4>6 DEF TypeOK, QueueConsistent
      <3> QED
        BY <1>2, <3>1, <3>2 DEF Resume
    <2>7. TypeOK'
      BY <1>0, <1>b, <2>1, <2>2, <2>6, Zenon DEF TypeOK
    <2> QED
      BY <2>2, <2>3, <2>5, <2>6, <2>7 DEF BufferBounded
  <1> QED
    BY <1>1, <1>2

\* What is left of a sequence after its first k elements were taken.
LEMMA SuffixSeq ==
    ASSUME NEW S, NEW s \in Seq(S), NEW k \in 0 .. Len(s)
    PROVE  /\ SubSeq(s, k + 1, Len(s)) \in Seq(S)
           /\ Len(SubSeq(s, k + 1, Len(s))) = Len(s) - k
  <1>1. Len(s) \in Nat /\ k \in Nat /\ k <= Len(s)
    OBVIOUS
  <1>2. \A i \in k + 1 .. Len(s) : s[i] \in S
    BY <1>1, ElementOfSeq
  <1>3. CASE k = Len(s)
    BY <1>1, <1>2, <1>3, SubSeqProperties
  <1>4. CASE k < Len(s)
    BY <1>1, <1>2, <1>4, SubSeqProperties
  <1> QED
    BY <1>1, <1>3, <1>4

\* A read drains, reports the end, or blocks; draining wakes one writer.
LEMMA ReadInv ==
    ASSUME IInv, NEW r \in Readers, NEW n \in 0 .. MaxLen, Read(r, n)
    PROVE  IInv'
  <1> USE DEF IInv
  <1>n. n \in Nat /\ Len(buffer) \in Nat /\ MaxBuf \in Nat
    BY PipeAssumption DEF TypeOK
  <1>0. /\ ~closedR
        /\ UNCHANGED <<closedR, closedW, nonBlocking, size, offset, written,
                       acked, signalled, pollSeen>>
    BY DEF Read
  <1>b. bypassed' \in BOOLEAN
    BY DEF Read, TypeOK
  <1>1. CASE buffer # <<>>
    <2> DEFINE k == Min2(n, Len(buffer))
    <2>1. /\ delivered' = delivered \o SubSeq(buffer, 1, k)
          /\ buffer' = SubSeq(buffer, k + 1, Len(buffer))
          /\ WakeOneWriter /\ WakePollers
          /\ UNCHANGED <<readWaiters, want, eof>>
      BY <1>1 DEF Read, Undrained
    <2>2. k \in 0 .. Len(buffer)
      BY <1>n DEF Min2
    <2>3. \A i \in 1 .. Len(buffer) : buffer[i] \in Byte
      BY ElementOfSeq DEF TypeOK
    <2>4. SubSeq(buffer, 1, k) \in Seq(Byte)
      BY <1>n, <2>2, <2>3, SubSeqProperties
    <2>5. delivered' \in Seq(Byte)
      BY <2>1, <2>4, ConcatProperties DEF TypeOK
    <2>6. buffer' \in Seq(Byte) /\ Len(buffer') <= Len(buffer)
      <3> HIDE DEF k, IInv
      <3>1. buffer \in Seq(Byte)
        BY DEF IInv, TypeOK
      <3>2. /\ SubSeq(buffer, k + 1, Len(buffer)) \in Seq(Byte)
            /\ Len(SubSeq(buffer, k + 1, Len(buffer))) = Len(buffer) - k
        BY <2>2, <3>1, SuffixSeq
      <3> QED
        BY <1>n, <2>1, <2>2, <3>2
    <2>7. BufferBounded'
      BY <1>n, <2>6 DEF BufferBounded
    <2>8. NoStrandedReader' /\ EofMeansDrained'
      BY <1>1, <2>1, <1>0 DEF NoStrandedReader, EofMeansDrained
    <2>9. /\ polling' \in [Pollers -> {"idle", "read", "write", "woken"}]
          /\ PollNotMissed'
      BY <2>1 DEF WakePollers, TypeOK, PollNotMissed
    <2>10. /\ writeWaiters' \in Seq(Writers)
           /\ wpc' \in [Writers -> {"idle", "waiting", "woken"}]
           /\ QueueConsistent' /\ WritersSeeClose'
      <3>1. CASE writeWaiters = <<>>
        BY <1>0, <2>1, <3>1
           DEF WakeOneWriter, TypeOK, QueueConsistent, WritersSeeClose
      <3>2. CASE writeWaiters # <<>>
        <4>1. /\ wpc' = Wake({Head(writeWaiters)})
              /\ writeWaiters' = Tail(writeWaiters)
          BY <2>1, <3>2 DEF WakeOneWriter
        <4>2. writeWaiters \in Seq(Writers) /\ IsInjective(writeWaiters)
          BY DEF TypeOK, QueueConsistent
        <4>3. /\ writeWaiters' \in Seq(Writers) /\ IsInjective(writeWaiters')
              /\ Head(writeWaiters) \in Range(writeWaiters)
              /\ Range(writeWaiters') = Range(writeWaiters) \ {Head(writeWaiters)}
          BY <3>2, <4>1, <4>2, QueueTail
        <4>4. \A v \in Writers :
                wpc'[v] = IF v = Head(writeWaiters) THEN "woken" ELSE wpc[v]
          BY <4>1 DEF Wake
        <4>5. wpc' \in [Writers -> {"idle", "waiting", "woken"}]
          BY <4>1 DEF Wake, TypeOK
        <4>6. \A v \in Writers : wpc'[v] = "waiting" <=> v \in Range(writeWaiters')
          BY <4>3, <4>4 DEF QueueConsistent
        <4>7. Head(writeWaiters) \in Writers /\ wpc[Head(writeWaiters)] = "waiting"
          BY <3>2, <4>2, <4>3, QueueTail DEF QueueConsistent
        <4>8. \A v \in Writers : IF wpc'[v] = "idle"
                                 THEN size'[v] = 0 /\ offset'[v] = 0
                                 ELSE offset'[v] < size'[v]
          BY <1>0, <4>4, <4>7 DEF QueueConsistent
        <4>9. WritersSeeClose'
          BY <1>0, <3>2 DEF WritersSeeClose
        <4> QED
          BY <4>3, <4>5, <4>6, <4>8, <4>9 DEF QueueConsistent
      <3> QED
        BY <3>1, <3>2
    <2>11. TypeOK'
      BY <1>0, <1>b, <2>1, <2>5, <2>6, <2>9, <2>10, Zenon DEF TypeOK
    <2> QED
      BY <2>7, <2>8, <2>9, <2>10, <2>11
  <1>2. CASE buffer = <<>> /\ closedW
    <2>1. /\ eof' = TRUE
          /\ UNCHANGED <<buffer, readWaiters, want, writeWaiters, wpc, polling,
                         delivered>>
      BY <1>2 DEF Read
    <2>2. TypeOK'
      BY <1>0, <1>b, <2>1, Zenon DEF TypeOK
    <2> QED
      BY <1>0, <1>2, <2>1, <2>2 DEF BufferBounded, NoStrandedReader,
         WritersSeeClose, QueueConsistent, EofMeansDrained, PollNotMissed, Ready
  <1>3. CASE buffer = <<>> /\ ~closedW
    <2>1. /\ readWaiters' = Append(readWaiters, r)
          /\ want' = [want EXCEPT ![r] = n]
          /\ UNCHANGED <<buffer, writeWaiters, wpc, polling, delivered, eof>>
      BY <1>3 DEF Read
    <2>2. readWaiters' \in Seq(Readers) /\ want' \in [Readers -> Nat]
      BY <1>n, <2>1, AppendProperties DEF TypeOK
    <2>3. TypeOK'
      BY <1>0, <1>b, <2>1, <2>2, Zenon DEF TypeOK
    <2> QED
      BY <1>0, <1>3, <2>1, <2>3 DEF BufferBounded, NoStrandedReader,
         WritersSeeClose, QueueConsistent, EofMeansDrained, PollNotMissed, Ready
  <1> QED
    BY <1>1, <1>2, <1>3

\* Closing either end wakes every writer on the queue and every poller.
LEMMA WakeAllInv ==
    ASSUME IInv, WakeAllWriters, WakePollers, UNCHANGED <<size, offset>>
    PROVE  /\ writeWaiters' = <<>> /\ writeWaiters' \in Seq(Writers)
           /\ wpc' \in [Writers -> {"idle", "waiting", "woken"}]
           /\ polling' \in [Pollers -> {"idle", "read", "write", "woken"}]
           /\ QueueConsistent' /\ WritersSeeClose' /\ PollNotMissed'
  <1> USE DEF IInv
  <1>1. writeWaiters' = <<>> /\ wpc' = Wake(Range(writeWaiters))
    BY DEF WakeAllWriters
  <1>2. writeWaiters' \in Seq(Writers) /\ Range(writeWaiters') = {}
        /\ IsInjective(writeWaiters')
    BY <1>1 DEF Range, IsInjective
  <1>3. \A v \in Writers :
          wpc'[v] = IF v \in Range(writeWaiters) THEN "woken" ELSE wpc[v]
    BY <1>1 DEF Wake
  <1>4. wpc' \in [Writers -> {"idle", "waiting", "woken"}]
    BY <1>1 DEF Wake, TypeOK
  <1>5. \A v \in Writers : wpc'[v] = "waiting" <=> v \in Range(writeWaiters')
    BY <1>2, <1>3 DEF QueueConsistent
  <1>6. \A v \in Writers : IF wpc'[v] = "idle"
                           THEN size'[v] = 0 /\ offset'[v] = 0
                           ELSE offset'[v] < size'[v]
    BY <1>3 DEF QueueConsistent
  <1>7. /\ polling' \in [Pollers -> {"idle", "read", "write", "woken"}]
        /\ PollNotMissed'
    BY DEF WakePollers, TypeOK, PollNotMissed
  <1>8. WritersSeeClose'
    BY <1>1 DEF WritersSeeClose
  <1> QED
    BY <1>1, <1>2, <1>4, <1>5, <1>6, <1>7, <1>8 DEF QueueConsistent

\* Closing the read end or the write end keeps the invariant.
LEMMA CloseInv ==
    ASSUME IInv, CloseRead \/ CloseWrite
    PROVE  IInv'
  <1> USE DEF IInv
  <1>1. CASE CloseRead
    <2>1. /\ closedR' = TRUE /\ WakeAllWriters /\ WakePollers
          /\ UNCHANGED <<buffer, closedW, nonBlocking, readWaiters, want, size,
                         offset, pollSeen>>
          /\ UNCHANGED <<delivered, written, acked, signalled, eof, bypassed>>
      BY <1>1 DEF CloseRead, hist
    <2>2. TypeOK'
      BY <2>1, WakeAllInv, Zenon DEF TypeOK
    <2> QED
      BY <2>1, <2>2, WakeAllInv DEF BufferBounded, NoStrandedReader, EofMeansDrained
  <1>2. CASE CloseWrite
    <2>1. /\ closedW' = TRUE /\ WakeAllWriters /\ WakePollers
          /\ readWaiters' = <<>> /\ want' = [r \in Readers |-> 0]
          /\ UNCHANGED <<buffer, closedR, nonBlocking, size, offset, delivered,
                         written, acked, signalled, bypassed, pollSeen>>
      BY <1>2 DEF CloseWrite
    <2>2. eof' = (eof \/ readWaiters # <<>>)
      BY <1>2 DEF CloseWrite
    <2>3. eof' \in BOOLEAN
      BY <2>2
    <2>4. readWaiters' \in Seq(Readers) /\ want' \in [Readers -> Nat]
      BY <2>1
    <2>5. TypeOK'
      BY <2>1, <2>3, <2>4, WakeAllInv, Zenon DEF TypeOK
    <2>6. EofMeansDrained'
      BY <2>1, <2>2 DEF EofMeansDrained, NoStrandedReader
    <2> QED
      BY <2>1, <2>5, <2>6, WakeAllInv DEF BufferBounded, NoStrandedReader
  <1> QED
    BY <1>1, <1>2

\* A poller that starts to wait, times out or returns keeps the invariant.
LEMMA PollInv ==
    ASSUME IInv, NEW p \in Pollers,
           \/ \E end \in {"read", "write"} : PollWait(p, end)
           \/ PollTimeout(p) \/ PollReturn(p)
    PROVE  IInv'
  <1> USE DEF IInv
  <1>1. UNCHANGED <<buffer, closedR, closedW, nonBlocking, readWaiters, want,
                    writeWaiters, wpc, size, offset,
                    delivered, written, acked, signalled, eof, bypassed>>
    BY DEF PollWait, PollTimeout, PollReturn, wvars, hist
  <1>2. /\ polling' \in [Pollers -> {"idle", "read", "write", "woken"}]
        /\ pollSeen' \in [Pollers -> BOOLEAN] /\ PollNotMissed'
    <2>1. ASSUME NEW end \in {"read", "write"}, PollWait(p, end)
          PROVE  /\ polling' \in [Pollers -> {"idle", "read", "write", "woken"}]
                 /\ pollSeen' \in [Pollers -> BOOLEAN] /\ PollNotMissed'
      <3>1. Ready(end) \in BOOLEAN
        BY DEF Ready, TypeOK
      <3>2. /\ polling' = [polling EXCEPT ![p] = end]
            /\ pollSeen' = [pollSeen EXCEPT ![p] = Ready(end)]
        BY <2>1 DEF PollWait
      <3>3. /\ polling' \in [Pollers -> {"idle", "read", "write", "woken"}]
            /\ pollSeen' \in [Pollers -> BOOLEAN]
        BY <3>1, <3>2 DEF TypeOK
      <3>4. Ready(end)' = Ready(end)
        BY <1>1 DEF Ready
      <3>5. \A q \in Pollers \ {p} : polling'[q] = polling[q] /\ pollSeen'[q] = pollSeen[q]
        BY <3>2 DEF TypeOK
      <3>6. \A q \in Pollers : Ready(polling[q])' = Ready(polling'[q])
        BY <1>1 DEF Ready
      <3>7. polling'[p] = end /\ pollSeen'[p] = Ready(end)
        BY <3>2 DEF TypeOK
      <3>8. PollNotMissed'
        BY <3>5, <3>6, <3>7 DEF PollNotMissed
      <3> QED
        BY <3>3, <3>8
    <2>2. ASSUME PollTimeout(p) \/ PollReturn(p)
          PROVE  /\ polling' \in [Pollers -> {"idle", "read", "write", "woken"}]
                 /\ pollSeen' \in [Pollers -> BOOLEAN] /\ PollNotMissed'
      <3>1. /\ polling' \in [Pollers -> {"idle", "read", "write", "woken"}]
            /\ polling'[p] \notin {"read", "write"}
            /\ \A q \in Pollers \ {p} : polling'[q] = polling[q]
        BY <2>2 DEF PollTimeout, PollReturn, TypeOK
      <3>2. /\ pollSeen' \in [Pollers -> BOOLEAN]
            /\ \A q \in Pollers \ {p} : pollSeen'[q] = pollSeen[q]
        BY <2>2 DEF PollTimeout, PollReturn, TypeOK
      <3>3. \A q \in Pollers : Ready(polling[q])' = Ready(polling'[q])
        BY <1>1 DEF Ready
      <3>4. PollNotMissed'
        BY <3>1, <3>2, <3>3 DEF PollNotMissed
      <3> QED
        BY <3>1, <3>2, <3>4
    <2> QED
      BY <2>1, <2>2
  <1>3. TypeOK'
    BY <1>1, <1>2, Zenon DEF TypeOK
  <1> QED
    BY <1>1, <1>2, <1>3 DEF BufferBounded, NoStrandedReader, WritersSeeClose,
       QueueConsistent, EofMeansDrained

\* The invariant holds in every reachable state of every instance.
THEOREM PipeInvariant == Spec => []IInv
  <1>1. Init => IInv
    <2> SUFFICES ASSUME Init PROVE IInv
      OBVIOUS
    <2>0. /\ closedR \in BOOLEAN /\ closedW \in BOOLEAN
          /\ nonBlocking \in BOOLEAN /\ eof \in BOOLEAN
          /\ bypassed \in BOOLEAN /\ pollSeen \in [Pollers -> BOOLEAN]
      BY Zenon DEF Init
    <2>1. TypeOK
      BY <2>0, PipeAssumption DEF Init, TypeOK
    <2>2. BufferBounded
      BY PipeAssumption DEF Init, BufferBounded
    <2> QED
      BY <2>1, <2>2 DEF IInv, Init, NoStrandedReader, WritersSeeClose,
         QueueConsistent, EofMeansDrained, PollNotMissed, Range, IsInjective
  <1>2. IInv /\ [Next]_vars => IInv'
    <2> SUFFICES ASSUME IInv, [Next]_vars PROVE IInv'
      OBVIOUS
    <2>1. CASE UNCHANGED vars
      <3>1. TypeOK'
        BY <2>1, Zenon DEF vars, IInv, TypeOK
      <3>2. /\ BufferBounded' /\ NoStrandedReader' /\ WritersSeeClose'
            /\ QueueConsistent' /\ EofMeansDrained' /\ PollNotMissed'
        BY <2>1 DEF vars, IInv, BufferBounded, NoStrandedReader,
           WritersSeeClose, QueueConsistent, EofMeansDrained, PollNotMissed, Ready
      <3> QED
        BY <3>1, <3>2 DEF IInv
    <2> QED
      BY <2>1, WriteInv, ResumeInv, ReadInv, CloseInv, PollInv DEF Next
  <1> QED
    BY <1>1, <1>2, PTL DEF Spec

\* Where an open pipe does not accept all of a write, it is full afterwards; where it
\* accepts some of it without a reader for it, it is not empty.
LEMMA NotDrained ==
    ASSUME IInv, NEW w \in Writers, NEW n \in Nat, WriteAvailable(w, n), ~Direct(n),
           Accepted(n) < n \/ n > 0
    PROVE  buffer' # <<>>
  <1>1. /\ buffer \in Seq(Byte) /\ Len(buffer) \in Nat /\ Len(buffer) <= MaxBuf
        /\ MaxBuf \in Nat /\ MaxBuf > 0
    BY PipeAssumption DEF IInv, TypeOK, BufferBounded
  <1>2. Accepted(n) \in 0 .. n /\ Accepted(n) = Min2(MaxBuf - Len(buffer), n)
    BY AcceptedBound DEF Accepted, IInv
  <1>3. Len(buffer) + Accepted(n) > 0
    BY <1>1, <1>2 DEF Min2
  <1>4. buffer' = buffer \o Bytes(w, Accepted(n))
    BY DEF WriteAvailable
  <1>5. Bytes(w, Accepted(n)) \in Seq(Byte) /\ Len(Bytes(w, Accepted(n))) = Accepted(n)
    <2>1. \A i \in 1 .. Accepted(n) : <<w, written[w] + i>> \in Byte
      BY <1>2 DEF Byte, IInv, TypeOK
    <2> QED
      BY <1>2, <2>1 DEF Bytes
  <1>6. Len(buffer') = Len(buffer) + Accepted(n)
    BY <1>1, <1>4, <1>5, ConcatProperties
  <1> QED
    BY <1>1, <1>3, <1>6

\* Every step leaves behind no writer but one passed over by a direct hand-over.
LEMMA DrainSeen ==
    ASSUME IInv, IInv', WritersSeeDrain, [Next]_vars
    PROVE  WritersSeeDrain'
  <1> SUFFICES ASSUME writeWaiters' # <<>>, buffer' = <<>>, ~bypassed'
               PROVE  \E w \in Writers : wpc'[w] = "woken"
    BY DEF WritersSeeDrain
  <1>0. ~closedR' /\ ~closedW'
    BY DEF IInv, WritersSeeClose
  <1>1. ASSUME NEW w \in Writers, NEW n \in 0 .. MaxLen, Write(w, n)
        PROVE  \E v \in Writers : wpc'[v] = "woken"
    <2>1. /\ wpc[w] = "idle" /\ ~closedR /\ n \in Nat /\ WriteAvailable(w, n)
          /\ bypassed' = bypassed
      BY <1>0, <1>1, PipeAssumption DEF Write
    <2>2. ~(Accepted(n) < n)
      <3>1. Direct(n) => Accepted(n) = n
        BY DEF Accepted
      <3> QED
        BY <2>1, <3>1, NotDrained
    <2>3. UNCHANGED wvars
      BY <1>1, <2>1, <2>2 DEF Write
    <2>4. buffer = <<>>
      <3>1. CASE Direct(n)
        BY <3>1 DEF Direct
      <3>2. CASE ~Direct(n) /\ n > 0
        BY <2>1, <3>2, NotDrained
      <3>3. CASE n = 0
        <4>1. ~Direct(n) /\ Accepted(n) = 0
          BY <2>1, <3>3, AcceptedBound DEF Direct, IInv
        <4>2. buffer' = buffer \o Bytes(w, 0) /\ Bytes(w, 0) = <<>>
          BY <2>1, <4>1, EmptySeq DEF WriteAvailable, Bytes
        <4> QED
          BY <4>2, ConcatEmptySeq DEF IInv, TypeOK
      <3> QED
        BY <2>1, <3>1, <3>2, <3>3
    <2> QED
      BY <2>1, <2>3, <2>4 DEF WritersSeeDrain, wvars
  <1>2. ASSUME NEW w \in Writers, Resume(w)
        PROVE  FALSE
    <2> DEFINE n == Remaining(w)
    <2>1. ~closedR /\ ~closedW /\ wpc[w] = "woken"
      BY <1>0, <1>2 DEF Resume
    <2>2. n \in Nat /\ n > 0
      <3>1. /\ offset[w] \in 0 .. MaxLen /\ size[w] \in 0 .. MaxLen
            /\ offset[w] < size[w] /\ MaxLen \in Nat
        BY <2>1, PipeAssumption DEF IInv, QueueConsistent, TypeOK
      <3> QED
        BY <3>1 DEF Remaining
    <2>3. WriteAvailable(w, n) /\ ~Direct(n)
      BY <1>2, <2>1 DEF Resume
    <2> HIDE DEF n
    <2> QED
      BY <2>2, <2>3, NotDrained
  <1>3. ASSUME NEW r \in Readers, NEW n \in 0 .. MaxLen, Read(r, n)
        PROVE  \E v \in Writers : wpc'[v] = "woken"
    <2>1. CASE buffer # <<>>
      <3>1. WakeOneWriter
        BY <1>3, <2>1 DEF Read
      <3>2. writeWaiters # <<>> /\ wpc' = Wake({Head(writeWaiters)})
        BY <3>1 DEF WakeOneWriter
      <3>3. Head(writeWaiters) \in Writers
        BY <3>2 DEF IInv, TypeOK
      <3> QED
        BY <3>2, <3>3 DEF Wake
    <2>2. CASE buffer = <<>>
      BY <1>3, <2>2 DEF Read, WritersSeeDrain
    <2> QED
      BY <2>1, <2>2
  <1>4. ASSUME CloseRead \/ CloseWrite
        PROVE  FALSE
    BY <1>0, <1>4 DEF CloseRead, CloseWrite
  <1>5. ASSUME NEW p \in Pollers,
               \/ \E end \in {"read", "write"} : PollWait(p, end)
               \/ PollTimeout(p) \/ PollReturn(p)
        PROVE  \E v \in Writers : wpc'[v] = "woken"
    BY <1>5 DEF PollWait, PollTimeout, PollReturn, wvars, hist, WritersSeeDrain
  <1>6. CASE UNCHANGED vars
    BY <1>6 DEF vars, WritersSeeDrain
  <1> QED
    BY <1>1, <1>2, <1>3, <1>4, <1>5, <1>6 DEF Next

\* No pipe ever buffers more than MAX_PIPE_BUFFER_BYTES; no blocked reader sleeps
\* beside data or a closed write end, no blocked writer beside a closed end or, with no
\* wakeup under way, beside a drained buffer, unless a direct hand-over passed it
\* over; no poller sleeps through a change that makes its end ready; EOF means drained.
THEOREM PipeSafety ==
    Spec => [](/\ TypeOK /\ BufferBounded /\ NobodyStrandedUnlessBypassed
               /\ EofMeansDrained /\ PollNotMissed)
  <1>1. Init => WritersSeeDrain
    BY DEF Init, WritersSeeDrain
  <1>2. IInv /\ IInv' /\ WritersSeeDrain /\ [Next]_vars => WritersSeeDrain'
    BY DrainSeen
  <1>3. IInv /\ WritersSeeDrain =>
              /\ TypeOK /\ BufferBounded /\ NobodyStrandedUnlessBypassed
              /\ EofMeansDrained /\ PollNotMissed
    BY DEF IInv, NobodyStrandedUnlessBypassed
  <1> QED
    BY <1>1, <1>2, <1>3, PipeInvariant, PTL DEF Spec

----------------------------------------------------------------------------
(* The pipe implements the abstract byte channel. *)

\* What an attempt to write does to the stream: nothing, a send, or a
\* hand-over to a reader that has the whole stream.
LEMMA WriteAvailableStream ==
    ASSUME IInv, NEW w \in Writers, NEW n \in 0 .. MaxLen, ~closedR, ~closedW,
           WriteAvailable(w, n), UNCHANGED <<closedR, closedW, eof>>
    PROVE  [Stream!Next]_(Stream!cvars)
  <1> USE DEF IInv
  <1>n. n \in Nat /\ MaxLen \in Nat
    BY PipeAssumption
  <1>t. buffer \in Seq(Byte) /\ delivered \in Seq(Byte)
    BY DEF TypeOK
  <1>1. CASE Direct(n)
    <2>1. /\ buffer = <<>> /\ buffer' = <<>> /\ n > 0
          /\ delivered' = delivered \o Bytes(w, n)
          /\ written' = [written EXCEPT ![w] = @ + n]
      BY <1>1 DEF Direct, WriteAvailable, Accepted
    <2>2. Bytes(w, n) \in Seq(Byte)
      BY <1>n, BytesType
    <2>3. delivered' \in Seq(Byte)
      BY <1>t, <2>1, <2>2, ConcatProperties
    <2>4. delivered \o buffer = delivered /\ (delivered \o buffer)' = delivered'
      BY <1>t, <2>1, <2>3, ConcatEmptySeq
    <2>5. Stream!HandOver(w, n)
      BY <1>n, <2>1, <2>4 DEF Stream!HandOver, Stream!Extend, Bytes
    <2>6. n \in 1 .. MaxLen
      BY <2>1
    <2> QED
      BY <2>5, <2>6 DEF Stream!Next
  <1>2. CASE ~Direct(n)
    <2> DEFINE k == Accepted(n)
    <2>1. /\ buffer' = buffer \o Bytes(w, k) /\ delivered' = delivered
          /\ written' = [written EXCEPT ![w] = @ + k]
      BY <1>2 DEF WriteAvailable
    <2>2. k \in 0 .. n
      BY <1>n, AcceptedBound
    <2>3. Bytes(w, k) \in Seq(Byte) /\ Len(Bytes(w, k)) = k
      BY <2>2, BytesType
    <2>4. (delivered \o buffer)' = (delivered \o buffer) \o Bytes(w, k)
      <3>1. (delivered \o buffer) \o Bytes(w, k)
              = delivered \o (buffer \o Bytes(w, k))
        BY <1>t, <2>3, ConcatAssociative
      <3> QED
        BY <2>1, <3>1, Zenon
    <2>5. CASE k = 0
      <3>1. Bytes(w, k) = <<>>
        BY <2>3, <2>5, EmptySeq
      <3>2. delivered \o buffer \in Seq(Byte)
        BY <1>t, ConcatProperties
      <3>3. (delivered \o buffer)' = delivered \o buffer
        BY <2>4, <3>1, <3>2, ConcatEmptySeq
      <3>4. written' = written
        BY <2>1, <2>5 DEF TypeOK
      <3> QED
        BY <2>1, <3>3, <3>4 DEF Stream!cvars
    <2>6. CASE k > 0
      <3>1. Stream!Send(w, k)
        BY <2>1, <2>4 DEF Stream!Send, Stream!Extend, Bytes
      <3>2. k \in 1 .. MaxLen
        BY <1>n, <2>2, <2>6
      <3> QED
        BY <3>1, <3>2 DEF Stream!Next
    <2> QED
      BY <2>2, <2>5, <2>6
  <1> QED
    BY <1>1, <1>2

\* Concatenation is associative on sequences of bytes.
LEMMA Associative ==
    \A s, t, u \in Seq(Byte) : (s \o t) \o u = s \o (t \o u)
  BY ConcatAssociative

\* A read of buffered data receives the next part of the stream.
LEMMA ReadStream ==
    ASSUME IInv, NEW r \in Readers, NEW n \in 0 .. MaxLen, Read(r, n)
    PROVE  [Stream!Next]_(Stream!cvars)
  <1> USE DEF IInv
  <1>t. /\ buffer \in Seq(Byte) /\ delivered \in Seq(Byte)
        /\ n \in Nat /\ Len(buffer) \in Nat /\ Len(delivered) \in Nat
    BY PipeAssumption, LenProperties DEF TypeOK
  <1>0. ~closedR /\ UNCHANGED <<closedR, closedW, written>>
    BY DEF Read
  <1>1. CASE buffer # <<>>
    <2> DEFINE k == Min2(n, Len(buffer))
               strm == delivered \o buffer
    <2>1. /\ delivered' = delivered \o SubSeq(buffer, 1, k)
          /\ buffer' = SubSeq(buffer, k + 1, Len(buffer))
          /\ UNCHANGED eof
      BY <1>1 DEF Read, Undrained
    <2>2. k \in 0 .. Len(buffer)
      BY <1>t DEF Min2
    <2>3. \A i \in 1 .. Len(buffer) : buffer[i] \in Byte
      BY <1>t, ElementOfSeq
    <2>4. /\ SubSeq(buffer, 1, k) \in Seq(Byte)
          /\ Len(SubSeq(buffer, 1, k)) = k
          /\ \A i \in 1 .. k : SubSeq(buffer, 1, k)[i] = buffer[i]
      BY <1>t, <2>2, <2>3, SubSeqProperties
    <2>5. SubSeq(buffer, k + 1, Len(buffer)) \in Seq(Byte)
      BY <1>t, <2>2, <2>3, SubSeqProperties
    <2>6. SubSeq(buffer, 1, k) \o SubSeq(buffer, k + 1, Len(buffer)) = buffer
      <3> HIDE DEF k
      <3>1. /\ 1 \in 1 .. Len(buffer) + 1 /\ k \in 1 - 1 .. Len(buffer)
            /\ Len(buffer) \in k .. Len(buffer)
        BY <1>t, <2>2
      <3>2. SubSeq(buffer, 1, k) \o SubSeq(buffer, k + 1, Len(buffer))
              = SubSeq(buffer, 1, Len(buffer))
        BY <1>t, <3>1, ConcatAdjacentSubSeq
      <3> QED
        BY <1>t, <3>2, SubSeqFull
    <2>7. strm' = strm
      <3>1. (delivered \o SubSeq(buffer, 1, k)) \o SubSeq(buffer, k + 1, Len(buffer))
              = delivered \o (SubSeq(buffer, 1, k) \o SubSeq(buffer, k + 1, Len(buffer)))
        <4> HIDE DEF k
        <4>1. /\ delivered \in Seq(Byte)
              /\ SubSeq(buffer, 1, k) \in Seq(Byte)
              /\ SubSeq(buffer, k + 1, Len(buffer)) \in Seq(Byte)
          BY <1>t, <2>4, <2>5
        <4> QED
          BY <4>1, Associative, Zenon
      <3> QED
        BY <2>1, <2>6, <3>1, Zenon
    <2>8. delivered' = SubSeq(strm, 1, Len(delivered) + k)
      <3>1. /\ strm \in Seq(Byte) /\ Len(strm) = Len(delivered) + Len(buffer)
            /\ \A i \in 1 .. Len(delivered) + Len(buffer) :
                 strm[i] = IF i <= Len(delivered) THEN delivered[i]
                        ELSE buffer[i - Len(delivered)]
        BY <1>t, ConcatProperties
      <3>2. /\ delivered' \in Seq(Byte)
            /\ Len(delivered') = Len(delivered) + k
            /\ \A i \in 1 .. Len(delivered) + k :
                 delivered'[i] = IF i <= Len(delivered) THEN delivered[i]
                                 ELSE SubSeq(buffer, 1, k)[i - Len(delivered)]
        BY <1>t, <2>1, <2>2, <2>4, ConcatProperties
      <3>3. \A i \in 1 .. Len(strm) : strm[i] \in Byte
        BY <3>1, ElementOfSeq
      <3>4. /\ SubSeq(strm, 1, Len(delivered) + k) \in Seq(Byte)
            /\ Len(SubSeq(strm, 1, Len(delivered) + k)) = Len(delivered) + k
            /\ \A i \in 1 .. Len(delivered) + k :
                  SubSeq(strm, 1, Len(delivered) + k)[i] = strm[i]
        <4> HIDE DEF strm
        <4> QED
          BY <1>t, <2>2, <3>1, <3>3, SubSeqProperties
      <3>5. \A i \in 1 .. Len(delivered) + k : delivered'[i] = strm[i]
        <4> HIDE DEF strm, k
        <4> SUFFICES ASSUME NEW i \in 1 .. Len(delivered) + k
                     PROVE  delivered'[i] = strm[i]
          OBVIOUS
        <4>1. i \in 1 .. Len(delivered) + Len(buffer)
          BY <1>t, <2>2
        <4>2. CASE i <= Len(delivered)
          BY <3>1, <3>2, <4>1, <4>2
        <4>3. CASE ~(i <= Len(delivered))
          <5>1. i - Len(delivered) \in 1 .. k
            BY <1>t, <2>2, <4>3
          <5> QED
            BY <2>4, <3>1, <3>2, <4>1, <4>3, <5>1
        <4> QED
          BY <4>2, <4>3
      <3> HIDE DEF strm, k
      <3> QED
        BY <3>2, <3>4, <3>5, SeqEqual
    <2>9. k \in 0 .. Len(strm) - Len(delivered)
      BY <1>t, <2>2, ConcatProperties
    <2>10. Stream!Receive(k)
      BY <1>0, <2>1, <2>7, <2>8 DEF Stream!Receive
    <2> QED
      BY <2>9, <2>10 DEF Stream!Next
  <1>2. CASE buffer = <<>> /\ closedW
    <2>1. eof' = TRUE /\ UNCHANGED <<buffer, delivered>>
      BY <1>2 DEF Read
    <2>2. delivered \o buffer = delivered
      BY <1>t, <1>2, ConcatEmptySeq
    <2> QED
      BY <1>0, <1>2, <2>1, <2>2 DEF Stream!EndOfStream, Stream!Next
  <1>3. CASE buffer = <<>> /\ ~closedW
    <2>1. UNCHANGED <<buffer, delivered, eof>>
      BY <1>3 DEF Read
    <2> QED
      BY <1>0, <2>1 DEF Stream!cvars
  <1> QED
    BY <1>1, <1>2, <1>3

\* Every behaviour of the pipe, with its buffer, wait queues, partial writes and
\* direct hand-overs, is a behaviour of the abstract byte channel.
THEOREM PipeImplementsChannel == Spec => ImplementsChannel
  <1>1. Init => Stream!Init
    BY ConcatEmptySeq, EmptySeq DEF Init, Stream!Init
  <1>2. IInv /\ [Next]_vars => [Stream!Next]_(Stream!cvars)
    <2> SUFFICES ASSUME IInv, [Next]_vars PROVE [Stream!Next]_(Stream!cvars)
      OBVIOUS
    <2>1. ASSUME NEW w \in Writers, NEW n \in 0 .. MaxLen, Write(w, n)
          PROVE  [Stream!Next]_(Stream!cvars)
      <3>1. CASE closedR
        <4>1. UNCHANGED <<buffer, delivered, written, closedR, closedW, eof>>
          BY <2>1, <3>1 DEF Write, WriteFails
        <4> QED
          BY <4>1 DEF Stream!cvars
      <3>2. CASE ~closedR
        BY <2>1, <3>2, WriteAvailableStream DEF Write
      <3> QED
        BY <3>1, <3>2
    <2>2. ASSUME NEW w \in Writers, Resume(w)
          PROVE  [Stream!Next]_(Stream!cvars)
      <3>1. CASE closedR \/ closedW
        <4>1. UNCHANGED <<buffer, delivered, written, closedR, closedW, eof>>
          BY <2>2, <3>1 DEF Resume, WriteFails
        <4> QED
          BY <4>1 DEF Stream!cvars
      <3>2. CASE ~closedR /\ ~closedW
        <4>1. Remaining(w) \in 0 .. MaxLen
          <5>1. wpc[w] = "woken"
            BY <2>2 DEF Resume
          <5> QED
            <6>1. /\ size[w] \in 0 .. MaxLen /\ offset[w] \in 0 .. MaxLen
                  /\ offset[w] < size[w]
              BY <5>1 DEF IInv, TypeOK, QueueConsistent
            <6> QED
              BY <6>1, PipeAssumption DEF Remaining
        <4> QED
          BY <2>2, <3>2, <4>1, WriteAvailableStream DEF Resume
      <3> QED
        BY <3>1, <3>2
    <2>3. ASSUME CloseRead PROVE Stream!CloseRead
      BY <2>3 DEF CloseRead, hist, Stream!CloseRead
    <2>4. ASSUME CloseWrite PROVE Stream!CloseWrite
      <3>1. readWaiters # <<>> => delivered \o buffer = delivered
        BY ConcatEmptySeq DEF IInv, TypeOK, NoStrandedReader
      <3> QED
        BY <2>4, <3>1 DEF CloseWrite, Stream!CloseWrite, IInv, TypeOK
    <2>5. ASSUME NEW p \in Pollers,
                 \/ \E end \in {"read", "write"} : PollWait(p, end)
                 \/ PollTimeout(p) \/ PollReturn(p)
          PROVE  UNCHANGED Stream!cvars
      BY <2>5 DEF PollWait, PollTimeout, PollReturn, hist, Stream!cvars
    <2>6. CASE UNCHANGED vars
      BY <2>6 DEF vars, Stream!cvars
    <2> QED
      BY <2>1, <2>2, <2>3, <2>4, <2>5, <2>6, ReadStream DEF Next, Stream!Next
  <1> QED
    BY <1>1, <1>2, PipeInvariant, PTL DEF Spec, ImplementsChannel, Stream!Spec

\* No poller sleeps through the event it waits for.
THEOREM PollersNotMissed == Spec => []PollNotMissed
  <1>1. IInv => PollNotMissed
    BY DEF IInv
  <1> QED
    BY <1>1, PipeInvariant, PTL

\* What strengthens CountsTrue: a blocked call has its offset still to report.
\* Only a call that a close cut off leaves bytes behind it never reports.
Counted(w) ==
    /\ acked[w] + offset[w] <= written[w]
    /\ ~closedR /\ ~closedW => acked[w] + offset[w] = written[w]

CountsInv == \A w \in Writers : Counted(w)

\* An attempt to write adds what it placed to the writer's own count alone.
LEMMA WrittenStep ==
    ASSUME IInv, NEW w \in Writers, NEW n \in Nat, WriteAvailable(w, n)
    PROVE  /\ Accepted(n) \in 0 .. n
           /\ written'[w] = written[w] + Accepted(n)
           /\ \A v \in Writers \ {w} : written'[v] = written[v]
  <1>1. Accepted(n) \in 0 .. n
    BY AcceptedBound DEF IInv
  <1>2. written' = [written EXCEPT ![w] = @ + Accepted(n)] /\ written \in [Writers -> Nat]
    BY DEF WriteAvailable, IInv, TypeOK
  <1> QED
    BY <1>1, <1>2

\* A call reports or keeps in its offset what it placed.
LEMMA WriteCounts ==
    ASSUME IInv, CountsInv, NEW w \in Writers, NEW n \in 0 .. MaxLen, Write(w, n)
    PROVE  CountsInv'
  <1>n. n \in Nat
    BY PipeAssumption
  <1>t. /\ acked \in [Writers -> Nat] /\ written \in [Writers -> Nat]
        /\ offset \in [Writers -> Nat] /\ offset[w] = 0
    <2>1. wpc[w] = "idle" /\ offset \in [Writers -> 0 .. MaxLen]
      BY DEF Write, IInv, TypeOK
    <2>2. offset[w] = 0
      BY <2>1 DEF IInv, QueueConsistent
    <2>3. offset \in [Writers -> Nat]
      BY <2>1, PipeAssumption
    <2> QED
      BY <2>2, <2>3 DEF IInv, TypeOK
  <1>u. closedR' = closedR /\ closedW' = closedW
    BY DEF Write
  <1>1. CASE closedR
    <2>1. UNCHANGED <<acked, written, offset>>
      BY <1>1 DEF Write, WriteFails, wvars
    <2> QED
      BY <1>u, <2>1 DEF CountsInv, Counted
  <1>2. CASE ~closedR
    <2> DEFINE k == Accepted(n)
    <2>1. /\ WriteAvailable(w, n)
          /\ \/ k = n /\ Returns(w, n) /\ offset' = offset
             \/ k < n /\ Returns(w, k) /\ offset' = offset
             \/ k < n /\ acked' = acked /\ offset' = [offset EXCEPT ![w] = k]
      BY <1>2 DEF Write, wvars
    <2>2. /\ k \in Nat /\ written'[w] = written[w] + k
          /\ \A v \in Writers \ {w} : written'[v] = written[v]
      BY <1>n, <2>1, WrittenStep
    <2>3. /\ acked'[w] + offset'[w] = acked[w] + offset[w] + k
          /\ \A v \in Writers \ {w} : acked'[v] = acked[v] /\ offset'[v] = offset[v]
      <3> HIDE DEF k
      <3> QED
        BY <1>t, <2>1, <2>2 DEF Returns
    <2> HIDE DEF k
    <2>4. Counted(w)'
      <3>1. /\ acked[w] \in Nat /\ offset[w] \in Nat /\ written[w] \in Nat
            /\ Counted(w)
        BY <1>t DEF CountsInv
      <3> QED
        BY <1>u, <2>2, <2>3, <3>1 DEF Counted
    <2>5. ASSUME NEW v \in Writers \ {w} PROVE Counted(v)'
      BY <1>u, <2>2, <2>3 DEF CountsInv, Counted
    <2> QED
      BY <2>4, <2>5 DEF CountsInv
  <1> QED
    BY <1>1, <1>2

\* So does a call that resumes, unless a close has cut it off.
LEMMA ResumeCounts ==
    ASSUME IInv, CountsInv, NEW w \in Writers, Resume(w)
    PROVE  CountsInv'
  <1> DEFINE n == Remaining(w)
  <1>t. /\ acked \in [Writers -> Nat] /\ written \in [Writers -> Nat]
        /\ offset \in [Writers -> Nat] /\ size[w] \in Nat
        /\ n \in Nat /\ n = size[w] - offset[w]
    <2>1. /\ wpc[w] = "woken" /\ offset \in [Writers -> 0 .. MaxLen]
          /\ size \in [Writers -> 0 .. MaxLen] /\ MaxLen \in Nat
      BY PipeAssumption DEF Resume, IInv, TypeOK
    <2>2. offset[w] < size[w]
      BY <2>1 DEF IInv, QueueConsistent
    <2>3. offset \in [Writers -> Nat] /\ size[w] \in Nat /\ offset[w] \in Nat
      BY <2>1
    <2> QED
      BY <2>2, <2>3 DEF IInv, TypeOK, Remaining
  <1>u. closedR' = closedR /\ closedW' = closedW
    BY DEF Resume
  <1>1. CASE closedR \/ closedW
    <2>1. UNCHANGED <<acked, written>> /\ offset' = [offset EXCEPT ![w] = 0]
      BY <1>1 DEF Resume, WriteFails, WriterLeaves
    <2>2. \A v \in Writers : offset'[v] <= offset[v] /\ offset'[v] \in Nat
      BY <1>t, <2>1
    <2> QED
      BY <1>1, <1>t, <1>u, <2>1, <2>2 DEF CountsInv, Counted
  <1>2. CASE ~closedR /\ ~closedW
    <2> DEFINE k == Accepted(n)
    <2>1. /\ WriteAvailable(w, n)
          /\ \/ k = n /\ Returns(w, size[w]) /\ offset' = [offset EXCEPT ![w] = 0]
             \/ k < n /\ acked' = acked /\ offset' = [offset EXCEPT ![w] = @ + k]
      BY <1>2 DEF Resume, WriterLeaves
    <2>2. /\ k \in Nat /\ written'[w] = written[w] + k
          /\ \A v \in Writers \ {w} : written'[v] = written[v]
      BY <1>t, <2>1, WrittenStep
    <2> HIDE DEF k, n
    <2>3. /\ acked'[w] + offset'[w] = acked[w] + offset[w] + k
          /\ \A v \in Writers \ {w} : acked'[v] = acked[v] /\ offset'[v] = offset[v]
      BY <1>t, <2>1, <2>2 DEF Returns
    <2>4. Counted(w)'
      <3>1. /\ acked[w] \in Nat /\ offset[w] \in Nat /\ written[w] \in Nat
            /\ Counted(w)
        BY <1>t DEF CountsInv
      <3> QED
        BY <1>u, <2>2, <2>3, <3>1 DEF Counted
    <2>5. ASSUME NEW v \in Writers \ {w} PROVE Counted(v)'
      BY <1>u, <2>2, <2>3 DEF CountsInv, Counted
    <2> QED
      BY <2>4, <2>5 DEF CountsInv
  <1> QED
    BY <1>1, <1>2

\* A writer between two calls on an open pipe was told exactly what entered
\* it, and one cut off by a close never more than that.
THEOREM CountsAreTrue == Spec => []CountsTrue
  <1>1. Init => CountsInv
    BY DEF Init, CountsInv, Counted
  <1>2. IInv /\ CountsInv /\ [Next]_vars => CountsInv'
    <2> SUFFICES ASSUME IInv, CountsInv, [Next]_vars PROVE CountsInv'
      OBVIOUS
    <2>1. ASSUME NEW w \in Writers, NEW n \in 0 .. MaxLen, Write(w, n)
          PROVE  CountsInv'
      BY <2>1, WriteCounts
    <2>2. ASSUME NEW w \in Writers, Resume(w) PROVE CountsInv'
      BY <2>2, ResumeCounts
    <2>3. ASSUME NEW r \in Readers, NEW n \in 0 .. MaxLen, Read(r, n)
          PROVE  CountsInv'
      BY <2>3 DEF Read, CountsInv, Counted
    <2>4. ASSUME CloseRead \/ CloseWrite PROVE CountsInv'
      <3>1. /\ UNCHANGED <<acked, written, offset>>
            /\ ~closedR' /\ ~closedW' => ~closedR /\ ~closedW
        BY <2>4 DEF CloseRead, CloseWrite, hist
      <3> QED
        BY <3>1 DEF CountsInv, Counted
    <2>5. ASSUME NEW p \in Pollers,
                 \/ \E end \in {"read", "write"} : PollWait(p, end)
                 \/ PollTimeout(p) \/ PollReturn(p)
          PROVE  CountsInv'
      BY <2>5 DEF PollWait, PollTimeout, PollReturn, hist, wvars, CountsInv, Counted
    <2>6. CASE UNCHANGED vars
      BY <2>6 DEF vars, CountsInv, Counted
    <2> QED
      BY <2>1, <2>2, <2>3, <2>4, <2>5, <2>6 DEF Next
  <1>3. IInv /\ CountsInv => CountsTrue
    <2> SUFFICES ASSUME IInv, CountsInv, NEW w \in Writers
                 PROVE  /\ acked[w] <= written[w]
                        /\ wpc[w] = "idle" /\ ~closedR /\ ~closedW
                              => acked[w] = written[w]
      BY DEF CountsTrue
    <2>1. /\ acked[w] \in Nat /\ written[w] \in Nat /\ offset[w] \in 0 .. MaxLen
          /\ MaxLen \in Nat
      BY PipeAssumption DEF IInv, TypeOK
    <2>2. wpc[w] = "idle" => offset[w] = 0
      BY DEF IInv, QueueConsistent
    <2> QED
      BY <2>1, <2>2 DEF CountsInv, Counted
  <1> QED
    BY <1>1, <1>2, <1>3, PipeInvariant, PTL DEF Spec
=============================================================================
