-------------------------- MODULE ChunkedFileProofs --------------------------
(***************************************************************************)
(* Proofs about ChunkedFile, for any chunk size, threshold, bounds and     *)
(* options.  An operation in progress leaves the stores in a state that is *)
(* neither the old file nor the new one; the invariant says for each await *)
(* what is already true of the new one.  It holds until two operations     *)
(* overlap: one begins while the file is being created, or an open with    *)
(* O_TRUNC comes in between.  From then on MutexPreventsCorruption shows   *)
(* that the file may become unreadable.                                    *)
(***************************************************************************)
EXTENDS ChunkedFile, SequenceTheorems, WellFoundedInduction, TLAPS

----------------------------------------------------------------------------
(* The inductive invariant.  c: the options, s: the stores, o: the operation *)
(* in progress, f: what the file is due to hold.                             *)

IsBlock(b) == b \in Seq(Nat) /\ Len(b) >= 1 /\ Len(b) <= ChunkSize

\* A block key of chunk i.
KeyFor(c, k, i) ==
    k = <<i, k[2]>> /\ k[2] \in Nat /\ (~c.versioning => k[2] = 0)

Shape(s) ==
    /\ s = [mode |-> s.mode, inline |-> s.inline, size |-> s.size, chunks |-> s.chunks,
            blocks |-> s.blocks, fresh |-> s.fresh, buf |-> s.buf]
    /\ s.buf = [on |-> s.buf.on, dirty |-> s.buf.dirty, size |-> s.buf.size,
                shared |-> s.buf.shared]

\* Types, and: chunks refer to blocks under keys of their own, a fresh key is new,
\* and a buffer goes with a chunked file and knows its size.
StoreOK(c, s) ==
    /\ Shape(s)
    /\ s.mode \in {"inline", "chunked"} /\ s.inline \in Seq(Nat)
    /\ s.size \in Nat /\ s.fresh \in Nat
    /\ DOMAIN s.chunks \subseteq Nat
    /\ \A i \in DOMAIN s.chunks :
          s.chunks[i] \in DOMAIN s.blocks /\ KeyFor(c, s.chunks[i], i)
    /\ \A k \in DOMAIN s.blocks :
          IsBlock(s.blocks[k]) /\ k[2] \in Nat /\ (c.versioning => k[2] < s.fresh)
    /\ s.buf.on \in BOOLEAN /\ DOMAIN s.buf.dirty \subseteq Nat
    /\ s.buf.shared \subseteq DOMAIN s.buf.dirty
    /\ \A i \in DOMAIN s.buf.dirty : IsBlock(s.buf.dirty[i])
    /\ IF s.buf.on THEN s.buf.size = s.size /\ s.mode = "chunked" /\ c.buffering
       ELSE DOMAIN s.buf.dirty = {}

\* A dirty chunk that is shared is the block it was read from, or last flushed to.
SharedOK(s) ==
    \A i \in s.buf.shared : i \in DOMAIN s.chunks /\ s.blocks[s.chunks[i]] = s.buf.dirty[i]

\* The blocks under the buffer fit into the file: they can be read without it.
UnderOK(s) ==
    s.buf.on => \A i \in DOMAIN s.chunks :
                   i * ChunkSize + Len(s.blocks[s.chunks[i]]) <= s.size

BufferOK(s) == SharedOK(s) /\ UnderOK(s)

\* So would block d of chunk i.
FitsUnder(s, i, d) == s.buf.on => i * ChunkSize + Len(d) <= s.size

\* Byte o of chunk i.
Cell(s, i, o) == At(ChunkData(s, i), o)

\* No chunk reaches beyond byte n.
Within(s, n) ==
    \A i \in Nat : ChunkData(s, i) # <<>> => i * ChunkSize + Len(ChunkData(s, i)) <= n

\* The first n bytes are those of f.
Upto(s, f, n) ==
    \A i \in Nat, o \in 1 .. ChunkSize :
        i * ChunkSize + o <= n => Cell(s, i, o) = At(f, i * ChunkSize + o)

\* All bytes are those of f, followed by zeros.
Holds(s, f) ==
    \A i \in Nat, o \in 1 .. ChunkSize : Cell(s, i, o) = At(f, i * ChunkSize + o)

\* Between operations: fit to be read.
AtRest(s) ==
    IF s.mode = "inline" THEN DOMAIN s.chunks = {} /\ Len(s.inline) = s.size
    ELSE Within(s, s.size)

\* Between operations, and holding f.
Exact(s, f) ==
    /\ Len(f) = s.size /\ AtRest(s)
    /\ IF s.mode = "inline" THEN s.inline = f ELSE Holds(s, f)

\* Without versions, the blocks are those of the chunk map and the ones in "more".
NoLeak(c, s, more) ==
    ~c.versioning => DOMAIN s.blocks = Keys(s.chunks) \cup more

\* The block in hand has been written and its key is not in the chunk map yet.
KeyReady(c, s, o) ==
    /\ o.key \in DOMAIN s.blocks /\ KeyFor(c, o.key, o.i)
    /\ NoLeak(c, s, {o.key})

OpOK(o) ==
    /\ o = [do |-> o.do, at |-> o.at, data |-> o.data, off |-> o.off, n |-> o.n,
            i |-> o.i, key |-> o.key, keys |-> o.keys, left |-> o.left,
            content |-> o.content]
    /\ o.data \in Seq(Nat) /\ o.content \in Seq(Nat)
    /\ o.off \in Nat /\ o.n \in Nat /\ o.i \in Nat

----------------------------------------------------------------------------
(* What is true at each await *)

InDrop(c, s, o, f) ==
    /\ o.at = "drop" /\ s.mode = "chunked" /\ ~s.buf.on /\ NoLeak(c, s, {})
    /\ Len(f) = o.n
    /\ \/ o.do \in {"writeFile", "demote"} /\ o.i = 0 /\ o.data = f
       \/ /\ o.do = "shrink" /\ o.n < s.size /\ Upto(s, f, o.n)
          /\ o.i = IF o.n = 0 THEN 0 ELSE 1 + ((o.n - 1) \div ChunkSize)

\* The chunks beyond the new end are gone.
Shrunk(s, o, f) ==
    /\ o.do = "shrink" /\ o.n < s.size /\ s.mode = "chunked" /\ Upto(s, f, o.n)
    /\ \A i \in DOMAIN s.chunks : i * ChunkSize < o.n

InDelete(c, s, o, f) ==
    /\ o.at = "delete" /\ o.keys \cap Keys(s.chunks) = {}
    /\ \/ o.do = "prune" /\ c.versioning /\ Exact(s, f)
       \/ /\ ~c.versioning /\ NoLeak(c, s, o.keys) /\ ~s.buf.on /\ Len(f) = o.n
          /\ \/ o.do \in {"writeFile", "demote"} /\ DOMAIN s.chunks = {} /\ o.data = f
             \/ Shrunk(s, o, f)

\* The new content is about to go into the inode.
InInline(c, s, o, f) ==
    /\ o.at \in {"inline", "update", "demoted"} /\ (o.at = "update" => s.mode = "inline")
    /\ DOMAIN s.chunks = {} /\ ~s.buf.on /\ NoLeak(c, s, {})
    /\ o.data = f /\ o.n = Len(f)

\* What is due of a promotion, from the inline content.
Promoting(c, s, o, f) ==
    /\ s.mode = "inline" /\ s.size = Len(s.inline) /\ Len(f) = o.n
    /\ \/ o.do = "pwrite" /\ o.data # <<>> /\ f = Overwrite(s.inline, o.off, o.data)
       \/ o.do = "grow" /\ o.n > s.size /\ f = Sized(s.inline, o.n)

Source(s, o) == IF o.do = "writeFile" THEN o.data ELSE s.inline

\* The source is the new content, or the inline content of a promotion.
LoadDue(c, s, o, f) ==
    \/ o.do = "writeFile" /\ o.data = f /\ o.n = Len(f)
    \/ Promoting(c, s, o, f) /\ (o.do = "pwrite" => ~c.buffering)

\* The chunks before chunk i of the source are in the store.
InLoad(c, s, o, f) ==
    /\ o.at \in {"put", "key", "chunked"} /\ ~s.buf.on
    /\ LoadDue(c, s, o, f) /\ o.content = Source(s, o)
    /\ DOMAIN s.chunks = {i \in Nat : i < o.i}
    /\ \A i \in DOMAIN s.chunks :
          i * ChunkSize < Len(Source(s, o)) /\ s.blocks[s.chunks[i]] = ChunkOf(Source(s, o), i)
    /\ o.at = "chunked" => o.i * ChunkSize >= Len(Source(s, o)) /\ NoLeak(c, s, {})
    /\ o.at = "put" => o.i * ChunkSize < Len(Source(s, o)) /\ NoLeak(c, s, {})
    /\ o.at = "key" => /\ o.i * ChunkSize < Len(Source(s, o)) /\ KeyReady(c, s, o)
                       /\ s.blocks[o.key] = ChunkOf(Source(s, o), o.i)

InPromote(c, s, o, f) ==
    /\ o.at = "promote" /\ o.do = "pwrite" /\ c.buffering /\ Promoting(c, s, o, f)
    /\ o.content = s.inline /\ DOMAIN s.chunks = {} /\ ~s.buf.on /\ NoLeak(c, s, {})

\* Byte p lies outside what the write changes.
Outside(o, p) == p <= o.off \/ p > o.off + Len(o.data)

\* The chunks before chunk o.i are as they should be, and so is what the write
\* does not change.
InPatch(c, s, o, f) ==
    /\ o.at \in {"direct", "directKey", "buffer"} /\ o.do = "pwrite"
    /\ s.mode = "chunked" /\ o.data # <<>> /\ Len(f) = o.n
    /\ s.size <= o.n /\ o.off + Len(o.data) <= o.n
    /\ \A q \in 1 .. Len(o.data) : f[o.off + q] = o.data[q]
    /\ Within(s, o.n)
    /\ \A i \in Nat, b \in 1 .. ChunkSize :
          i < o.i \/ Outside(o, i * ChunkSize + b) =>
             Cell(s, i, b) = At(f, i * ChunkSize + b)
    /\ o.i * ChunkSize < o.off + Len(o.data) /\ o.off < (o.i + 1) * ChunkSize
    /\ IF o.at = "buffer" THEN c.buffering /\ (s.buf.on \/ Within(s, s.size)) ELSE ~c.buffering
    /\ IF o.at = "directKey"
       THEN /\ KeyReady(c, s, o)
            /\ o.i * ChunkSize + Len(s.blocks[o.key]) <= o.n
            /\ \A b \in 1 .. ChunkSize : At(s.blocks[o.key], b) = At(f, o.i * ChunkSize + b)
       ELSE NoLeak(c, s, {})

InSize(c, s, o, f) ==
    /\ o.at = "size" /\ ~s.buf.on /\ NoLeak(c, s, {})
    /\ Exact(SetSize(s, o.n), f)

InCut(c, s, o, f) ==
    /\ o.at \in {"cut", "cutKey"} /\ ~s.buf.on /\ Shrunk(s, o, f) /\ Len(f) = o.n
    /\ o.n > 0 /\ o.i = (o.n - 1) \div ChunkSize /\ o.n % ChunkSize > 0
    /\ IF o.at = "cut"
       THEN /\ NoLeak(c, s, {}) /\ o.i \in DOMAIN s.chunks
            /\ Len(s.blocks[s.chunks[o.i]]) > o.n % ChunkSize
            /\ o.data = SubSeq(s.blocks[s.chunks[o.i]], 1, o.n % ChunkSize)
       ELSE /\ KeyReady(c, s, o)
            /\ Len(s.blocks[o.key]) = o.n % ChunkSize
            /\ \A b \in 1 .. o.n % ChunkSize : s.blocks[o.key][b] = At(f, o.i * ChunkSize + b)

\* The dirty chunks that are not left to flush are in their blocks.
InFlush(c, s, o, f) ==
    /\ o.at \in {"flush", "flushKey", "flushed"} /\ s.buf.on
    /\ o.left \subseteq DOMAIN s.buf.dirty
    /\ Within(s, s.size) /\ Len(f) = o.n
    /\ \/ o.do \in {"fsync", "version"} /\ o.n = s.size /\ Holds(s, f)
       \/ o.do = "shrink" /\ o.n < s.size /\ Upto(s, f, o.n)
       \/ o.do = "grow" /\ o.n > s.size /\ Holds(s, f)
    /\ o.do = "version" => c.versioning
    /\ \A i \in DOMAIN s.buf.dirty \ o.left :
          i \in DOMAIN s.chunks /\ s.blocks[s.chunks[i]] = s.buf.dirty[i]
    /\ o.at = "flushed" => o.left = {}
    /\ IF o.at = "flushKey"
       THEN o.i \in o.left /\ KeyReady(c, s, o) /\ s.blocks[o.key] = s.buf.dirty[o.i]
       ELSE NoLeak(c, s, {})

InIdle(c, s, o, f) == o = NoOp /\ Exact(s, f) /\ NoLeak(c, s, {})

PhaseOK(c, s, o, f) ==
    \/ InIdle(c, s, o, f)   \/ InDrop(c, s, o, f)  \/ InDelete(c, s, o, f)
    \/ InInline(c, s, o, f) \/ InLoad(c, s, o, f)  \/ InPromote(c, s, o, f)
    \/ InPatch(c, s, o, f)  \/ InSize(c, s, o, f)  \/ InCut(c, s, o, f)
    \/ InFlush(c, s, o, f)

Spares(o, r) == o.at = "delete" => o.keys \cap Keys(r.chunks) = {}

\* A version can be restored, and over a store that returns copies holds what it
\* was made of; blocks about to be deleted are not its own.
VersionOK(c, s, o, r) ==
    /\ r = [mode |-> r.mode, inline |-> r.inline, size |-> r.size,
            chunks |-> r.chunks, was |-> r.was]
    /\ r.was \in Seq(Nat)
    /\ StoreOK(c, Restored(s, r)) /\ AtRest(Restored(s, r))
    /\ ~c.aliasing => Exact(Restored(s, r), r.was)
    /\ Spares(o, r)

VersionsOK(c, s, o, vs) ==
    /\ vs \in Seq(Range(vs)) /\ (~c.versioning => vs = <<>>)
    /\ \A v \in DOMAIN vs : VersionOK(c, s, o, vs[v])

\* A read that nothing has disturbed has read what is there.
ReadOK(c, s, o, f, r) ==
    /\ r = [at |-> r.at, meta |-> r.meta, keys |-> r.keys, data |-> r.data,
            due |-> r.due, quiet |-> r.quiet, failed |-> r.failed]
    /\ r.at \in {"idle", "keys", "blocks", "done"}
    /\ r.at # "idle" /\ r.quiet =>
         /\ o.at = "idle" /\ ~c.buffering /\ r.due = f /\ ~r.failed
         /\ r.meta = [mode |-> s.mode, inline |-> s.inline, size |-> s.size]
         /\ r.at \in {"keys", "blocks"} => s.mode = "chunked" /\ s.size # 0
         /\ r.at = "keys" => DOMAIN r.data = {}
         /\ r.at = "blocks" \/ (r.at = "done" /\ s.mode = "chunked" /\ s.size # 0) =>
              /\ r.keys = s.chunks /\ DOMAIN r.data \subseteq DOMAIN s.chunks
              /\ \A i \in DOMAIN r.data : r.data[i] = s.blocks[s.chunks[i]]
         /\ r.at = "done" /\ s.mode = "chunked" /\ s.size # 0 =>
              DOMAIN r.data = DOMAIN s.chunks

IInv ==
    /\ cfg \in [buffering : BOOLEAN, versioning : BOOLEAN, aliasing : BOOLEAN]
    /\ ops \in Nat /\ file \in Seq(Nat)
    /\ StoreOK(cfg, st) /\ BufferOK(st) /\ OpOK(op)
    /\ PhaseOK(cfg, st, op, file)
    /\ VersionsOK(cfg, st, op, versions)
    /\ ReadOK(cfg, st, op, file, read)

----------------------------------------------------------------------------
(* Chunks and bytes *)

\* The constants are naturals, and a chunk has at least one byte.
LEMMA Sizes ==
    /\ ChunkSize \in Nat /\ ChunkSize >= 1
    /\ InlineThreshold \in Nat /\ MaxSize \in Nat /\ MaxOps \in Nat
  BY ChunkedFileAssumption

\* Byte o of chunk i is byte i * ChunkSize + o of the file.
LEMMA Place ==
    ASSUME NEW i \in Nat, NEW o \in 1 .. ChunkSize
    PROVE  /\ i * ChunkSize \in Nat /\ i * ChunkSize + o \in Nat /\ o \in Nat
           /\ i * ChunkSize + o >= 1 /\ o >= 1
           /\ (i * ChunkSize + o - 1) \div ChunkSize = i
           /\ 1 + ((i * ChunkSize + o - 1) % ChunkSize) = o
  BY Sizes

\* Each byte has a place.
LEMMA PlaceOf ==
    ASSUME NEW j \in Nat, j >= 1
    PROVE  /\ (j - 1) \div ChunkSize \in Nat
           /\ 1 + ((j - 1) % ChunkSize) \in 1 .. ChunkSize
           /\ j = ((j - 1) \div ChunkSize) * ChunkSize + (1 + ((j - 1) % ChunkSize))
  BY Sizes

\* Chunks follow one another.
LEMMA ChunkOrder ==
    /\ \A i \in Nat : i * ChunkSize \in Nat /\ (i + 1) * ChunkSize = i * ChunkSize + ChunkSize
    /\ \A i, j \in Nat : i < j => i * ChunkSize + ChunkSize <= j * ChunkSize
  BY Sizes

\* The chunk that byte x + 1 is in.
LEMMA DivFacts ==
    ASSUME NEW x \in Nat
    PROVE  /\ x \div ChunkSize \in Nat /\ (x \div ChunkSize) * ChunkSize \in Nat
           /\ (x \div ChunkSize) * ChunkSize <= x /\ x < (x \div ChunkSize + 1) * ChunkSize
  BY Sizes

\* At on a sequence of naturals: a natural, and zero beyond the end.
LEMMA AtFacts ==
    ASSUME NEW s \in Seq(Nat), NEW p \in Nat, p >= 1
    PROVE  /\ At(s, p) \in Nat
           /\ p <= Len(s) => At(s, p) = s[p]
           /\ p > Len(s) => At(s, p) = 0
  BY DEF At

\* Sized yields n bytes: the sequence's own, then zeros.
LEMMA SizedFacts ==
    ASSUME NEW s \in Seq(Nat), NEW n \in Nat
    PROVE  /\ Sized(s, n) \in Seq(Nat) /\ Len(Sized(s, n)) = n
           /\ \A p \in Nat : p >= 1 =>
                At(Sized(s, n), p) = IF p <= n THEN At(s, p) ELSE 0
  <1>1. \A p \in 1 .. n : At(s, p) \in Nat
    BY AtFacts
  <1>2. Sized(s, n) \in Seq(Nat) /\ Len(Sized(s, n)) = n
    BY <1>1, IsASeq DEF Sized
  <1>3. \A p \in 1 .. n : Sized(s, n)[p] = At(s, p)
    BY DEF Sized
  <1> QED
    BY <1>2, <1>3 DEF At

\* Bytes yields n copies of one byte.
LEMMA BytesFacts ==
    ASSUME NEW b \in Nat, NEW n \in Nat
    PROVE  Bytes(b, n) \in Seq(Nat) /\ Len(Bytes(b, n)) = n
  BY IsASeq DEF Bytes

\* What a write leaves, byte by byte.
LEMMA OverwriteFacts ==
    ASSUME NEW s \in Seq(Nat), NEW off \in Nat, NEW data \in Seq(Nat)
    PROVE  /\ Overwrite(s, off, data) \in Seq(Nat)
           /\ Len(Overwrite(s, off, data)) = Maximum(Len(s), off + Len(data))
           /\ Len(Overwrite(s, off, data)) >= Len(s)
           /\ Len(Overwrite(s, off, data)) >= off + Len(data)
           /\ \A p \in Nat : p >= 1 =>
                At(Overwrite(s, off, data), p) =
                   IF p > off /\ p <= off + Len(data) THEN data[p - off] ELSE At(s, p)
  <1> DEFINE n == Maximum(Len(s), off + Len(data))
             Val(p) == IF p > off /\ p <= off + Len(data) THEN data[p - off] ELSE At(s, p)
  <1>1. n \in Nat /\ n >= Len(s) /\ n >= off + Len(data) /\ Len(s) \in Nat /\ Len(data) \in Nat
    BY DEF Maximum
  <1>2. \A p \in 1 .. n : Val(p) \in Nat
    BY <1>1 DEF At
  <1>3. Overwrite(s, off, data) = [p \in 1 .. n |-> Val(p)]
    BY DEF Overwrite
  <1> HIDE DEF n
  <1>4. Overwrite(s, off, data) \in Seq(Nat) /\ Len(Overwrite(s, off, data)) = n
    BY <1>1, <1>2, <1>3, IsASeq
  <1>5. ASSUME NEW p \in Nat, p >= 1 PROVE At(Overwrite(s, off, data), p) = Val(p)
    <2>1. CASE p <= n
      <3>1. Overwrite(s, off, data)[p] = Val(p)
        <4> HIDE DEF Val
        <4>1. p \in 1 .. n
          BY <1>1, <1>5, <2>1
        <4> QED
          BY <1>3, <4>1
      <3>2. At(Overwrite(s, off, data), p) = Overwrite(s, off, data)[p]
        BY <1>4, <2>1 DEF At
      <3> QED
        BY <3>1, <3>2
    <2>2. CASE p > n
      <3>1. At(Overwrite(s, off, data), p) = 0
        BY <1>4, <2>2, AtFacts
      <3>2. p > Len(s) /\ p > off + Len(data)
        BY <1>1, <2>2
      <3> QED
        BY <3>1, <3>2, <1>1, AtFacts
    <2> QED
      BY <1>1, <2>1, <2>2
  <1> QED
    BY <1>1, <1>4, <1>5 DEF n

\* A piece of a sequence.
LEMMA PieceFacts ==
    ASSUME NEW f \in Seq(Nat), NEW m \in Nat, NEW e \in Nat, m <= e, e <= Len(f)
    PROVE  /\ SubSeq(f, m + 1, e) \in Seq(Nat) /\ Len(SubSeq(f, m + 1, e)) = e - m
           /\ \A o \in 1 .. e - m : SubSeq(f, m + 1, e)[o] = f[m + o]
  <1> DEFINE a == m + 1
  <1>1. a \in Int /\ e \in Int /\ \A p \in a .. e : f[p] \in Nat
    OBVIOUS
  <1>2. /\ e - a + 1 = e - m /\ (a <= e \/ e - m = 0)
        /\ \A o \in 1 .. e - m : a + o - 1 = m + o
    OBVIOUS
  <1> HIDE DEF a
  <1>3. /\ SubSeq(f, a, e) \in Seq(Nat)
        /\ Len(SubSeq(f, a, e)) = IF a <= e THEN e - a + 1 ELSE 0
        /\ \A o \in 1 .. e - a + 1 : SubSeq(f, a, e)[o] = f[a + o - 1]
    BY <1>1, SubSeqProperties
  <1> QED
    BY <1>2, <1>3 DEF a

\* A chunk of a sequence that has so many.
LEMMA ChunkOfFacts ==
    ASSUME NEW f \in Seq(Nat), NEW i \in Nat, i * ChunkSize < Len(f)
    PROVE  /\ IsBlock(ChunkOf(f, i))
           /\ i * ChunkSize + Len(ChunkOf(f, i)) <= Len(f)
           /\ \A o \in 1 .. ChunkSize : At(ChunkOf(f, i), o) = At(f, i * ChunkSize + o)
  <1> DEFINE m == i * ChunkSize
             e == Minimum((i + 1) * ChunkSize, Len(f))
  <1>1. /\ m \in Nat /\ (i + 1) * ChunkSize = m + ChunkSize /\ Len(f) \in Nat
        /\ ChunkSize \in Nat /\ ChunkSize >= 1
    BY ChunkOrder, Sizes
  <1> HIDE DEF m
  <1>2. e \in Nat /\ e > m /\ e <= m + ChunkSize /\ e <= Len(f)
        /\ (e = m + ChunkSize \/ e = Len(f))
    BY <1>1 DEF Minimum, m
  <1>3. ChunkOf(f, i) = SubSeq(f, m + 1, e)
    BY DEF ChunkOf, m
  <1> HIDE DEF e
  <1>5. /\ ChunkOf(f, i) \in Seq(Nat) /\ Len(ChunkOf(f, i)) = e - m
        /\ \A o \in 1 .. e - m : ChunkOf(f, i)[o] = f[m + o]
    <2>1. m \in Nat /\ e \in Nat /\ m <= e /\ e <= Len(f)
      BY ONLY <1>1, <1>2
    <2>2. /\ SubSeq(f, m + 1, e) \in Seq(Nat) /\ Len(SubSeq(f, m + 1, e)) = e - m
          /\ \A o \in 1 .. e - m : SubSeq(f, m + 1, e)[o] = f[m + o]
      BY ONLY <2>1, f \in Seq(Nat), PieceFacts, Zenon
    <2> QED
      BY ONLY <1>3, <2>2, Zenon
  <1>6. ASSUME NEW o \in 1 .. ChunkSize PROVE At(ChunkOf(f, i), o) = At(f, m + o)
    BY <1>1, <1>2, <1>5 DEF At
  <1> QED
    BY <1>1, <1>2, <1>5, <1>6 DEF IsBlock, m

----------------------------------------------------------------------------
(* Stores *)

\* What the operations on the stores change, field by field.
LEMMA SetInodeFields ==
    ASSUME NEW s, Shape(s), NEW m, NEW content, NEW n
    PROVE  LET t == SetInode(s, m, content, n) IN
           /\ Shape(t) /\ t.mode = m /\ t.inline = content /\ t.size = n
           /\ t.chunks = s.chunks /\ t.blocks = s.blocks /\ t.fresh = s.fresh /\ t.buf = s.buf
           /\ \A i : ChunkData(t, i) = ChunkData(s, i)
  <1> DEFINE a == [s EXCEPT !.mode = m]
             b == [a EXCEPT !.inline = content]
             d == [b EXCEPT !.size = n]
  <1>2. a = [mode |-> m, inline |-> s.inline, size |-> s.size, chunks |-> s.chunks,
           blocks |-> s.blocks, fresh |-> s.fresh, buf |-> s.buf]
    BY DEF Shape
  <1> HIDE DEF a
  <1>3. b = [mode |-> m, inline |-> content, size |-> s.size, chunks |-> s.chunks,
           blocks |-> s.blocks, fresh |-> s.fresh, buf |-> s.buf]
    BY <1>2
  <1> HIDE DEF b
  <1>4. d = [mode |-> m, inline |-> content, size |-> n, chunks |-> s.chunks,
           blocks |-> s.blocks, fresh |-> s.fresh, buf |-> s.buf]
    BY <1>3
  <1>1. SetInode(s, m, content, n) = d
    BY DEF SetInode, b, a
  <1> QED
    BY <1>1, <1>4 DEF Shape, ChunkData

\* What the updates of the stores change, field by field.
LEMMA SetSizeFields ==
    ASSUME NEW s, Shape(s), NEW n
    PROVE  LET t == SetSize(s, n) IN
           /\ Shape(t) /\ t.mode = s.mode /\ t.inline = s.inline /\ t.size = n
           /\ t.chunks = s.chunks /\ t.blocks = s.blocks /\ t.fresh = s.fresh /\ t.buf = s.buf
           /\ \A i : ChunkData(t, i) = ChunkData(s, i)
  BY DEF Shape, SetSize, ChunkData

LEMMA SetBlockFields ==
    ASSUME NEW s, Shape(s), NEW k, NEW d
    PROVE  LET t == SetBlock(s, k, d) IN
           /\ Shape(t) /\ t.mode = s.mode /\ t.inline = s.inline /\ t.size = s.size
           /\ t.chunks = s.chunks /\ t.blocks = With(s.blocks, k, d)
           /\ t.fresh = s.fresh /\ t.buf = s.buf
  BY DEF Shape, SetBlock

LEMMA PutBlockFields ==
    ASSUME NEW s, Shape(s), NEW k, NEW d
    PROVE  LET t == PutBlock(s, k, d) IN
           /\ Shape(t) /\ t.mode = s.mode /\ t.inline = s.inline /\ t.size = s.size
           /\ t.chunks = s.chunks /\ t.blocks = With(s.blocks, k, d)
           /\ t.fresh = (IF cfg.versioning THEN s.fresh + 1 ELSE s.fresh) /\ t.buf = s.buf
  <1>1. SetBlock(s, k, d) =
          [mode |-> s.mode, inline |-> s.inline, size |-> s.size, chunks |-> s.chunks,
           blocks |-> With(s.blocks, k, d), fresh |-> s.fresh,
           buf |-> s.buf]
    BY DEF Shape, SetBlock
  <1>2. PutBlock(s, k, d) =
          [mode |-> s.mode, inline |-> s.inline, size |-> s.size, chunks |-> s.chunks,
           blocks |-> With(s.blocks, k, d),
           fresh |-> IF cfg.versioning THEN s.fresh + 1 ELSE s.fresh, buf |-> s.buf]
    BY <1>1 DEF PutBlock
  <1> QED
    BY <1>2 DEF Shape

LEMMA setChunkKeyFields ==
    ASSUME NEW s, Shape(s), NEW i, NEW k
    PROVE  LET t == setChunkKey(s, i, k) IN
           /\ Shape(t) /\ t.mode = s.mode /\ t.inline = s.inline /\ t.size = s.size
           /\ t.chunks = With(s.chunks, i, k) /\ t.blocks = s.blocks
           /\ t.fresh = s.fresh /\ t.buf = s.buf
  BY DEF Shape, setChunkKey

LEMMA UnbufferedFields ==
    ASSUME NEW s, Shape(s)
    PROVE  LET t == Unbuffered(s) IN
           /\ Shape(t) /\ t.mode = s.mode /\ t.inline = s.inline /\ t.size = s.size
           /\ t.chunks = s.chunks /\ t.blocks = s.blocks /\ t.fresh = s.fresh
           /\ t.buf.on = FALSE /\ DOMAIN t.buf.dirty = {} /\ t.buf.size = 0
           /\ t.buf.shared = {}
  <1>1. Unbuffered(s) =
          [mode |-> s.mode, inline |-> s.inline, size |-> s.size, chunks |-> s.chunks,
           blocks |-> s.blocks, fresh |-> s.fresh,
           buf |-> NoBuffer]
    BY DEF Shape, Unbuffered
  <1> QED
    BY <1>1 DEF Shape, NoBuffer, Empty

LEMMA CleanBufferFields ==
    ASSUME NEW s, Shape(s)
    PROVE  LET t == CleanBuffer(s) IN
           /\ Shape(t) /\ t.mode = s.mode /\ t.inline = s.inline /\ t.size = s.size
           /\ t.chunks = s.chunks /\ t.blocks = s.blocks /\ t.fresh = s.fresh
           /\ t.buf.on = s.buf.on /\ DOMAIN t.buf.dirty = {} /\ t.buf.size = s.buf.size
           /\ t.buf.shared = {}
  <1> DEFINE a == [s EXCEPT !.buf.dirty = Empty]
             b == [a EXCEPT !.buf.shared = {}]
  <1>2. a = [mode |-> s.mode, inline |-> s.inline, size |-> s.size, chunks |-> s.chunks,
           blocks |-> s.blocks, fresh |-> s.fresh,
           buf |-> [on |-> s.buf.on, dirty |-> Empty, size |-> s.buf.size, shared |-> s.buf.shared]]
    BY DEF Shape
  <1> HIDE DEF a
  <1>3. b = [mode |-> s.mode, inline |-> s.inline, size |-> s.size, chunks |-> s.chunks,
           blocks |-> s.blocks, fresh |-> s.fresh,
           buf |-> [on |-> s.buf.on, dirty |-> Empty, size |-> s.buf.size, shared |-> {}]]
    BY <1>2
  <1>1. CleanBuffer(s) = b
    BY DEF CleanBuffer, a
  <1> HIDE DEF b
  <1>4. DOMAIN Empty = {}
    BY DEF Empty
  <1>5. b.buf.on = s.buf.on /\ b.buf.size = s.buf.size /\ b.buf.dirty = Empty /\ b.buf.shared = {}
    BY <1>3
  <1>6. Shape(b) /\ b.mode = s.mode /\ b.inline = s.inline /\ b.size = s.size
        /\ b.chunks = s.chunks /\ b.blocks = s.blocks /\ b.fresh = s.fresh
    BY <1>3 DEF Shape
  <1> QED
    BY <1>1, <1>4, <1>5, <1>6

LEMMA deleteChunksFromFields ==
    ASSUME NEW s, Shape(s), NEW from
    PROVE  LET t == deleteChunksFrom(s, from) IN
           /\ Shape(t) /\ t.mode = s.mode /\ t.inline = s.inline /\ t.size = s.size
           /\ DOMAIN t.chunks = {i \in DOMAIN s.chunks : i < from}
           /\ \A i \in DOMAIN t.chunks : t.chunks[i] = s.chunks[i]
           /\ t.blocks = s.blocks /\ t.fresh = s.fresh /\ t.buf = s.buf
  BY DEF Shape, deleteChunksFrom, Restrict

LEMMA deleteManyFields ==
    ASSUME NEW s, Shape(s), NEW keys
    PROVE  LET t == deleteMany(s, keys) IN
           /\ Shape(t) /\ t.mode = s.mode /\ t.inline = s.inline /\ t.size = s.size
           /\ t.chunks = s.chunks /\ DOMAIN t.blocks = DOMAIN s.blocks \ keys
           /\ \A k \in DOMAIN t.blocks : t.blocks[k] = s.blocks[k]
           /\ t.fresh = s.fresh /\ t.buf = s.buf
  BY DEF Shape, deleteMany, Restrict

LEMMA RestoredFields ==
    ASSUME NEW s, Shape(s), NEW r
    PROVE  LET t == Restored(s, r) IN
           /\ Shape(t) /\ t.mode = r.mode /\ t.inline = r.inline /\ t.size = r.size
           /\ t.chunks = r.chunks /\ t.blocks = s.blocks /\ t.fresh = s.fresh
           /\ t.buf.on = FALSE /\ DOMAIN t.buf.dirty = {} /\ t.buf.size = 0
           /\ t.buf.shared = {}
  <1> DEFINE u == Unbuffered(s)
             w == SetInode(u, r.mode, r.inline, r.size)
  <1>1. /\ Shape(u) /\ u.chunks = s.chunks /\ u.blocks = s.blocks /\ u.fresh = s.fresh
        /\ u.buf.on = FALSE /\ DOMAIN u.buf.dirty = {} /\ u.buf.size = 0 /\ u.buf.shared = {}
    BY UnbufferedFields
  <1> HIDE DEF u
  <1>2. /\ Shape(w) /\ w.mode = r.mode /\ w.inline = r.inline /\ w.size = r.size
        /\ w.blocks = s.blocks /\ w.fresh = s.fresh /\ w.buf = u.buf
    BY <1>1, SetInodeFields
  <1> HIDE DEF w
  <1>3. Restored(s, r) = [w EXCEPT !.chunks = r.chunks]
    BY DEF Restored, w, u
  <1> QED
    BY <1>1, <1>2, <1>3 DEF Shape

LEMMA OpenedFields ==
    ASSUME NEW s, Shape(s), s.buf.on \in BOOLEAN
    PROVE  LET t == Opened(s) IN
           /\ Shape(t) /\ t.mode = s.mode /\ t.inline = s.inline /\ t.size = s.size
           /\ t.chunks = s.chunks /\ t.blocks = s.blocks /\ t.fresh = s.fresh
           /\ t.buf.on = TRUE
           /\ s.buf.on => t = s
           /\ ~s.buf.on => DOMAIN t.buf.dirty = {} /\ t.buf.size = s.size /\ t.buf.shared = {}
  BY DEF Shape, Opened, NoBuffer, Empty

----------------------------------------------------------------------------
(* What the operations on the stores preserve *)

CfgOK(c) == c \in [buffering : BOOLEAN, versioning : BOOLEAN, aliasing : BOOLEAN]

\* A chunk is a block, or missing.
LEMMA DataFacts ==
    ASSUME NEW c, NEW s, StoreOK(c, s), NEW i \in Nat
    PROVE  /\ ChunkData(s, i) \in Seq(Nat)
           /\ Len(ChunkData(s, i)) \in Nat /\ Len(ChunkData(s, i)) <= ChunkSize
           /\ ChunkData(s, i) = <<>> \/ IsBlock(ChunkData(s, i))
           /\ ChunkData(s, i) # <<>> <=> i \in DOMAIN s.buf.dirty \/ i \in DOMAIN s.chunks
           /\ i \in DOMAIN s.buf.dirty => ChunkData(s, i) = s.buf.dirty[i]
           /\ i \in DOMAIN s.chunks /\ i \notin DOMAIN s.buf.dirty =>
                ChunkData(s, i) = s.blocks[s.chunks[i]]
  <1>1. ChunkSize \in Nat
    BY Sizes
  <1>2. CASE i \in DOMAIN s.buf.dirty
    <2>1. ChunkData(s, i) = s.buf.dirty[i] /\ IsBlock(s.buf.dirty[i])
      BY <1>2 DEF ChunkData, StoreOK
    <2> QED
      BY <1>1, <1>2, <2>1 DEF IsBlock
  <1>3. CASE i \notin DOMAIN s.buf.dirty /\ i \in DOMAIN s.chunks
    <2>1. ChunkData(s, i) = s.blocks[s.chunks[i]] /\ IsBlock(s.blocks[s.chunks[i]])
      BY <1>3 DEF ChunkData, StoreOK
    <2> QED
      BY <1>1, <1>3, <2>1 DEF IsBlock
  <1>4. CASE i \notin DOMAIN s.buf.dirty /\ i \notin DOMAIN s.chunks
    <2>1. ChunkData(s, i) = <<>>
      BY <1>4 DEF ChunkData
    <2> QED
      BY <1>1, <1>4, <2>1
  <1> QED
    BY <1>2, <1>3, <1>4

\* A byte of a chunk is a natural, and zero beyond the chunk's end.
LEMMA CellFacts ==
    ASSUME NEW c, NEW s, StoreOK(c, s), NEW i \in Nat, NEW o \in 1 .. ChunkSize
    PROVE  /\ Cell(s, i, o) \in Nat
           /\ o > Len(ChunkData(s, i)) => Cell(s, i, o) = 0
  <1>1. o \in Nat /\ o >= 1
    BY Sizes
  <1> QED
    BY <1>1, DataFacts, AtFacts DEF Cell

\* A new block, under its new key.
LEMMA Put ==
    ASSUME NEW s, StoreOK(cfg, s), CfgOK(cfg), NEW i \in Nat, NEW d, IsBlock(d),
           NEW k, k = makeBlockKey(s, i), NEW t, t = PutBlock(s, k, d)
    PROVE  /\ StoreOK(cfg, t) /\ KeyFor(cfg, k, i) /\ k \in DOMAIN t.blocks /\ t.blocks[k] = d
           /\ t.mode = s.mode /\ t.inline = s.inline /\ t.size = s.size
           /\ t.chunks = s.chunks /\ t.buf = s.buf
           /\ DOMAIN t.blocks = DOMAIN s.blocks \cup {k}
           /\ \A x \in DOMAIN s.blocks : x # k => t.blocks[x] = s.blocks[x]
           /\ cfg.versioning => k \notin DOMAIN s.blocks
           /\ \A j \in DOMAIN s.chunks : s.chunks[j] = k => j = i /\ ~cfg.versioning
  <1>1. /\ Shape(s) /\ s.fresh \in Nat
        /\ \A j \in DOMAIN s.chunks : s.chunks[j] \in DOMAIN s.blocks /\ KeyFor(cfg, s.chunks[j], j)
        /\ \A x \in DOMAIN s.blocks :
              IsBlock(s.blocks[x]) /\ x[2] \in Nat /\ (cfg.versioning => x[2] < s.fresh)
    BY DEF StoreOK
  <1>2. /\ Shape(t) /\ t.mode = s.mode /\ t.inline = s.inline /\ t.size = s.size
        /\ t.chunks = s.chunks /\ t.blocks = With(s.blocks, k, d)
        /\ t.fresh = (IF cfg.versioning THEN s.fresh + 1 ELSE s.fresh) /\ t.buf = s.buf
    BY <1>1, PutBlockFields
  <1>3. /\ DOMAIN t.blocks = DOMAIN s.blocks \cup {k} /\ t.blocks[k] = d
        /\ \A x \in DOMAIN s.blocks : x # k => t.blocks[x] = s.blocks[x]
    BY <1>2 DEF With
  <1>4. /\ k = <<i, k[2]>> /\ k[2] \in Nat /\ k[1] = i /\ (~cfg.versioning => k[2] = 0)
        /\ (cfg.versioning => k[2] = s.fresh)
    BY <1>1 DEF makeBlockKey, CfgOK
  <1>5. t.fresh \in Nat /\ t.fresh >= s.fresh /\ (cfg.versioning => t.fresh = s.fresh + 1)
    BY <1>1, <1>2
  <1>6. cfg.versioning => k \notin DOMAIN s.blocks
    BY <1>1, <1>4
  <1>7. \A j \in DOMAIN s.chunks : s.chunks[j] = k => j = i /\ ~cfg.versioning
    <2> SUFFICES ASSUME NEW j \in DOMAIN s.chunks, s.chunks[j] = k PROVE j = i /\ ~cfg.versioning
      OBVIOUS
    <2>1. k = <<j, k[2]>>
      BY <1>1 DEF KeyFor
    <2>2. k[1] = j
      BY <2>1
    <2> QED
      BY <1>1, <1>4, <1>6, <2>2
  <1>8. \A x \in DOMAIN t.blocks :
           IsBlock(t.blocks[x]) /\ x[2] \in Nat /\ (cfg.versioning => x[2] < t.fresh)
    <2> SUFFICES ASSUME NEW x \in DOMAIN t.blocks
                 PROVE  /\ IsBlock(t.blocks[x]) /\ x[2] \in Nat
                        /\ cfg.versioning => x[2] < t.fresh
      OBVIOUS
    <2>1. CASE x = k
      BY <1>1, <1>3, <1>4, <1>5, <2>1
    <2>2. CASE x # k
      <3>1. x \in DOMAIN s.blocks /\ t.blocks[x] = s.blocks[x]
        BY <1>3, <2>2
      <3>2. x[2] \in Nat /\ (cfg.versioning => x[2] < s.fresh)
        BY <1>1, <3>1
      <3>3. cfg.versioning => x[2] < t.fresh
        BY <1>1, <1>5, <3>2
      <3> QED
        BY <1>1, <3>1, <3>2, <3>3
    <2> QED
      BY <2>1, <2>2
  <1>9. StoreOK(cfg, t)
    BY <1>2, <1>3, <1>5, <1>8 DEF StoreOK
  <1> QED
    BY <1>2, <1>3, <1>4, <1>6, <1>7, <1>9 DEF KeyFor

\* The chunks that a new block does not change.
LEMMA PutData ==
    ASSUME NEW s, StoreOK(cfg, s), CfgOK(cfg), NEW i \in Nat, NEW d, IsBlock(d),
           NEW k, k = makeBlockKey(s, i), NEW t, t = PutBlock(s, k, d)
    PROVE  /\ \A j \in Nat : j # i \/ cfg.versioning \/ j \in DOMAIN s.buf.dirty
                                \/ j \notin DOMAIN s.chunks =>
                ChunkData(t, j) = ChunkData(s, j)
           /\ ChunkData(t, i) = ChunkData(s, i) \/ ChunkData(t, i) = d
           /\ NoLeak(cfg, s, {}) => NoLeak(cfg, t, {k})
  <1>1. /\ t.blocks[k] = d /\ t.chunks = s.chunks /\ t.buf = s.buf
        /\ DOMAIN t.blocks = DOMAIN s.blocks \cup {k}
        /\ \A x \in DOMAIN s.blocks : x # k => t.blocks[x] = s.blocks[x]
        /\ \A j \in DOMAIN s.chunks : s.chunks[j] = k => j = i /\ ~cfg.versioning
    BY Put
  <1>2. \A j \in DOMAIN s.chunks : s.chunks[j] \in DOMAIN s.blocks
    BY DEF StoreOK
  <1>3. \A j \in DOMAIN s.chunks : s.chunks[j] # k => t.blocks[t.chunks[j]] = s.blocks[s.chunks[j]]
    BY <1>1, <1>2
  <1>4. NoLeak(cfg, s, {}) => NoLeak(cfg, t, {k})
    BY <1>1 DEF NoLeak
  <1>5. ChunkData(t, i) = ChunkData(s, i) \/ ChunkData(t, i) = d
    BY <1>1, <1>3 DEF ChunkData
  <1> QED
    BY <1>1, <1>3, <1>4, <1>5 DEF ChunkData

\* The key of the block in hand goes into the chunk map.
LEMMA Keyed ==
    ASSUME NEW c, NEW s, StoreOK(c, s), CfgOK(c), NEW i \in Nat, NEW k, KeyFor(c, k, i),
           k \in DOMAIN s.blocks, NEW t, t = setChunkKey(s, i, k)
    PROVE  /\ StoreOK(c, t)
           /\ t.mode = s.mode /\ t.inline = s.inline /\ t.size = s.size
           /\ t.blocks = s.blocks /\ t.buf = s.buf /\ t.fresh = s.fresh
           /\ DOMAIN t.chunks = DOMAIN s.chunks \cup {i} /\ t.chunks[i] = k
           /\ \A j \in DOMAIN s.chunks : j # i => t.chunks[j] = s.chunks[j]
           /\ \A j \in Nat : j # i \/ j \in DOMAIN s.buf.dirty =>
                 ChunkData(t, j) = ChunkData(s, j)
           /\ i \notin DOMAIN s.buf.dirty => ChunkData(t, i) = s.blocks[k]
           /\ NoLeak(c, s, {k}) => NoLeak(c, t, {})
  <1>1. /\ Shape(t) /\ t.mode = s.mode /\ t.inline = s.inline /\ t.size = s.size
        /\ t.chunks = With(s.chunks, i, k) /\ t.blocks = s.blocks
        /\ t.fresh = s.fresh /\ t.buf = s.buf
    BY setChunkKeyFields DEF StoreOK
  <1>2. /\ DOMAIN t.chunks = DOMAIN s.chunks \cup {i} /\ t.chunks[i] = k
        /\ \A j \in DOMAIN s.chunks : j # i => t.chunks[j] = s.chunks[j]
    BY <1>1 DEF With
  <1>3. \A j \in DOMAIN t.chunks : t.chunks[j] \in DOMAIN t.blocks /\ KeyFor(c, t.chunks[j], j)
    BY <1>1, <1>2 DEF StoreOK
  <1>4. StoreOK(c, t)
    BY <1>1, <1>2, <1>3 DEF StoreOK
  <1>5. NoLeak(c, s, {k}) => NoLeak(c, t, {})
    <2> SUFFICES ASSUME ~c.versioning, DOMAIN s.blocks = Keys(s.chunks) \cup {k}
                 PROVE  DOMAIN t.blocks = Keys(t.chunks)
      BY DEF NoLeak
    <2>1. \A j \in DOMAIN s.chunks : j = i => s.chunks[j] = k
      BY DEF StoreOK, KeyFor
    <2>2. Keys(t.chunks) = Keys(s.chunks) \cup {k}
      BY <1>2, <2>1 DEF Keys
    <2> QED
      BY <1>1, <2>2
  <1> QED
    BY <1>1, <1>2, <1>4, <1>5 DEF ChunkData

\* Chunks leave the map, and their blocks are nobody's.
CutFrom(c, s, from, t, gone) ==
    /\ StoreOK(c, t)
    /\ t.mode = s.mode /\ t.inline = s.inline /\ t.size = s.size
    /\ t.blocks = s.blocks /\ t.buf = s.buf /\ t.fresh = s.fresh
    /\ DOMAIN t.chunks = {i \in DOMAIN s.chunks : i < from}
    /\ \A i \in DOMAIN t.chunks : t.chunks[i] = s.chunks[i]
    /\ \A i \in Nat : i < from \/ i \in DOMAIN s.buf.dirty =>
          ChunkData(t, i) = ChunkData(s, i)
    /\ gone \cap Keys(t.chunks) = {}
    /\ NoLeak(c, s, {}) => NoLeak(c, t, gone)

LEMMA Drop ==
    ASSUME NEW c, NEW s, StoreOK(c, s), CfgOK(c), NEW from \in Nat,
           NEW t, t = deleteChunksFrom(s, from), NEW gone,
           gone = {s.chunks[i] : i \in DOMAIN s.chunks \ DOMAIN t.chunks}
    PROVE  CutFrom(c, s, from, t, gone)
  <1>1. /\ Shape(t) /\ t.mode = s.mode /\ t.inline = s.inline /\ t.size = s.size
        /\ DOMAIN t.chunks = {i \in DOMAIN s.chunks : i < from}
        /\ \A i \in DOMAIN t.chunks : t.chunks[i] = s.chunks[i]
        /\ t.blocks = s.blocks /\ t.fresh = s.fresh /\ t.buf = s.buf
    BY deleteChunksFromFields DEF StoreOK
  <1>2. StoreOK(c, t)
    BY <1>1 DEF StoreOK
  <1>3. \A i, j \in DOMAIN s.chunks : s.chunks[i] = s.chunks[j] => i = j
    <2> SUFFICES ASSUME NEW i \in DOMAIN s.chunks, NEW j \in DOMAIN s.chunks,
                        s.chunks[i] = s.chunks[j]
                 PROVE  i = j
      OBVIOUS
    <2>1. KeyFor(c, s.chunks[i], i) /\ KeyFor(c, s.chunks[j], j)
      BY DEF StoreOK
    <2> QED
      BY <2>1 DEF KeyFor
  <1>4. gone \cap Keys(t.chunks) = {}
    BY <1>1, <1>3 DEF Keys
  <1>5. Keys(s.chunks) = Keys(t.chunks) \cup gone
    BY <1>1 DEF Keys
  <1>6. NoLeak(c, s, {}) => NoLeak(c, t, gone)
    BY <1>1, <1>5 DEF NoLeak
  <1>7. \A i \in Nat : i < from \/ i \in DOMAIN s.buf.dirty =>
           ChunkData(t, i) = ChunkData(s, i)
    BY <1>1 DEF ChunkData
  <1> QED
    BY <1>1, <1>2, <1>4, <1>6, <1>7 DEF CutFrom

\* Blocks that no chunk refers to go.
LEMMA Delete ==
    ASSUME NEW c, NEW s, StoreOK(c, s), NEW keys, keys \cap Keys(s.chunks) = {},
           NEW t, t = deleteMany(s, keys)
    PROVE  /\ StoreOK(c, t)
           /\ t.mode = s.mode /\ t.inline = s.inline /\ t.size = s.size
           /\ t.chunks = s.chunks /\ t.buf = s.buf /\ t.fresh = s.fresh
           /\ DOMAIN t.blocks = DOMAIN s.blocks \ keys
           /\ \A k \in DOMAIN t.blocks : t.blocks[k] = s.blocks[k]
           /\ \A i \in Nat : ChunkData(t, i) = ChunkData(s, i)
           /\ NoLeak(c, s, keys) => NoLeak(c, t, {})
  <1>1. /\ Shape(t) /\ t.mode = s.mode /\ t.inline = s.inline /\ t.size = s.size
        /\ t.chunks = s.chunks /\ DOMAIN t.blocks = DOMAIN s.blocks \ keys
        /\ \A k \in DOMAIN t.blocks : t.blocks[k] = s.blocks[k]
        /\ t.fresh = s.fresh /\ t.buf = s.buf
    BY deleteManyFields DEF StoreOK
  <1>2. \A i \in DOMAIN s.chunks : s.chunks[i] \in Keys(s.chunks) /\ s.chunks[i] \in DOMAIN t.blocks
    BY <1>1 DEF Keys, StoreOK
  <1>3. StoreOK(c, t)
    BY <1>1, <1>2 DEF StoreOK
  <1>4. NoLeak(c, s, keys) => NoLeak(c, t, {})
    BY <1>1 DEF NoLeak
  <1> QED
    BY <1>1, <1>2, <1>3, <1>4 DEF ChunkData

----------------------------------------------------------------------------
(* Contents *)

\* Beyond the last byte there are zeros.
LEMMA Beyond ==
    ASSUME NEW c, NEW s, StoreOK(c, s), NEW n \in Nat, Within(s, n),
           NEW i \in Nat, NEW o \in 1 .. ChunkSize, i * ChunkSize + o > n
    PROVE  Cell(s, i, o) = 0
  <1>1. i * ChunkSize \in Nat /\ o \in Nat /\ o >= 1
    BY Place
  <1>2. Len(ChunkData(s, i)) \in Nat
    BY DataFacts
  <1>3. o > Len(ChunkData(s, i))
    <2>1. CASE ChunkData(s, i) = <<>>
      BY <1>1, <2>1
    <2>2. CASE ChunkData(s, i) # <<>>
      <3>1. i * ChunkSize + Len(ChunkData(s, i)) <= n
        BY <2>2 DEF Within
      <3> HIDE DEF Within
      <3> DEFINE m == i * ChunkSize
                 l == Len(ChunkData(s, i))
      <3>2. m \in Nat /\ l \in Nat /\ m + l <= n /\ m + o > n
        BY <1>1, <1>2, <3>1
      <3> HIDE DEF m, l
      <3>3. o > l
        BY <1>1, <3>2
      <3> QED
        BY <3>3 DEF l
    <2> QED
      BY <2>1, <2>2
  <1> QED
    BY <1>3, CellFacts

\* A file whose chunks end within n, and whose first n bytes are right, is right.
LEMMA UptoHolds ==
    ASSUME NEW c, NEW s, StoreOK(c, s), NEW f \in Seq(Nat), Within(s, Len(f)),
           Upto(s, f, Len(f))
    PROVE  Holds(s, f)
  <1> SUFFICES ASSUME NEW i \in Nat, NEW o \in 1 .. ChunkSize
               PROVE  Cell(s, i, o) = At(f, i * ChunkSize + o)
    BY DEF Holds
  <1>0. Len(f) \in Nat
    BY LenProperties
  <1>1. i * ChunkSize + o \in Nat /\ i * ChunkSize + o >= 1 /\ Len(f) \in Nat
    <2>1. i * ChunkSize + o \in Nat /\ i * ChunkSize + o >= 1
      BY Place
    <2> QED
      BY <1>0, <2>1
  <1>2. CASE i * ChunkSize + o <= Len(f)
    BY <1>2 DEF Upto
  <1>3. CASE i * ChunkSize + o > Len(f)
    <2>1. Cell(s, i, o) = 0
      BY <1>1, <1>3, Beyond
    <2> QED
      BY <1>1, <1>3, <2>1, AtFacts
  <1> QED
    BY <1>1, <1>2, <1>3

\* Putting the chunks together gives what the bytes say.
LEMMA AssembledFacts ==
    ASSUME NEW c, NEW s, StoreOK(c, s), NEW n \in Nat
    PROVE  /\ Assembled(s, n) \in Seq(Nat) /\ Len(Assembled(s, n)) = n
           /\ Upto(s, Assembled(s, n), n)
           /\ \A f \in Seq(Nat) : Len(f) = n /\ Upto(s, f, n) => Assembled(s, n) = f
  <1> DEFINE I(j) == (j - 1) \div ChunkSize
             O(j) == 1 + ((j - 1) % ChunkSize)
  <1>1. \A j \in 1 .. n : /\ I(j) \in Nat /\ O(j) \in 1 .. ChunkSize
                          /\ j = I(j) * ChunkSize + O(j)
    BY PlaceOf
  <1>2. Assembled(s, n) = [j \in 1 .. n |-> Cell(s, I(j), O(j))]
    BY DEF Assembled, Cell
  <1>3. \A j \in 1 .. n : Cell(s, I(j), O(j)) \in Nat
    BY <1>1, CellFacts
  <1>4. \A i \in Nat, o \in 1 .. ChunkSize :
           I(i * ChunkSize + o) = i /\ O(i * ChunkSize + o) = o
    BY Place
  <1> HIDE DEF I, O
  <1>5. Assembled(s, n) \in Seq(Nat) /\ Len(Assembled(s, n)) = n
    BY <1>2, <1>3, IsASeq
  <1>6. Upto(s, Assembled(s, n), n)
    <2> SUFFICES ASSUME NEW i \in Nat, NEW o \in 1 .. ChunkSize, i * ChunkSize + o <= n
                 PROVE  Cell(s, i, o) = At(Assembled(s, n), i * ChunkSize + o)
      BY DEF Upto
    <2>1. i * ChunkSize + o \in 1 .. n
      BY Place
    <2>2. Assembled(s, n)[i * ChunkSize + o] = Cell(s, i, o)
      BY <1>2, <1>4, <2>1
    <2> QED
      BY <1>5, <2>1, <2>2 DEF At
  <1>7. ASSUME NEW f \in Seq(Nat), Len(f) = n, Upto(s, f, n)
        PROVE  Assembled(s, n) = f
    <2>1. ASSUME NEW j \in 1 .. n PROVE Assembled(s, n)[j] = f[j]
      <3>1. Cell(s, I(j), O(j)) = At(f, I(j) * ChunkSize + O(j))
        <4>1. I(j) * ChunkSize + O(j) <= n
          BY <1>1
        <4> QED
          BY <1>1, <1>7, <4>1 DEF Upto
      <3>2. Cell(s, I(j), O(j)) = At(f, j)
        BY <1>1, <3>1
      <3>3. At(f, j) = f[j]
        BY <1>7 DEF At
      <3> QED
        BY <1>2, <3>2, <3>3
    <2> QED
      BY <1>5, <1>7, <2>1, SeqEqual
  <1> QED
    BY <1>5, <1>6, <1>7

\* The buffer and the inode agree on the size.
LEMMA SizeFacts ==
    ASSUME NEW c, NEW s, StoreOK(c, s)
    PROVE  effectiveSize(s) = s.size /\ s.size \in Nat /\ (s.mode = "inline" => ~s.buf.on)
  BY DEF StoreOK, effectiveSize

LEMMA EmptyFile ==
    ASSUME NEW f \in Seq(Nat)
    PROVE  Len(f) = 0 <=> f = <<>>
  BY EmptySeq

\* A file that holds f is read as f.
LEMMA ExactReads ==
    ASSUME NEW c, NEW s, StoreOK(c, s), NEW f \in Seq(Nat), Exact(s, f)
    PROVE  readInodeContent(s) = f
  <1>1. effectiveSize(s) = s.size /\ s.size \in Nat /\ (s.mode = "inline" => ~s.buf.on)
        /\ s.mode \in {"inline", "chunked"}
    BY SizeFacts DEF StoreOK
  <1>2. CASE s.size = 0
    BY <1>1, <1>2, EmptyFile DEF Exact, readInodeContent
  <1>3. CASE s.size # 0 /\ s.mode = "inline"
    BY <1>1, <1>3 DEF Exact, readInodeContent
  <1>4. CASE s.size # 0 /\ s.mode = "chunked"
    <2>1. Upto(s, f, s.size) /\ Len(f) = s.size
      BY <1>4 DEF Exact, Holds, Upto
    <2>2. Assembled(s, s.size) = f
      BY <1>1, <2>1, AssembledFacts
    <2> QED
      BY <1>1, <1>4, <2>2 DEF readInodeContent
  <1> QED
    BY <1>1, <1>2, <1>3, <1>4

\* A file at rest holds what is read of it.
LEMMA ReadsExact ==
    ASSUME NEW c, NEW s, StoreOK(c, s), AtRest(s)
    PROVE  readInodeContent(s) \in Seq(Nat) /\ Exact(s, readInodeContent(s))
  <1> DEFINE f == readInodeContent(s)
  <1>1. effectiveSize(s) = s.size /\ s.size \in Nat /\ (s.mode = "inline" => ~s.buf.on)
        /\ s.mode \in {"inline", "chunked"} /\ s.inline \in Seq(Nat)
    BY SizeFacts DEF StoreOK
  <1>2. CASE s.mode = "inline"
    <2>1. Len(s.inline) = s.size
      BY <1>2 DEF AtRest
    <2>2. f = s.inline
      BY <1>1, <1>2, <2>1, EmptyFile DEF readInodeContent
    <2> QED
      BY <1>1, <1>2, <2>1, <2>2 DEF Exact
  <1>3. CASE s.mode = "chunked"
    <2>1. Within(s, s.size)
      BY <1>3 DEF AtRest
    <2>2. /\ Assembled(s, s.size) \in Seq(Nat) /\ Len(Assembled(s, s.size)) = s.size
          /\ Upto(s, Assembled(s, s.size), s.size)
      BY <1>1, AssembledFacts
    <2>3. f = Assembled(s, s.size)
      BY <1>1, <1>3, <2>2, EmptyFile DEF readInodeContent
    <2>4. Holds(s, f)
      BY <2>1, <2>2, <2>3, UptoHolds
    <2> QED
      BY <1>3, <2>2, <2>3, <2>4 DEF Exact
  <1> QED
    BY <1>1, <1>2, <1>3

\* What depends on the bytes only.
LEMMA SameData ==
    ASSUME NEW s, NEW t, \A i \in Nat : ChunkData(t, i) = ChunkData(s, i)
    PROVE  /\ \A n : Within(s, n) => Within(t, n)
           /\ \A f : Holds(s, f) => Holds(t, f)
           /\ \A f, n : Upto(s, f, n) => Upto(t, f, n)
           /\ \A i \in Nat : \A o : Cell(t, i, o) = Cell(s, i, o)
  <1>1. \A i \in Nat : \A o : Cell(t, i, o) = Cell(s, i, o)
    BY DEF Cell
  <1> QED
    BY <1>1 DEF Within, Holds, Upto

\* The bytes of a file at rest determine what it holds.
LEMMA SameExact ==
    ASSUME NEW s, NEW t, \A i \in Nat : ChunkData(t, i) = ChunkData(s, i),
           t.mode = s.mode, t.inline = s.inline, t.size = s.size,
           DOMAIN t.chunks = DOMAIN s.chunks
    PROVE  /\ AtRest(s) => AtRest(t)
           /\ \A f : Exact(s, f) => Exact(t, f)
  <1>1. /\ \A n : Within(s, n) => Within(t, n)
        /\ \A f : Holds(s, f) => Holds(t, f)
    BY SameData
  <1> QED
    BY <1>1 DEF AtRest, Exact

----------------------------------------------------------------------------
(* Operations *)

\* The operation's record, field by field, and the changes its steps make to it.
OpIs(q, do, at, data, off, n, i, key, keys, left, content) ==
    /\ OpOK(q) /\ q.do = do /\ q.at = at /\ q.data = data /\ q.off = off /\ q.n = n
    /\ q.i = i /\ q.key = key /\ q.keys = keys /\ q.left = left
    /\ q.content = content

\* The updates of the operation in progress leave it an operation.
LEMMA OpDo ==
    ASSUME NEW o, OpOK(o), NEW a
    PROVE  OpIs([o EXCEPT !.do = a],
                a, o.at, o.data, o.off, o.n, o.i, o.key, o.keys, o.left, o.content)
  <1> DEFINE w == [o EXCEPT !.do = a]
  <1>1. o = [do |-> o.do, at |-> o.at, data |-> o.data, off |-> o.off, n |-> o.n,
             i |-> o.i, key |-> o.key, keys |-> o.keys, left |-> o.left,
             content |-> o.content]
    BY DEF OpOK
  <1>2. w = [do |-> a, at |-> o.at, data |-> o.data, off |-> o.off, n |-> o.n,
             i |-> o.i, key |-> o.key, keys |-> o.keys, left |-> o.left,
             content |-> o.content]
    BY <1>1
  <1> HIDE DEF w
  <1>3. /\ o.data \in Seq(Nat) /\ o.content \in Seq(Nat)
        /\ o.off \in Nat /\ o.n \in Nat /\ o.i \in Nat
    BY DEF OpOK
  <1>4. OpOK(w)
    BY <1>2, <1>3 DEF OpOK
  <1>5. OpIs(w, a, o.at, o.data, o.off, o.n, o.i, o.key, o.keys, o.left, o.content)
    BY <1>2, <1>4 DEF OpIs
  <1> QED
    BY <1>5 DEF w

LEMMA OpAt ==
    ASSUME NEW o, OpOK(o), NEW a
    PROVE  OpIs([o EXCEPT !.at = a],
                o.do, a, o.data, o.off, o.n, o.i, o.key, o.keys, o.left, o.content)
  <1> DEFINE w == [o EXCEPT !.at = a]
  <1>1. o = [do |-> o.do, at |-> o.at, data |-> o.data, off |-> o.off, n |-> o.n,
             i |-> o.i, key |-> o.key, keys |-> o.keys, left |-> o.left,
             content |-> o.content]
    BY DEF OpOK
  <1>2. w = [do |-> o.do, at |-> a, data |-> o.data, off |-> o.off, n |-> o.n,
             i |-> o.i, key |-> o.key, keys |-> o.keys, left |-> o.left,
             content |-> o.content]
    BY <1>1
  <1> HIDE DEF w
  <1>3. /\ o.data \in Seq(Nat) /\ o.content \in Seq(Nat)
        /\ o.off \in Nat /\ o.n \in Nat /\ o.i \in Nat
    BY DEF OpOK
  <1>4. OpOK(w)
    BY <1>2, <1>3 DEF OpOK
  <1>5. OpIs(w, o.do, a, o.data, o.off, o.n, o.i, o.key, o.keys, o.left, o.content)
    BY <1>2, <1>4 DEF OpIs
  <1> QED
    BY <1>5 DEF w

LEMMA OpI ==
    ASSUME NEW o, OpOK(o), NEW i \in Nat
    PROVE  OpIs([o EXCEPT !.i = i],
                o.do, o.at, o.data, o.off, o.n, i, o.key, o.keys, o.left, o.content)
  <1> DEFINE w == [o EXCEPT !.i = i]
  <1>1. o = [do |-> o.do, at |-> o.at, data |-> o.data, off |-> o.off, n |-> o.n,
             i |-> o.i, key |-> o.key, keys |-> o.keys, left |-> o.left,
             content |-> o.content]
    BY DEF OpOK
  <1>2. w = [do |-> o.do, at |-> o.at, data |-> o.data, off |-> o.off, n |-> o.n,
             i |-> i, key |-> o.key, keys |-> o.keys, left |-> o.left,
             content |-> o.content]
    BY <1>1
  <1> HIDE DEF w
  <1>3. /\ o.data \in Seq(Nat) /\ o.content \in Seq(Nat)
        /\ o.off \in Nat /\ o.n \in Nat /\ o.i \in Nat
    BY DEF OpOK
  <1>4. OpOK(w)
    BY <1>2, <1>3 DEF OpOK
  <1>5. OpIs(w, o.do, o.at, o.data, o.off, o.n, i, o.key, o.keys, o.left, o.content)
    BY <1>2, <1>4 DEF OpIs
  <1> QED
    BY <1>5 DEF w

\* A record operation with one sequence field replaced.
LEMMA OpReplaced ==
    ASSUME NEW o, NEW d,
           o = [do |-> o.do, at |-> o.at, data |-> o.data, off |-> o.off, n |-> o.n,
                i |-> o.i, key |-> o.key, keys |-> o.keys, left |-> o.left,
                content |-> o.content]
    PROVE  /\ [o EXCEPT !.data = d] = [do |-> o.do, at |-> o.at, data |-> d, off |-> o.off, n |-> o.n,
                  i |-> o.i, key |-> o.key, keys |-> o.keys, left |-> o.left,
                  content |-> o.content]
           /\ [o EXCEPT !.content = d] = [do |-> o.do, at |-> o.at, data |-> o.data, off |-> o.off, n |-> o.n,
                  i |-> o.i, key |-> o.key, keys |-> o.keys, left |-> o.left,
                  content |-> d]
  BY SMT

LEMMA OpData ==
    ASSUME NEW o, OpOK(o), NEW d \in Seq(Nat)
    PROVE  OpIs([o EXCEPT !.data = d],
                o.do, o.at, d, o.off, o.n, o.i, o.key, o.keys, o.left, o.content)
  <1> DEFINE w == [o EXCEPT !.data = d]
  <1>1. o = [do |-> o.do, at |-> o.at, data |-> o.data, off |-> o.off, n |-> o.n,
             i |-> o.i, key |-> o.key, keys |-> o.keys, left |-> o.left,
             content |-> o.content]
    BY DEF OpOK
  <1>2. w = [do |-> o.do, at |-> o.at, data |-> d, off |-> o.off, n |-> o.n,
             i |-> o.i, key |-> o.key, keys |-> o.keys, left |-> o.left,
             content |-> o.content]
    BY ONLY <1>1, OpReplaced
  <1> HIDE DEF w
  <1>3. /\ o.data \in Seq(Nat) /\ o.content \in Seq(Nat)
        /\ o.off \in Nat /\ o.n \in Nat /\ o.i \in Nat
    BY DEF OpOK
  <1>4. OpOK(w)
    BY <1>2, <1>3 DEF OpOK
  <1>5. OpIs(w, o.do, o.at, d, o.off, o.n, o.i, o.key, o.keys, o.left, o.content)
    BY <1>2, <1>4 DEF OpIs
  <1> QED
    BY <1>5 DEF w

LEMMA OpKey ==
    ASSUME NEW o, OpOK(o), NEW k
    PROVE  OpIs([o EXCEPT !.key = k],
                o.do, o.at, o.data, o.off, o.n, o.i, k, o.keys, o.left, o.content)
  <1> DEFINE w == [o EXCEPT !.key = k]
  <1>1. o = [do |-> o.do, at |-> o.at, data |-> o.data, off |-> o.off, n |-> o.n,
             i |-> o.i, key |-> o.key, keys |-> o.keys, left |-> o.left,
             content |-> o.content]
    BY DEF OpOK
  <1>2. w = [do |-> o.do, at |-> o.at, data |-> o.data, off |-> o.off, n |-> o.n,
             i |-> o.i, key |-> k, keys |-> o.keys, left |-> o.left,
             content |-> o.content]
    BY <1>1
  <1> HIDE DEF w
  <1>3. /\ o.data \in Seq(Nat) /\ o.content \in Seq(Nat)
        /\ o.off \in Nat /\ o.n \in Nat /\ o.i \in Nat
    BY DEF OpOK
  <1>4. OpOK(w)
    BY <1>2, <1>3 DEF OpOK
  <1>5. OpIs(w, o.do, o.at, o.data, o.off, o.n, o.i, k, o.keys, o.left, o.content)
    BY <1>2, <1>4 DEF OpIs
  <1> QED
    BY <1>5 DEF w

LEMMA OpKeys ==
    ASSUME NEW o, OpOK(o), NEW ks
    PROVE  OpIs([o EXCEPT !.keys = ks],
                o.do, o.at, o.data, o.off, o.n, o.i, o.key, ks, o.left, o.content)
  <1> DEFINE w == [o EXCEPT !.keys = ks]
  <1>1. o = [do |-> o.do, at |-> o.at, data |-> o.data, off |-> o.off, n |-> o.n,
             i |-> o.i, key |-> o.key, keys |-> o.keys, left |-> o.left,
             content |-> o.content]
    BY DEF OpOK
  <1>2. w = [do |-> o.do, at |-> o.at, data |-> o.data, off |-> o.off, n |-> o.n,
             i |-> o.i, key |-> o.key, keys |-> ks, left |-> o.left,
             content |-> o.content]
    BY <1>1
  <1> HIDE DEF w
  <1>3. /\ o.data \in Seq(Nat) /\ o.content \in Seq(Nat)
        /\ o.off \in Nat /\ o.n \in Nat /\ o.i \in Nat
    BY DEF OpOK
  <1>4. OpOK(w)
    BY <1>2, <1>3 DEF OpOK
  <1>5. OpIs(w, o.do, o.at, o.data, o.off, o.n, o.i, o.key, ks, o.left, o.content)
    BY <1>2, <1>4 DEF OpIs
  <1> QED
    BY <1>5 DEF w

LEMMA OpLeft ==
    ASSUME NEW o, OpOK(o), NEW l
    PROVE  OpIs([o EXCEPT !.left = l],
                o.do, o.at, o.data, o.off, o.n, o.i, o.key, o.keys, l, o.content)
  <1> DEFINE w == [o EXCEPT !.left = l]
  <1>1. o = [do |-> o.do, at |-> o.at, data |-> o.data, off |-> o.off, n |-> o.n,
             i |-> o.i, key |-> o.key, keys |-> o.keys, left |-> o.left,
             content |-> o.content]
    BY DEF OpOK
  <1>2. w = [do |-> o.do, at |-> o.at, data |-> o.data, off |-> o.off, n |-> o.n,
             i |-> o.i, key |-> o.key, keys |-> o.keys, left |-> l,
             content |-> o.content]
    BY <1>1
  <1> HIDE DEF w
  <1>3. /\ o.data \in Seq(Nat) /\ o.content \in Seq(Nat)
        /\ o.off \in Nat /\ o.n \in Nat /\ o.i \in Nat
    BY DEF OpOK
  <1>4. OpOK(w)
    BY <1>2, <1>3 DEF OpOK
  <1>5. OpIs(w, o.do, o.at, o.data, o.off, o.n, o.i, o.key, o.keys, l, o.content)
    BY <1>2, <1>4 DEF OpIs
  <1> QED
    BY <1>5 DEF w

LEMMA OpContent ==
    ASSUME NEW o, OpOK(o), NEW d \in Seq(Nat)
    PROVE  OpIs([o EXCEPT !.content = d],
                o.do, o.at, o.data, o.off, o.n, o.i, o.key, o.keys, o.left, d)
  <1> DEFINE w == [o EXCEPT !.content = d]
  <1>1. o = [do |-> o.do, at |-> o.at, data |-> o.data, off |-> o.off, n |-> o.n,
             i |-> o.i, key |-> o.key, keys |-> o.keys, left |-> o.left,
             content |-> o.content]
    BY DEF OpOK
  <1>2. w = [do |-> o.do, at |-> o.at, data |-> o.data, off |-> o.off, n |-> o.n,
             i |-> o.i, key |-> o.key, keys |-> o.keys, left |-> o.left,
             content |-> d]
    BY ONLY <1>1, OpReplaced
  <1> HIDE DEF w
  <1>3. o.data \in Seq(Nat) /\ o.off \in Nat /\ o.n \in Nat /\ o.i \in Nat
    BY DEF OpOK
  <1>4. OpOK(w)
    BY <1>2, <1>3 DEF OpOK
  <1>5. OpIs(w, o.do, o.at, o.data, o.off, o.n, o.i, o.key, o.keys, o.left, d)
    BY <1>2, <1>4 DEF OpIs
  <1> QED
    BY <1>5 DEF w

AtI(o, a, i) == [o EXCEPT !.at = a, !.i = i]

LEMMA OpAtI ==
    ASSUME NEW o, OpOK(o), NEW a, NEW i \in Nat
    PROVE  OpIs(AtI(o, a, i), o.do, a, o.data, o.off, o.n, i, o.key, o.keys, o.left, o.content)
  <1> DEFINE p == [o EXCEPT !.at = a]
             w == [p EXCEPT !.i = i]
  <1>1. OpIs(p, o.do, a, o.data, o.off, o.n, o.i, o.key, o.keys, o.left, o.content)
    BY OpAt
  <1>2. AtI(o, a, i) = w
    BY DEF AtI
  <1> HIDE DEF p
  <1>3. OpOK(p)
    BY <1>1 DEF OpIs
  <1>4. OpIs(w, p.do, p.at, p.data, p.off, p.n, i, p.key, p.keys, p.left, p.content)
    BY <1>3, OpI
  <1> HIDE DEF w
  <1>5. OpIs(w, o.do, a, o.data, o.off, o.n, i, o.key, o.keys, o.left, o.content)
    BY <1>1, <1>4 DEF OpIs
  <1> QED
    BY <1>2, <1>5

AtData(o, a, d) == [o EXCEPT !.at = a, !.data = d]

LEMMA OpAtData ==
    ASSUME NEW o, OpOK(o), NEW a, NEW d \in Seq(Nat)
    PROVE  OpIs(AtData(o, a, d), o.do, a, d, o.off, o.n, o.i, o.key, o.keys, o.left, o.content)
  <1> DEFINE p == [o EXCEPT !.at = a]
             w == [p EXCEPT !.data = d]
  <1>1. OpIs(p, o.do, a, o.data, o.off, o.n, o.i, o.key, o.keys, o.left, o.content)
    BY OpAt
  <1>2. AtData(o, a, d) = w
    BY DEF AtData
  <1> HIDE DEF p
  <1>3. OpOK(p)
    BY <1>1 DEF OpIs
  <1>4. OpIs(w, p.do, p.at, d, p.off, p.n, p.i, p.key, p.keys, p.left, p.content)
    BY <1>3, OpData
  <1> HIDE DEF w
  <1>5. OpIs(w, o.do, a, d, o.off, o.n, o.i, o.key, o.keys, o.left, o.content)
    BY <1>1, <1>4 DEF OpIs
  <1> QED
    BY <1>2, <1>5

AtKey(o, a, k) == [o EXCEPT !.at = a, !.key = k]

LEMMA OpAtKey ==
    ASSUME NEW o, OpOK(o), NEW a, NEW k
    PROVE  OpIs(AtKey(o, a, k), o.do, a, o.data, o.off, o.n, o.i, k, o.keys, o.left, o.content)
  <1> DEFINE p == [o EXCEPT !.at = a]
             w == [p EXCEPT !.key = k]
  <1>1. OpIs(p, o.do, a, o.data, o.off, o.n, o.i, o.key, o.keys, o.left, o.content)
    BY OpAt
  <1>2. AtKey(o, a, k) = w
    BY DEF AtKey
  <1> HIDE DEF p
  <1>3. OpOK(p)
    BY <1>1 DEF OpIs
  <1>4. OpIs(w, p.do, p.at, p.data, p.off, p.n, p.i, k, p.keys, p.left, p.content)
    BY <1>3, OpKey
  <1> HIDE DEF w
  <1>5. OpIs(w, o.do, a, o.data, o.off, o.n, o.i, k, o.keys, o.left, o.content)
    BY <1>1, <1>4 DEF OpIs
  <1> QED
    BY <1>2, <1>5

AtKeys(o, a, ks) == [o EXCEPT !.at = a, !.keys = ks]

LEMMA OpAtKeys ==
    ASSUME NEW o, OpOK(o), NEW a, NEW ks
    PROVE  OpIs(AtKeys(o, a, ks),
                o.do, a, o.data, o.off, o.n, o.i, o.key, ks, o.left, o.content)
  <1> DEFINE p == [o EXCEPT !.at = a]
             w == [p EXCEPT !.keys = ks]
  <1>1. OpIs(p, o.do, a, o.data, o.off, o.n, o.i, o.key, o.keys, o.left, o.content)
    BY OpAt
  <1>2. AtKeys(o, a, ks) = w
    BY DEF AtKeys
  <1> HIDE DEF p
  <1>3. OpOK(p)
    BY <1>1 DEF OpIs
  <1>4. OpIs(w, p.do, p.at, p.data, p.off, p.n, p.i, p.key, ks, p.left, p.content)
    BY <1>3, OpKeys
  <1> HIDE DEF w
  <1>5. OpIs(w, o.do, a, o.data, o.off, o.n, o.i, o.key, ks, o.left, o.content)
    BY <1>1, <1>4 DEF OpIs
  <1> QED
    BY <1>2, <1>5

AtLeft(o, a, l) == [o EXCEPT !.at = a, !.left = l]

LEMMA OpAtLeft ==
    ASSUME NEW o, OpOK(o), NEW a, NEW l
    PROVE  OpIs(AtLeft(o, a, l), o.do, a, o.data, o.off, o.n, o.i, o.key, o.keys, l, o.content)
  <1> DEFINE p == [o EXCEPT !.at = a]
             w == [p EXCEPT !.left = l]
  <1>1. OpIs(p, o.do, a, o.data, o.off, o.n, o.i, o.key, o.keys, o.left, o.content)
    BY OpAt
  <1>2. AtLeft(o, a, l) = w
    BY DEF AtLeft
  <1> HIDE DEF p
  <1>3. OpOK(p)
    BY <1>1 DEF OpIs
  <1>4. OpIs(w, p.do, p.at, p.data, p.off, p.n, p.i, p.key, p.keys, l, p.content)
    BY <1>3, OpLeft
  <1> HIDE DEF w
  <1>5. OpIs(w, o.do, a, o.data, o.off, o.n, o.i, o.key, o.keys, l, o.content)
    BY <1>1, <1>4 DEF OpIs
  <1> QED
    BY <1>2, <1>5

AtIKey(o, a, i, k) == [o EXCEPT !.at = a, !.i = i, !.key = k]

LEMMA OpAtIKey ==
    ASSUME NEW o, OpOK(o), NEW a, NEW i \in Nat, NEW k
    PROVE  OpIs(AtIKey(o, a, i, k),
                o.do, a, o.data, o.off, o.n, i, k, o.keys, o.left, o.content)
  <1> DEFINE p == AtI(o, a, i)
             w == [p EXCEPT !.key = k]
  <1>1. OpIs(p, o.do, a, o.data, o.off, o.n, i, o.key, o.keys, o.left, o.content)
    BY OpAtI
  <1>2. AtIKey(o, a, i, k) = w
    BY DEF AtIKey, AtI
  <1> HIDE DEF p
  <1>3. OpOK(p)
    BY <1>1 DEF OpIs
  <1>4. OpIs(w, p.do, p.at, p.data, p.off, p.n, p.i, k, p.keys, p.left, p.content)
    BY <1>3, OpKey
  <1> HIDE DEF w
  <1>5. OpIs(w, o.do, a, o.data, o.off, o.n, i, k, o.keys, o.left, o.content)
    BY <1>1, <1>4 DEF OpIs
  <1> QED
    BY <1>2, <1>5

AtContent(o, a, d) == [o EXCEPT !.at = a, !.content = d]

LEMMA OpAtContent ==
    ASSUME NEW o, OpOK(o), NEW a, NEW d \in Seq(Nat)
    PROVE  OpIs(AtContent(o, a, d),
                o.do, a, o.data, o.off, o.n, o.i, o.key, o.keys, o.left, d)
  <1> DEFINE p == [o EXCEPT !.at = a]
             w == [p EXCEPT !.content = d]
  <1>1. OpIs(p, o.do, a, o.data, o.off, o.n, o.i, o.key, o.keys, o.left, o.content)
    BY OpAt
  <1>2. AtContent(o, a, d) = w
    BY DEF AtContent
  <1> HIDE DEF p
  <1>3. OpOK(p)
    BY <1>1 DEF OpIs
  <1>4. OpIs(w, p.do, p.at, p.data, p.off, p.n, p.i, p.key, p.keys, p.left, d)
    BY <1>3, OpContent
  <1> HIDE DEF w
  <1>5. OpIs(w, o.do, a, o.data, o.off, o.n, o.i, o.key, o.keys, o.left, d)
    BY <1>1, <1>4 DEF OpIs
  <1> QED
    BY <1>2, <1>5

AtIContent(o, a, i, d) == [o EXCEPT !.at = a, !.i = i, !.content = d]

LEMMA OpAtIContent ==
    ASSUME NEW o, OpOK(o), NEW a, NEW i \in Nat, NEW d \in Seq(Nat)
    PROVE  OpIs(AtIContent(o, a, i, d),
                o.do, a, o.data, o.off, o.n, i, o.key, o.keys, o.left, d)
  <1> DEFINE p == AtI(o, a, i)
             w == [p EXCEPT !.content = d]
  <1>1. OpIs(p, o.do, a, o.data, o.off, o.n, i, o.key, o.keys, o.left, o.content)
    BY OpAtI
  <1>2. AtIContent(o, a, i, d) = w
    BY DEF AtIContent, AtI
  <1> HIDE DEF p
  <1>3. OpOK(p)
    BY <1>1 DEF OpIs
  <1>4. OpIs(w, p.do, p.at, p.data, p.off, p.n, p.i, p.key, p.keys, p.left, d)
    BY <1>3, OpContent
  <1> HIDE DEF w
  <1>5. OpIs(w, o.do, a, o.data, o.off, o.n, i, o.key, o.keys, o.left, d)
    BY <1>1, <1>4 DEF OpIs
  <1> QED
    BY <1>2, <1>5

AtIData(o, a, i, d) == [o EXCEPT !.at = a, !.i = i, !.data = d]

LEMMA OpAtIData ==
    ASSUME NEW o, OpOK(o), NEW a, NEW i \in Nat, NEW d \in Seq(Nat)
    PROVE  OpIs(AtIData(o, a, i, d),
                o.do, a, d, o.off, o.n, i, o.key, o.keys, o.left, o.content)
  <1> DEFINE p == AtI(o, a, i)
             w == [p EXCEPT !.data = d]
  <1>1. OpIs(p, o.do, a, o.data, o.off, o.n, i, o.key, o.keys, o.left, o.content)
    BY OpAtI
  <1>2. AtIData(o, a, i, d) = w
    BY DEF AtIData, AtI
  <1> HIDE DEF p
  <1>3. OpOK(p)
    BY <1>1 DEF OpIs
  <1>4. OpIs(w, p.do, p.at, d, p.off, p.n, p.i, p.key, p.keys, p.left, p.content)
    BY <1>3, OpData
  <1> HIDE DEF w
  <1>5. OpIs(w, o.do, a, d, o.off, o.n, i, o.key, o.keys, o.left, o.content)
    BY <1>1, <1>4 DEF OpIs
  <1> QED
    BY <1>2, <1>5

\* The record an operation begins with.
LEMMA OperationFacts ==
    ASSUME NEW what, NEW off \in Nat, NEW data \in Seq(Nat), NEW n \in Nat
    PROVE  OpIs(Operation(what, off, data, n), what, "idle", data, off, n, 0, <<0, 0>>, {}, {}, <<>>)
  <1> DEFINE o == Operation(what, off, data, n)
  <1>1. o = [do |-> what, at |-> "idle", data |-> data, off |-> off, n |-> n,
             i |-> 0, key |-> <<0, 0>>, keys |-> {}, left |-> {}, content |-> <<>>]
    BY DEF Operation
  <1> HIDE DEF o
  <1>2. OpOK(o)
    BY <1>1 DEF OpOK
  <1>3. OpIs(o, what, "idle", data, off, n, 0, <<0, 0>>, {}, {}, <<>>)
    BY <1>1, <1>2 DEF OpIs
  <1> QED
    BY <1>3 DEF o

LEMMA NoOpFacts ==
    /\ OpOK(NoOp) /\ NoOp.at = "idle" /\ NoOp.left = {} /\ NoOp.keys = {}
  BY DEF OpOK, NoOp, Operation

\* Where an operation is says what is true of it.
LEMMA PhaseAt ==
    ASSUME NEW c, NEW s, NEW o, NEW f, PhaseOK(c, s, o, f)
    PROVE  /\ o.at = "idle" => InIdle(c, s, o, f)
           /\ o.at = "drop" => InDrop(c, s, o, f)
           /\ o.at = "delete" => InDelete(c, s, o, f)
           /\ o.at \in {"inline", "update", "demoted"} => InInline(c, s, o, f)
           /\ o.at \in {"put", "key", "chunked"} => InLoad(c, s, o, f)
           /\ o.at = "promote" => InPromote(c, s, o, f)
           /\ o.at \in {"direct", "directKey", "buffer"} => InPatch(c, s, o, f)
           /\ o.at = "size" => InSize(c, s, o, f)
           /\ o.at \in {"cut", "cutKey"} => InCut(c, s, o, f)
           /\ o.at \in {"flush", "flushKey", "flushed"} => InFlush(c, s, o, f)
  <1>1. InIdle(c, s, o, f) => o.at = "idle"
    BY DEF InIdle, NoOp, Operation
  <1>2. InDrop(c, s, o, f) => o.at = "drop"
    BY DEF InDrop
  <1>3. InDelete(c, s, o, f) => o.at = "delete"
    BY DEF InDelete
  <1>4. InInline(c, s, o, f) => o.at \in {"inline", "update", "demoted"}
    BY DEF InInline
  <1>5. InLoad(c, s, o, f) => o.at \in {"put", "key", "chunked"}
    BY DEF InLoad
  <1>6. InPromote(c, s, o, f) => o.at = "promote"
    BY DEF InPromote
  <1>7. InPatch(c, s, o, f) => o.at \in {"direct", "directKey", "buffer"}
    BY DEF InPatch
  <1>8. InSize(c, s, o, f) => o.at = "size"
    BY DEF InSize
  <1>9. InCut(c, s, o, f) => o.at \in {"cut", "cutKey"}
    BY DEF InCut
  <1>10. InFlush(c, s, o, f) => o.at \in {"flush", "flushKey", "flushed"}
    BY DEF InFlush
  <1> QED
    BY <1>1, <1>2, <1>3, <1>4, <1>5, <1>6, <1>7, <1>8, <1>9, <1>10 DEF PhaseOK

----------------------------------------------------------------------------
(* Versions *)

\* The chunks of a version, as it would be restored.
LEMMA RestoredData ==
    ASSUME NEW s, Shape(s), NEW r, NEW i
    PROVE  ChunkData(Restored(s, r), i) =
             IF i \in DOMAIN r.chunks THEN s.blocks[r.chunks[i]] ELSE <<>>
  <1>1. LET t == Restored(s, r) IN
        t.chunks = r.chunks /\ t.blocks = s.blocks /\ DOMAIN t.buf.dirty = {}
    BY RestoredFields
  <1> QED
    BY <1>1 DEF ChunkData

\* These blocks are not lost or changed, except in place by a store that returns its
\* own arrays.
SameBlocks(c, s, t, keys) ==
    \A k \in keys :
        /\ k \in DOMAIN t.blocks /\ Len(t.blocks[k]) = Len(s.blocks[k])
        /\ ~c.aliasing => t.blocks[k] = s.blocks[k]

Kept(c, s, t) == SameBlocks(c, s, t, DOMAIN s.blocks)

\* A version whose blocks stay as they are stays what it is; over a store that
\* returns its own arrays, as long as they keep their length.
LEMMA VersionStays ==
    ASSUME NEW c, NEW s, NEW o, NEW r, VersionOK(c, s, o, r), StoreOK(c, s),
           NEW t, StoreOK(c, t), NEW q,
           SameBlocks(c, s, t, Keys(r.chunks)),
           Spares(q, r)
    PROVE  VersionOK(c, t, q, r)
  <1> DEFINE S == Restored(s, r)
             T == Restored(t, r)
  <1>1. Shape(s) /\ Shape(t)
    BY DEF StoreOK
  <1>2. /\ S.mode = r.mode /\ S.inline = r.inline /\ S.size = r.size
        /\ S.chunks = r.chunks /\ S.blocks = s.blocks
    <2>1. Shape(s)
      BY <1>1
    <2>2. LET u == Restored(s, r) IN
          /\ Shape(u) /\ u.mode = r.mode /\ u.inline = r.inline /\ u.size = r.size
          /\ u.chunks = r.chunks /\ u.blocks = s.blocks /\ u.fresh = s.fresh
          /\ u.buf.on = FALSE /\ DOMAIN u.buf.dirty = {} /\ u.buf.size = 0
          /\ u.buf.shared = {}
      BY <2>1, RestoredFields, Zenon
    <2> QED
      BY <2>2
  <1>3. /\ Shape(T) /\ T.mode = r.mode /\ T.inline = r.inline /\ T.size = r.size
        /\ T.chunks = r.chunks /\ T.blocks = t.blocks /\ T.fresh = t.fresh
        /\ T.buf.on = FALSE /\ DOMAIN T.buf.dirty = {} /\ T.buf.shared = {}
    <2>1. Shape(t)
      BY <1>1
    <2>2. LET u == Restored(t, r) IN
          /\ Shape(u) /\ u.mode = r.mode /\ u.inline = r.inline /\ u.size = r.size
          /\ u.chunks = r.chunks /\ u.blocks = t.blocks /\ u.fresh = t.fresh
          /\ u.buf.on = FALSE /\ DOMAIN u.buf.dirty = {} /\ u.buf.size = 0
          /\ u.buf.shared = {}
      BY <2>1, RestoredFields, Zenon
    <2> QED
      BY <2>2
  <1>4. \A i : ChunkData(S, i) = IF i \in DOMAIN r.chunks THEN s.blocks[r.chunks[i]] ELSE <<>>
    BY <1>1, RestoredData
  <1>5. \A i : ChunkData(T, i) = IF i \in DOMAIN r.chunks THEN t.blocks[r.chunks[i]] ELSE <<>>
    BY <1>1, RestoredData
  <1>6. StoreOK(c, S) /\ AtRest(S) /\ (~c.aliasing => Exact(S, r.was))
    BY DEF VersionOK
  <1> HIDE DEF S, T
  <1>7. \A i \in DOMAIN r.chunks :
           /\ r.chunks[i] \in DOMAIN t.blocks
           /\ Len(t.blocks[r.chunks[i]]) = Len(s.blocks[r.chunks[i]])
           /\ ~c.aliasing => t.blocks[r.chunks[i]] = s.blocks[r.chunks[i]]
    BY DEF Keys, SameBlocks
  <1>8. StoreOK(c, T)
    <2>1. /\ r.mode \in {"inline", "chunked"} /\ r.inline \in Seq(Nat) /\ r.size \in Nat
          /\ DOMAIN r.chunks \subseteq Nat
          /\ \A i \in DOMAIN r.chunks : KeyFor(c, r.chunks[i], i)
      BY <1>2, <1>6 DEF StoreOK
    <2>2. \A i \in DOMAIN r.chunks : r.chunks[i] \in DOMAIN t.blocks
      BY <1>7
    <2>3. t.fresh \in Nat /\ \A k \in DOMAIN t.blocks :
             IsBlock(t.blocks[k]) /\ k[2] \in Nat /\ (c.versioning => k[2] < t.fresh)
      BY DEF StoreOK
    <2> QED
      BY <1>3, <2>1, <2>2, <2>3 DEF StoreOK
  <1>9. \A i : Len(ChunkData(T, i)) = Len(ChunkData(S, i))
    BY <1>4, <1>5, <1>7
  <1>10. \A i \in Nat : ChunkData(T, i) # <<>> => ChunkData(S, i) # <<>>
    <2> SUFFICES ASSUME NEW i \in Nat, ChunkData(T, i) # <<>> PROVE ChunkData(S, i) # <<>>
      OBVIOUS
    <2>1. i \in DOMAIN T.chunks
      BY <1>3, <1>5
    <2> QED
      BY <1>2, <1>3, <1>6, <2>1, DataFacts
  <1>11. AtRest(T)
    <2>1. \A n : Within(S, n) => Within(T, n)
      BY <1>9, <1>10 DEF Within
    <2> QED
      BY <1>2, <1>3, <1>6, <2>1 DEF AtRest
  <1>12. ~c.aliasing => Exact(T, r.was)
    <2> SUFFICES ASSUME ~c.aliasing PROVE Exact(T, r.was)
      OBVIOUS
    <2>1. \A i \in Nat : ChunkData(T, i) = ChunkData(S, i)
      BY <1>4, <1>5, <1>7
    <2> QED
      BY <1>2, <1>3, <1>6, <2>1, SameExact
  <1> QED
    BY <1>8, <1>11, <1>12 DEF VersionOK, T

\* The blocks of a version exist.
LEMMA VersionKeys ==
    ASSUME NEW c, NEW s, Shape(s), NEW o, NEW r, VersionOK(c, s, o, r)
    PROVE  Keys(r.chunks) \subseteq DOMAIN s.blocks
  <1>1. Restored(s, r).chunks = r.chunks /\ Restored(s, r).blocks = s.blocks
    BY RestoredFields
  <1>2. StoreOK(c, Restored(s, r))
    BY DEF VersionOK
  <1> QED
    BY <1>1, <1>2 DEF StoreOK, Keys

\* The versions are true after a step that keeps the blocks.
LEMMA VersionsStay ==
    ASSUME NEW c, NEW s, NEW o, NEW vs, VersionsOK(c, s, o, vs), StoreOK(c, s),
           NEW t, StoreOK(c, t), NEW q, c.versioning => Kept(c, s, t) /\ q.at # "delete"
    PROVE  VersionsOK(c, t, q, vs)
  <1>1. CASE ~c.versioning
    BY <1>1 DEF VersionsOK
  <1>2. CASE c.versioning
    <2>1. ASSUME NEW v \in DOMAIN vs PROVE VersionOK(c, t, q, vs[v])
      <3>1. VersionOK(c, s, o, vs[v])
        BY DEF VersionsOK
      <3>2. Keys(vs[v].chunks) \subseteq DOMAIN s.blocks
        BY <3>1, VersionKeys DEF StoreOK
      <3> QED
        BY <1>2, <3>1, <3>2, VersionStays DEF Kept, SameBlocks, Spares
    <2> QED
      BY <2>1 DEF VersionsOK
  <1> QED
    BY <1>1, <1>2

----------------------------------------------------------------------------
(* Steps *)

\* A step of the operation in progress keeps the invariant if it leaves the stores
\* fit for the await it goes to, and keeps the versions' blocks.
LEMMA StepOK ==
    ASSUME IInv, NEW s, NEW o, Goes(s, o), op.at # "idle", StoreOK(cfg, s), BufferOK(s),
           OpOK(o), PhaseOK(cfg, s, o, file), VersionsOK(cfg, s, o, versions)
    PROVE  IInv'
  <1>1. /\ st' = s /\ op' = o /\ cfg' = cfg /\ versions' = versions /\ ops' = ops
        /\ file' = file /\ read' = read
    BY DEF Goes
  <1>2. ReadOK(cfg, s, o, file, read)
    BY DEF IInv, ReadOK
  <1> QED
    BY <1>1, <1>2 DEF IInv

\* A read that the file changes under is not quiet any more.
LEMMA ReadDisturbed ==
    ASSUME NEW c, NEW s, NEW o, NEW f, NEW r, ReadOK(c, s, o, f, r),
           NEW q, q = IF r.at = "idle" THEN r ELSE [r EXCEPT !.quiet = FALSE],
           NEW t, NEW w, NEW g
    PROVE  ReadOK(c, t, w, g, q)
  <1>1. CASE r.at = "idle"
    BY <1>1 DEF ReadOK
  <1>2. CASE r.at # "idle"
    <2>1. q = [at |-> r.at, meta |-> r.meta, keys |-> r.keys, data |-> r.data,
               due |-> r.due, quiet |-> FALSE, failed |-> r.failed]
      BY <1>2 DEF ReadOK
    <2>2. r.at \in {"idle", "keys", "blocks", "done"}
      BY DEF ReadOK
    <2> QED
      BY <2>1, <2>2 DEF ReadOK
  <1> QED
    BY <1>1, <1>2

\* An operation begins well if its first phase holds of the stores it begins with.
LEMMA BeginOK ==
    ASSUME IInv, NEW s, NEW o, NEW f \in Seq(Nat), Begin(s, o, f), StoreOK(cfg, s), BufferOK(s),
           OpOK(o), PhaseOK(cfg, s, o, f), VersionsOK(cfg, s, o, versions')
    PROVE  IInv'
  <1>1. /\ st' = s /\ op' = o /\ cfg' = cfg /\ ops' = ops + 1 /\ file' = f
        /\ read' = IF read.at = "idle" THEN read ELSE [read EXCEPT !.quiet = FALSE]
    BY DEF Begin, Changes
  <1>2. ReadOK(cfg, st, op, file, read)
    BY DEF IInv
  <1>3. ReadOK(cfg, s, o, f, read')
    BY <1>1, <1>2, ReadDisturbed
  <1> QED
    BY <1>1, <1>3 DEF IInv

----------------------------------------------------------------------------
(* How operations go on *)

\* The operation is fit to go on (or has ended), and has no blocks to delete.
Ready(c, s, q, f) == OpOK(q) /\ PhaseOK(c, s, q, f) /\ q.at # "delete"

\* There are no chunks any more, or not yet.
Bare(c, s) == ~s.buf.on /\ DOMAIN s.chunks = {} /\ NoLeak(c, s, {})

\* The phases that follow one another without an await between them: writing out
\* the chunks of the content, if any,
LEMMA ChunkingOK ==
    ASSUME NEW c, NEW s, NEW o, NEW f, StoreOK(c, s), OpOK(o), Bare(c, s),
           LoadDue(c, s, o, f)
    PROVE  Ready(c, s, Chunking(o, Source(s, o)), f)
  <1> DEFINE a == IF Source(s, o) = <<>> THEN "chunked" ELSE "put"
             q == Chunking(o, Source(s, o))
  <1>1. q = AtIContent(o, a, 0, Source(s, o))
    BY DEF Chunking, AtIContent
  <1>2. Source(s, o) \in Seq(Nat)
    BY DEF Source, StoreOK, OpOK
  <1>3. (a = "put" => Len(Source(s, o)) > 0) /\ (a = "chunked" => Len(Source(s, o)) = 0)
    BY <1>2, EmptyFile, LenProperties
  <1>4. a \in {"put", "chunked"}
    OBVIOUS
  <1> HIDE DEF a, q
  <1>5. OpIs(q, o.do, a, o.data, o.off, o.n, 0, o.key, o.keys, o.left, Source(s, o))
    BY <1>1, <1>2, OpAtIContent
  <1>6. Source(s, q) = Source(s, o)
    BY <1>5 DEF Source, OpIs
  <1>7. LoadDue(c, s, q, f)
    BY <1>5 DEF LoadDue, Promoting, OpIs
  <1>8. q.i * ChunkSize = 0 /\ q.i = 0
    BY <1>5, Sizes DEF OpIs
  <1>9. DOMAIN s.chunks = {i \in Nat : i < q.i}
    BY <1>8 DEF Bare
  <1>10. InLoad(c, s, q, f)
    BY <1>3, <1>4, <1>5, <1>6, <1>7, <1>8, <1>9 DEF InLoad, Bare, OpIs
  <1> QED
    BY <1>4, <1>5, <1>10 DEF Ready, PhaseOK, OpIs, q

\* The new content, whole.
WriteDue(o, f) == o.do = "writeFile" /\ o.data = f /\ o.n = Len(f)

\* storing new content,
LEMMA RewritingOK ==
    ASSUME NEW c, NEW s, NEW o, NEW f, StoreOK(c, s), OpOK(o), Bare(c, s), WriteDue(o, f)
    PROVE  Ready(c, s, Rewriting(o), f)
  <1>1. CASE Len(o.data) <= InlineThreshold
    <2> DEFINE q == [o EXCEPT !.at = "inline"]
    <2>1. OpIs(q, o.do, "inline", o.data, o.off, o.n, o.i, o.key, o.keys, o.left, o.content)
      BY OpAt
    <2>2. Rewriting(o) = q
      BY <1>1 DEF Rewriting
    <2> HIDE DEF q
    <2>3. InInline(c, s, q, f)
      BY <2>1 DEF InInline, OpIs, Bare, WriteDue
    <2> QED
      BY <2>1, <2>2, <2>3 DEF Ready, PhaseOK, OpIs
  <1>2. CASE ~(Len(o.data) <= InlineThreshold)
    <2>1. Rewriting(o) = Chunking(o, Source(s, o))
      BY <1>2 DEF Rewriting, Source, WriteDue
    <2>2. LoadDue(c, s, o, f)
      BY DEF LoadDue, WriteDue
    <2> QED
      BY <2>1, <2>2, ChunkingOK
  <1> QED
    BY <1>1, <1>2

\* A write of a chunked file that holds g.
PatchDue(s, o, g, f) ==
    /\ s.mode = "chunked" /\ s.size = Len(g) /\ Within(s, Len(g)) /\ Holds(s, g)
    /\ o.do = "pwrite" /\ o.data # <<>> /\ f = Overwrite(g, o.off, o.data) /\ Len(f) = o.n

\* writing into a chunked file,
LEMMA PatchingOK ==
    ASSUME NEW s, NEW o, NEW g \in Seq(Nat), NEW f, StoreOK(cfg, s), CfgOK(cfg), OpOK(o),
           NoLeak(cfg, s, {}), PatchDue(s, o, g, f)
    PROVE  Ready(cfg, s, Patching(o), f)
  <1> DEFINE a == IF cfg.buffering THEN "buffer" ELSE "direct"
             d == o.off \div ChunkSize
             q == Patching(o)
             x == o.off
             D == o.data
             e == Len(D)
  <1>1. x \in Nat /\ D \in Seq(Nat) /\ e \in Nat /\ e > 0
        /\ o.n \in Nat /\ Len(g) \in Nat
    BY EmptyFile, LenProperties DEF OpOK, PatchDue
  <1>2. d \in Nat /\ d * ChunkSize \in Nat /\ d * ChunkSize <= x
        /\ x < (d + 1) * ChunkSize
    BY <1>1, DivFacts
  <1>3. q = AtI(o, a, d)
    BY DEF Patching, AtI
  <1>9. /\ a \in {"direct", "buffer"} /\ (a = "buffer" <=> cfg.buffering)
    BY DEF CfgOK
  <1> HIDE DEF d, q, a, e, x, D
  <1>4. OpIs(q, o.do, a, D, x, o.n, d, o.key, o.keys, o.left, o.content)
    BY <1>2, <1>3, OpAtI DEF x, D
  <1>5. /\ f \in Seq(Nat) /\ Len(f) >= Len(g) /\ Len(f) >= x + e
        /\ \A p \in Nat : p >= 1 =>
             At(f, p) = IF p > x /\ p <= x + e THEN D[p - x]
                        ELSE At(g, p)
    <2>1. f = Overwrite(g, x, D)
      BY DEF PatchDue, x, D
    <2>2. /\ Overwrite(g, x, D) \in Seq(Nat)
          /\ Len(Overwrite(g, x, D)) >= Len(g)
          /\ Len(Overwrite(g, x, D)) >= x + Len(D)
          /\ \A p \in Nat : p >= 1 =>
               At(Overwrite(g, x, D), p) =
                  IF p > x /\ p <= x + Len(D) THEN D[p - x] ELSE At(g, p)
      BY <1>1, OverwriteFacts
    <2> QED
      BY <2>1, <2>2 DEF e
  <1>10. Len(f) \in Nat
    BY <1>5, LenProperties
  <1>6. ASSUME NEW p \in 1 .. e PROVE f[x + p] = D[p]
    <2> DEFINE y == x + p
    <2>1. /\ y \in Nat /\ y >= 1 /\ y > x /\ y - x = p /\ y <= x + e /\ y <= Len(f)
      BY <1>1, <1>5, <1>10
    <2> HIDE DEF y
    <2>2. At(f, y) = D[y - x]
      BY <1>5, <2>1
    <2> QED
      BY <2>1, <2>2 DEF At, y
  <1>7. ASSUME NEW i \in Nat, NEW b \in 1 .. ChunkSize,
               i < d \/ Outside(q, i * ChunkSize + b)
        PROVE  Cell(s, i, b) = At(f, i * ChunkSize + b)
    <2> DEFINE m == i * ChunkSize
    <2>1. m \in Nat /\ m + b \in Nat /\ m + b >= 1 /\ b \in Nat
      BY Place
    <2>2. ChunkSize \in Nat /\ b <= ChunkSize
      BY Sizes
    <2>3. i < d => m + ChunkSize <= d * ChunkSize
      BY <1>2, ChunkOrder
    <2>6. Cell(s, i, b) = At(g, m + b)
      BY DEF PatchDue, Holds
    <2>7. i < d \/ Outside(q, m + b)
      BY <1>7
    <2> HIDE DEF m
    <2>8. q.off = x /\ q.data = D
      BY <1>4 DEF OpIs
    <2>9. Outside(q, m + b) => m + b <= x \/ m + b > x + e
      BY <2>8 DEF Outside, e
    <2>4. m + b <= x \/ m + b > x + e
      BY <1>1, <1>2, <2>1, <2>2, <2>3, <2>7, <2>9
    <2>5. At(f, m + b) = At(g, m + b)
      BY <1>1, <1>5, <2>1, <2>4
    <2> QED
      BY <2>5, <2>6 DEF m
  <1>8. Within(s, o.n)
    <2>1. ASSUME NEW i \in Nat, ChunkData(s, i) # <<>>
          PROVE  i * ChunkSize + Len(ChunkData(s, i)) <= o.n
      <3>1. Len(ChunkData(s, i)) \in Nat /\ i * ChunkSize \in Nat
        BY DataFacts, ChunkOrder
      <3>2. i * ChunkSize + Len(ChunkData(s, i)) <= Len(g)
        BY <2>1 DEF PatchDue, Within
      <3>3. Len(g) <= o.n
        BY <1>1, <1>5 DEF PatchDue
      <3>4. i * ChunkSize + Len(ChunkData(s, i)) \in Nat
        BY <3>1
      <3> QED
        BY <1>1, <3>2, <3>3, <3>4
    <2> QED
      BY <2>1 DEF Within
  <1>11. InPatch(cfg, s, q, f)
    <2>1. d * ChunkSize < x + e /\ x < (d + 1) * ChunkSize
      BY <1>1, <1>2
    <2>2. s.size <= o.n /\ x + e <= o.n /\ Len(f) = o.n
      BY <1>1, <1>5 DEF PatchDue
    <2>3. \A i \in Nat, b \in 1 .. ChunkSize :
            i < d \/ Outside(q, i * ChunkSize + b) =>
               Cell(s, i, b) = At(f, i * ChunkSize + b)
      BY <1>7
    <2>4. /\ q.at \in {"direct", "buffer"} /\ (q.at = "buffer" <=> cfg.buffering)
          /\ q.do = "pwrite" /\ q.data = D /\ q.data # <<>> /\ q.off = x /\ q.n = o.n
          /\ q.i = d /\ s.mode = "chunked"
      BY <1>4, <1>9 DEF OpIs, PatchDue, D
    <2>5. \A p \in 1 .. Len(q.data) : f[q.off + p] = q.data[p]
      <3>1. q.data = D /\ q.off = x /\ Len(q.data) = e
        BY <2>4 DEF e
      <3> QED
        BY <1>6, <3>1
    <2>6. Within(s, s.size)
      BY DEF PatchDue
    <2> QED
      BY <1>8, <2>1, <2>2, <2>3, <2>4, <2>5, <2>6 DEF InPatch, e
  <1> QED
    BY <1>4, <1>9, <1>11 DEF Ready, PhaseOK, OpIs, q

Demoting(o, d) == [o EXCEPT !.do = "demote", !.at = "drop", !.i = 0, !.data = d]

LEMMA OpDemote ==
    ASSUME NEW o, OpOK(o), NEW d \in Seq(Nat)
    PROVE  OpIs(Demoting(o, d),
                "demote", "drop", d, o.off, o.n, 0, o.key, o.keys, o.left, o.content)
  <1> DEFINE w == [o EXCEPT !.do = "demote"]
             p == AtI(w, "drop", 0)
             q == [p EXCEPT !.data = d]
  <1>1. Demoting(o, d) = q
    BY DEF Demoting, AtI
  <1>2. OpIs(w, "demote", o.at, o.data, o.off, o.n, o.i, o.key, o.keys, o.left, o.content)
    BY OpDo
  <1> HIDE DEF w
  <1>3. OpIs(p, w.do, "drop", w.data, w.off, w.n, 0, w.key, w.keys, w.left, w.content)
    <2>1. OpOK(w)
      BY <1>2 DEF OpIs
    <2> QED
      BY <2>1, OpAtI
  <1> HIDE DEF p
  <1>4. OpIs(q, p.do, p.at, d, p.off, p.n, p.i, p.key, p.keys, p.left, p.content)
    <2>1. OpOK(p)
      BY <1>3 DEF OpIs
    <2> QED
      BY <2>1, OpData
  <1> HIDE DEF q
  <1>5. OpIs(q, "demote", "drop", d, o.off, o.n, 0, o.key, o.keys, o.left, o.content)
    BY <1>2, <1>3, <1>4 DEF OpIs
  <1> QED
    BY <1>1, <1>5

\* Where the last byte is.
LEMMA LastByte ==
    ASSUME NEW n \in Nat, n > 0
    PROVE  LET l == (n - 1) \div ChunkSize
               r == n % ChunkSize
           IN /\ l \in Nat /\ r \in Nat /\ r < ChunkSize /\ l * ChunkSize \in Nat
              /\ l * ChunkSize < n /\ n <= l * ChunkSize + ChunkSize
              /\ r > 0 => n = l * ChunkSize + r
              /\ r = 0 => n = l * ChunkSize + ChunkSize
  <1> DEFINE x == n - 1
             l == x \div ChunkSize
             r == n % ChunkSize
             k == n \div ChunkSize
  <1>1. x \in Nat /\ n = x + 1 /\ ChunkSize \in Nat /\ ChunkSize >= 1
    BY Sizes
  <1> HIDE DEF x
  <1>2. l \in Nat /\ l * ChunkSize \in Nat /\ l * ChunkSize <= x /\ x < (l + 1) * ChunkSize
    BY <1>1, DivFacts
  <1>3. k \in Nat /\ k * ChunkSize \in Nat /\ r \in Nat /\ r < ChunkSize /\ n = k * ChunkSize + r
    BY <1>1
  <1> HIDE DEF l, r, k
  <1>4. (l + 1) * ChunkSize = l * ChunkSize + ChunkSize
    BY <1>2, ChunkOrder
  <1>5. /\ k < l => k * ChunkSize + ChunkSize <= l * ChunkSize
        /\ l < k => l * ChunkSize + ChunkSize <= k * ChunkSize
        /\ l + 1 < k => (l + 1) * ChunkSize + ChunkSize <= k * ChunkSize
    <2>1. l + 1 \in Nat
      BY <1>2
    <2> QED
      BY <1>2, <1>3, <2>1, ChunkOrder
  <1>6. k = l => k * ChunkSize = l * ChunkSize
    OBVIOUS
  <1>7. r > 0 => n = l * ChunkSize + r
    BY <1>1, <1>2, <1>3, <1>4, <1>5, <1>6
  <1>8. r = 0 => n = l * ChunkSize + ChunkSize
    BY <1>1, <1>2, <1>3, <1>4, <1>5, <1>6
  <1> QED
    BY <1>1, <1>2, <1>3, <1>4, <1>7, <1>8 DEF x, l, r

\* With the chunks beyond the new end gone, and the last one short enough, none
\* reaches beyond it.
LEMMA ShrunkWithin ==
    ASSUME NEW c, NEW s, NEW o, NEW f, StoreOK(c, s), OpOK(o), ~s.buf.on,
           Shrunk(s, o, f), o.n > 0, ~NeedsCut(s, o.n)
    PROVE  Within(s, o.n)
  <1> DEFINE n == o.n
             l == (n - 1) \div ChunkSize
             r == n % ChunkSize
  <1>1. n \in Nat /\ n > 0 /\ ChunkSize \in Nat
    BY Sizes DEF OpOK
  <1>7. n % ChunkSize > 0 /\ l \in DOMAIN s.chunks => ~(Len(s.blocks[s.chunks[l]]) > r)
    BY DEF NeedsCut
  <1> HIDE DEF n
  <1>2. /\ l \in Nat /\ r \in Nat /\ r < ChunkSize /\ l * ChunkSize \in Nat
        /\ l * ChunkSize < n /\ n <= l * ChunkSize + ChunkSize
        /\ r > 0 => n = l * ChunkSize + r
        /\ r = 0 => n = l * ChunkSize + ChunkSize
    BY <1>1, LastByte
  <1>8. r > 0 /\ l \in DOMAIN s.chunks => ~(Len(s.blocks[s.chunks[l]]) > r)
    BY <1>7
  <1> HIDE DEF l, r
  <1>3. ASSUME NEW i \in Nat, ChunkData(s, i) # <<>>
        PROVE  i * ChunkSize + Len(ChunkData(s, i)) <= n
    <2> DEFINE e == Len(ChunkData(s, i))
               m == i * ChunkSize
    <2>1. /\ e \in Nat /\ e <= ChunkSize
          /\ i \in DOMAIN s.chunks /\ e = Len(s.blocks[s.chunks[i]])
      <3>1. DOMAIN s.buf.dirty = {}
        BY DEF StoreOK
      <3> QED
        BY <1>3, <3>1, DataFacts
    <2>2. m \in Nat /\ (i < l => m + ChunkSize <= l * ChunkSize)
          /\ (l < i => l * ChunkSize + ChunkSize <= m)
      BY <1>2, ChunkOrder
    <2>3. m < n
      BY <2>1 DEF Shrunk, n
    <2> HIDE DEF e, m
    <2>4. i = l /\ r > 0 => e <= r
      BY <1>2, <1>8, <2>1
    <2>5. i = l => m = l * ChunkSize
      BY DEF m
    <2>6. i <= l
      BY <1>1, <1>2, <2>2, <2>3
    <2>7. m + e <= n
      BY <1>1, <1>2, <2>1, <2>2, <2>4, <2>5, <2>6
    <2> QED
      BY <2>7 DEF e, m
  <1> QED
    BY <1>3 DEF Within, n

\* a file cut to its new size,
LEMMA TrimmedOK ==
    ASSUME NEW c, NEW s, NEW o, NEW f \in Seq(Nat), StoreOK(c, s), OpOK(o), ~s.buf.on,
           Shrunk(s, o, f), Len(f) = o.n, o.n > 0, ~NeedsCut(s, o.n), NoLeak(c, s, {})
    PROVE  Ready(c, s, Trimmed(s, o), f)
  <1>1. Within(s, o.n) /\ Upto(s, f, o.n) /\ o.n \in Nat /\ s.mode = "chunked"
    BY ShrunkWithin DEF Shrunk, OpOK
  <1>2. CASE o.n <= InlineThreshold
    <2> DEFINE q == Trimmed(s, o)
    <2>1. Assembled(s, o.n) = f
      BY <1>1, AssembledFacts
    <2>2. q = Demoting(o, f)
      BY <1>2, <2>1 DEF Trimmed, Demoting
    <2> HIDE DEF q
    <2>3. OpIs(q, "demote", "drop", f, o.off, o.n, 0, o.key, o.keys, o.left, o.content)
      BY <2>2, OpDemote
    <2>4. InDrop(c, s, q, f)
      BY <1>1, <2>3 DEF InDrop, OpIs
    <2> QED
      BY <2>3, <2>4 DEF Ready, PhaseOK, OpIs, q
  <1>3. CASE ~(o.n <= InlineThreshold)
    <2> DEFINE q == Trimmed(s, o)
    <2>1. q = [o EXCEPT !.at = "size"]
      BY <1>3 DEF Trimmed
    <2> HIDE DEF q
    <2>2. OpIs(q, o.do, "size", o.data, o.off, o.n, o.i, o.key, o.keys, o.left, o.content)
      BY <2>1, OpAt
    <2>3. Holds(s, f)
      BY <1>1, UptoHolds
    <2>4. Exact(SetSize(s, o.n), f)
      <3> DEFINE t == SetSize(s, o.n)
      <3>1. t.mode = s.mode /\ t.size = o.n /\ \A i : ChunkData(t, i) = ChunkData(s, i)
        BY SetSizeFields DEF StoreOK
      <3> HIDE DEF t
      <3>2. Holds(t, f) /\ Within(t, o.n)
        BY <1>1, <2>3, <3>1, SameData
      <3>3. Exact(t, f)
        BY <1>1, <3>1, <3>2 DEF Exact, AtRest
      <3> QED
        BY <3>3 DEF t
    <2>5. InSize(c, s, q, f)
      BY <2>2, <2>4 DEF InSize, OpIs
    <2> QED
      BY <2>2, <2>5 DEF Ready, PhaseOK, OpIs, q
  <1> QED
    BY <1>2, <1>3

\* The chunks that had to go are gone.
DropDue(s, o, f) ==
    /\ ~s.buf.on /\ Len(f) = o.n
    /\ \/ o.do \in {"writeFile", "demote"} /\ DOMAIN s.chunks = {} /\ o.data = f
       \/ Shrunk(s, o, f)

\* the chunks gone,
LEMMA DroppedOK ==
    ASSUME NEW c, NEW s, NEW o, NEW f \in Seq(Nat), StoreOK(c, s), OpOK(o),
           NoLeak(c, s, {}), DropDue(s, o, f)
    PROVE  Ready(c, s, Dropped(s, o), f)
  <1>1. CASE o.do = "writeFile"
    <2>1. Bare(c, s) /\ WriteDue(o, f)
      BY <1>1 DEF Bare, WriteDue, DropDue, Shrunk
    <2>2. Dropped(s, o) = Rewriting(o)
      BY <1>1 DEF Dropped
    <2> QED
      BY <2>1, <2>2, RewritingOK
  <1>2. CASE o.do = "demote"
    <2> DEFINE q == [o EXCEPT !.at = "demoted"]
    <2>1. Dropped(s, o) = q
      BY <1>2 DEF Dropped
    <2>2. OpIs(q, o.do, "demoted", o.data, o.off, o.n, o.i, o.key, o.keys, o.left, o.content)
      BY OpAt
    <2> HIDE DEF q
    <2>3. InInline(c, s, q, f)
      BY <1>2, <2>2 DEF InInline, OpIs, DropDue, Shrunk
    <2> QED
      BY <2>1, <2>2, <2>3 DEF Ready, PhaseOK, OpIs
  <1>3. CASE o.do = "shrink" /\ o.n = 0
    <2> DEFINE q == AtData(o, "inline", <<>>)
    <2>1. Dropped(s, o) = q
      BY <1>3 DEF Dropped, AtData
    <2>2. OpIs(q, o.do, "inline", <<>>, o.off, o.n, o.i, o.key, o.keys, o.left, o.content)
      <3>1. <<>> \in Seq(Nat)
        OBVIOUS
      <3> QED
        BY <3>1, OpAtData
    <2> HIDE DEF q
    <2>3. f = <<>> /\ Len(f) = 0 /\ ~s.buf.on /\ Shrunk(s, o, f)
      BY <1>3, EmptyFile DEF DropDue
    <2>4. DOMAIN s.chunks = {}
      <3>1. \A i \in DOMAIN s.chunks : i \in Nat /\ i * ChunkSize < 0
        BY <1>3, <2>3 DEF Shrunk, StoreOK
      <3>2. \A i \in Nat : i * ChunkSize \in Nat
        BY ChunkOrder
      <3> QED
        BY <3>1, <3>2
    <2>5. InInline(c, s, q, f)
      BY <1>3, <2>2, <2>3, <2>4 DEF InInline, OpIs
    <2> QED
      BY <2>1, <2>2, <2>5 DEF Ready, PhaseOK, OpIs
  <1>4. CASE o.do = "shrink" /\ o.n # 0 /\ NeedsCut(s, o.n)
    <2> DEFINE l == (o.n - 1) \div ChunkSize
               d == SubSeq(s.blocks[s.chunks[l]], 1, o.n % ChunkSize)
               q == AtIData(o, "cut", l, d)
    <2>1. Dropped(s, o) = q
      BY <1>4 DEF Dropped, AtIData
    <2>2. o.n \in Nat /\ o.n > 0
      BY <1>4 DEF OpOK
    <2>3. l \in Nat
      BY <2>2, LastByte
    <2>4. OpIs(q, o.do, "cut", d, o.off, o.n, l, o.key, o.keys, o.left, o.content)
      <3>1. d \in Seq(Nat)
        <4>1. s.blocks[s.chunks[l]] \in Seq(Nat) /\ o.n % ChunkSize \in Nat
              /\ o.n % ChunkSize <= Len(s.blocks[s.chunks[l]])
          BY <1>4, <2>2, Sizes DEF NeedsCut, StoreOK, IsBlock
        <4> QED
          BY <4>1, SubSeqProperties
      <3> QED
        BY <2>3, <3>1, OpAtIData
    <2> HIDE DEF q
    <2>5. Shrunk(s, o, f) /\ Len(f) = o.n /\ ~s.buf.on
      BY <1>4 DEF DropDue
    <2>6. Shrunk(s, q, f)
      BY <2>4, <2>5 DEF Shrunk, OpIs
    <2>7. o.n % ChunkSize > 0 /\ l \in DOMAIN s.chunks
          /\ Len(s.blocks[s.chunks[l]]) > o.n % ChunkSize
      BY <1>4 DEF NeedsCut
    <2>8. InCut(c, s, q, f)
      BY <2>2, <2>4, <2>5, <2>6, <2>7 DEF InCut, OpIs
    <2> QED
      BY <2>1, <2>4, <2>8 DEF Ready, PhaseOK, OpIs
  <1>5. CASE o.do = "shrink" /\ o.n # 0 /\ ~NeedsCut(s, o.n)
    <2>1. Dropped(s, o) = Trimmed(s, o)
      BY <1>5 DEF Dropped
    <2>2. o.n > 0
      BY <1>5 DEF OpOK
    <2>3. Shrunk(s, o, f) /\ Len(f) = o.n /\ ~s.buf.on
      BY <1>5 DEF DropDue
    <2> QED
      BY <1>5, <2>1, <2>2, <2>3, TrimmedOK
  <1>6. o.do \in {"writeFile", "demote", "shrink"}
    BY DEF DropDue, Shrunk
  <1> QED
    BY <1>1, <1>2, <1>3, <1>4, <1>5, <1>6

\* A file at rest, without a buffer, is to be made shorter or longer.
ResizeDue(s, o, f) ==
    /\ Len(f) = o.n /\ AtRest(s)
    /\ \/ o.do = "shrink" /\ o.n < s.size
       \/ o.do = "grow" /\ o.n > s.size
    /\ IF s.mode = "inline" THEN f = Sized(s.inline, o.n)
       ELSE IF o.do = "shrink" THEN Upto(s, f, o.n) ELSE Holds(s, f)

\* the buffer given up by truncate.
LEMMA ResizingOK ==
    ASSUME NEW c, NEW s, NEW o, NEW f \in Seq(Nat), StoreOK(c, s), OpOK(o), ~s.buf.on,
           NoLeak(c, s, {}), ResizeDue(s, o, f)
    PROVE  Ready(c, s, Resizing(s, o), f)
  <1>1. s.mode \in {"inline", "chunked"} /\ o.do \in {"shrink", "grow"} /\ o.n \in Nat
        /\ s.size \in Nat
    BY DEF StoreOK, ResizeDue, OpOK
  <1>2. CASE s.mode = "inline" /\ (o.do = "shrink" \/ o.n <= InlineThreshold)
    <2> DEFINE q == AtData(o, "update", f)
    <2>1. Resizing(s, o) = q
      BY <1>2 DEF Resizing, ResizeDue, AtData
    <2>2. OpIs(q, o.do, "update", f, o.off, o.n, o.i, o.key, o.keys, o.left, o.content)
      BY OpAtData
    <2> HIDE DEF q
    <2>3. InInline(c, s, q, f)
      BY <1>2, <2>2 DEF InInline, OpIs, ResizeDue, AtRest
    <2> QED
      BY <2>1, <2>2, <2>3 DEF Ready, PhaseOK, OpIs
  <1>3. CASE s.mode = "inline" /\ ~(o.do = "shrink" \/ o.n <= InlineThreshold)
    <2>1. Resizing(s, o) = Chunking(o, Source(s, o))
      BY <1>1, <1>3 DEF Resizing, Source
    <2>2. Bare(c, s)
      BY <1>3 DEF Bare, ResizeDue, AtRest
    <2>3. LoadDue(c, s, o, f)
      BY <1>1, <1>3 DEF LoadDue, Promoting, ResizeDue, AtRest
    <2> QED
      BY <2>1, <2>2, <2>3, ChunkingOK
  <1>4. CASE s.mode = "chunked" /\ o.do = "grow"
    <2> DEFINE q == [o EXCEPT !.at = "size"]
               t == SetSize(s, o.n)
    <2>1. Resizing(s, o) = q
      BY <1>4 DEF Resizing
    <2>2. OpIs(q, o.do, "size", o.data, o.off, o.n, o.i, o.key, o.keys, o.left, o.content)
      BY OpAt
    <2>3. t.mode = s.mode /\ t.size = o.n /\ \A i : ChunkData(t, i) = ChunkData(s, i)
      BY SetSizeFields DEF StoreOK
    <2> HIDE DEF q, t
    <2>4. Holds(s, f) /\ Within(s, s.size) /\ s.size < o.n /\ Len(f) = o.n
      BY <1>1, <1>4 DEF ResizeDue, AtRest
    <2>5. Within(s, o.n)
      <3>1. ASSUME NEW i \in Nat, ChunkData(s, i) # <<>>
            PROVE  i * ChunkSize + Len(ChunkData(s, i)) <= o.n
        <4>1. Len(ChunkData(s, i)) \in Nat /\ i * ChunkSize \in Nat
          BY DataFacts, ChunkOrder
        <4>2. i * ChunkSize + Len(ChunkData(s, i)) <= s.size
          BY <2>4, <3>1 DEF Within
        <4>3. i * ChunkSize + Len(ChunkData(s, i)) \in Nat
          BY <4>1
        <4> QED
          BY <1>1, <2>4, <4>2, <4>3
      <3> QED
        BY <3>1 DEF Within
    <2>6. Holds(t, f) /\ Within(t, o.n)
      BY <2>3, <2>4, <2>5, SameData
    <2>7. Exact(t, f)
      BY <1>4, <2>3, <2>4, <2>6 DEF Exact, AtRest
    <2>8. InSize(c, s, q, f)
      BY <2>2, <2>7 DEF InSize, OpIs, t
    <2> QED
      BY <2>1, <2>2, <2>8 DEF Ready, PhaseOK, OpIs
  <1>5. CASE s.mode = "chunked" /\ o.do = "shrink"
    <2> DEFINE l == IF o.n = 0 THEN 0 ELSE 1 + ((o.n - 1) \div ChunkSize)
               q == AtI(o, "drop", l)
    <2>1. Resizing(s, o) = q
      BY <1>5 DEF Resizing, AtI
    <2>2. l \in Nat
      <3>1. o.n > 0 => (o.n - 1) \div ChunkSize \in Nat
        BY <1>1, LastByte
      <3> QED
        BY <1>1, <3>1
    <2>3. OpIs(q, o.do, "drop", o.data, o.off, o.n, l, o.key, o.keys, o.left, o.content)
      BY <2>2, OpAtI
    <2> HIDE DEF q
    <2>4. InDrop(c, s, q, f)
      BY <1>5, <2>3 DEF InDrop, OpIs, ResizeDue
    <2> QED
      BY <2>1, <2>3, <2>4 DEF Ready, PhaseOK, OpIs
  <1> QED
    BY <1>1, <1>2, <1>3, <1>4, <1>5

----------------------------------------------------------------------------
(* Operations begin *)

LEMMA IdleFacts ==
    ASSUME IInv, op.at = "idle"
    PROVE  Exact(st, file) /\ NoLeak(cfg, st, {})
  BY PhaseAt DEF IInv, InIdle

\* Where no block changes, none of a version does.
LEMMA KeptSame ==
    ASSUME NEW c, NEW s, NEW t, t.blocks = s.blocks
    PROVE  Kept(c, s, t)
  BY DEF Kept, SameBlocks

\* The write buffer is given up.
LEMMA UnbufferedOK ==
    ASSUME NEW c, NEW s, StoreOK(c, s), NEW t, t = Unbuffered(s)
    PROVE  /\ StoreOK(c, t) /\ BufferOK(t) /\ ~t.buf.on
           /\ t.mode = s.mode /\ t.inline = s.inline /\ t.size = s.size
           /\ t.chunks = s.chunks /\ t.blocks = s.blocks
           /\ DOMAIN s.buf.dirty = {} => \A i \in Nat : ChunkData(t, i) = ChunkData(s, i)
           /\ \A more : NoLeak(c, s, more) => NoLeak(c, t, more)
  <1>1. /\ Shape(t) /\ t.mode = s.mode /\ t.inline = s.inline /\ t.size = s.size
        /\ t.chunks = s.chunks /\ t.blocks = s.blocks /\ t.fresh = s.fresh
        /\ t.buf.on = FALSE /\ DOMAIN t.buf.dirty = {} /\ t.buf.size = 0
        /\ t.buf.shared = {}
    BY UnbufferedFields DEF StoreOK
  <1>2. StoreOK(c, t)
    BY <1>1 DEF StoreOK
  <1>3. BufferOK(t)
    BY <1>1 DEF BufferOK, SharedOK, UnderOK
  <1>4. DOMAIN s.buf.dirty = {} => \A i \in Nat : ChunkData(t, i) = ChunkData(s, i)
    BY <1>1 DEF ChunkData
  <1>5. \A more : NoLeak(c, s, more) => NoLeak(c, t, more)
    BY <1>1 DEF NoLeak
  <1> QED
    BY <1>1, <1>2, <1>3, <1>4, <1>5

\* No buffer, no shared chunk.
LEMMA NoShare ==
    ASSUME NEW c, NEW s, StoreOK(c, s), ~s.buf.on
    PROVE  BufferOK(s)
  BY DEF StoreOK, BufferOK, SharedOK, UnderOK

\* What a caller may write.
LEMMA PayloadFacts ==
    ASSUME IInv, NEW data \in Payloads
    PROVE  data \in Seq(Nat) /\ Len(data) \in Nat
  <1>1. PICK n \in 0 .. MaxSize : data = Bytes(ops + 1, n)
    BY DEF Payloads
  <1>2. ops + 1 \in Nat /\ n \in Nat
    BY Sizes DEF IInv
  <1> QED
    BY <1>1, <1>2, BytesFacts

\* An operation that leaves the versions' blocks where they are begins.
LEMMA BeginsOK ==
    ASSUME IInv, NEW s, NEW o, NEW f \in Seq(Nat), Begin(s, o, f), StoreOK(cfg, s),
           BufferOK(s), Ready(cfg, s, o, f), s.blocks = st.blocks, versions' = versions
    PROVE  IInv'
  <1>1. Kept(cfg, st, s)
    BY KeptSame
  <1>2. VersionsOK(cfg, s, o, versions)
    <2>1. StoreOK(cfg, st) /\ VersionsOK(cfg, st, op, versions) /\ o.at # "delete"
      BY DEF IInv, Ready
    <2> QED
      BY <1>1, <2>1, VersionsStay
  <1>3. OpOK(o) /\ PhaseOK(cfg, s, o, f)
    BY DEF Ready
  <1> QED
    BY <1>2, <1>3, BeginOK

\* Each operation establishes the phase it begins in.
LEMMA WriteFileOK ==
    ASSUME IInv, op.at = "idle", NEW data \in Payloads, WriteFile(data)
    PROVE  IInv'
  <1> DEFINE o == Operation("writeFile", 0, data, Len(data))
             u == Unbuffered(st)
             q == IF st.mode = "chunked" THEN [o EXCEPT !.at = "drop"] ELSE Rewriting(o)
  <1>1. Begin(u, q, data) /\ versions' = versions
    BY DEF WriteFile
  <1>2. data \in Seq(Nat) /\ Len(data) \in Nat
    BY PayloadFacts
  <1>3. op.at = "idle"
    OBVIOUS
  <1>4. Exact(st, file) /\ NoLeak(cfg, st, {}) /\ StoreOK(cfg, st)
    BY <1>3, IdleFacts DEF IInv
  <1>5. OpIs(o, "writeFile", "idle", data, 0, Len(data), 0, <<0, 0>>, {}, {}, <<>>)
    BY <1>2, OperationFacts
  <1>6. /\ StoreOK(cfg, u) /\ BufferOK(u) /\ ~u.buf.on /\ u.mode = st.mode
        /\ u.chunks = st.chunks /\ u.blocks = st.blocks /\ NoLeak(cfg, u, {})
    BY <1>4, UnbufferedOK
  <1> HIDE DEF o, u
  <1>7. Ready(cfg, u, q, data)
    <2>1. CASE st.mode = "chunked"
      <3> DEFINE w == [o EXCEPT !.at = "drop"]
      <3>1. OpIs(w, o.do, "drop", o.data, o.off, o.n, o.i, o.key, o.keys, o.left, o.content)
        BY <1>5, OpAt DEF OpIs
      <3> HIDE DEF w
      <3>2. InDrop(cfg, u, w, data)
        BY <1>5, <1>6, <2>1, <3>1 DEF InDrop, OpIs
      <3>3. Ready(cfg, u, w, data)
        BY <3>1, <3>2 DEF Ready, PhaseOK, OpIs
      <3> QED
        BY <2>1, <3>3 DEF w
    <2>2. CASE st.mode # "chunked"
      <3>1. Bare(cfg, u)
        <4>1. st.mode = "inline"
          BY <1>4, <2>2 DEF StoreOK
        <4> QED
          BY <1>4, <1>6, <4>1 DEF Bare, Exact, AtRest
      <3>2. OpOK(o) /\ WriteDue(o, data)
        BY <1>5 DEF OpIs, WriteDue
      <3> QED
        BY <1>6, <2>2, <3>1, <3>2, RewritingOK
    <2> QED
      BY <2>1, <2>2
  <1> HIDE DEF q
  <1> QED
    BY <1>1, <1>2, <1>6, <1>7, BeginsOK

LEMMA PwriteOK ==
    ASSUME IInv, op.at = "idle", NEW data \in Payloads, NEW off \in 0 .. MaxSize,
           Pwrite(off, data)
    PROVE  IInv'
  <1> DEFINE n == Maximum(effectiveSize(st), off + Len(data))
             o == Operation("pwrite", off, data, n)
             f == Overwrite(file, off, data)
             q == IF st.mode = "chunked" THEN Patching(o)
                  ELSE IF n <= InlineThreshold
                  THEN [o EXCEPT !.at = "update", !.data = Overwrite(st.inline, off, data)]
                  ELSE IF cfg.buffering
                  THEN [o EXCEPT !.at = "promote", !.content = st.inline]
                  ELSE Chunking(o, st.inline)
  <1>1. Begin(st, q, f) /\ versions' = versions /\ data # <<>>
    BY DEF Pwrite
  <1>2. data \in Seq(Nat) /\ Len(data) \in Nat /\ off \in Nat
    BY PayloadFacts, Sizes
  <1>3. op.at = "idle"
    OBVIOUS
  <1>4. /\ Exact(st, file) /\ NoLeak(cfg, st, {}) /\ StoreOK(cfg, st) /\ BufferOK(st)
        /\ CfgOK(cfg) /\ file \in Seq(Nat)
    BY <1>3, IdleFacts DEF IInv, CfgOK
  <1>5. Len(file) = st.size /\ effectiveSize(st) = st.size /\ st.size \in Nat
        /\ (st.mode = "inline" => ~st.buf.on) /\ st.mode \in {"inline", "chunked"}
    BY <1>4, SizeFacts DEF Exact, StoreOK
  <1>6. f \in Seq(Nat) /\ Len(f) = n /\ n \in Nat
    <2>1. f \in Seq(Nat) /\ Len(f) = Maximum(Len(file), off + Len(data))
      BY <1>2, <1>4, OverwriteFacts
    <2> QED
      BY <1>2, <1>5, <2>1 DEF Maximum
  <1> HIDE DEF n
  <1>7. OpIs(o, "pwrite", "idle", data, off, n, 0, <<0, 0>>, {}, {}, <<>>)
    BY <1>2, <1>6, OperationFacts
  <1> HIDE DEF o
  <1>8. OpOK(o)
    BY <1>7 DEF OpIs
  <1>9. CASE st.mode = "chunked"
    <2>1. PatchDue(st, o, file, f)
      BY <1>1, <1>4, <1>5, <1>6, <1>7, <1>9 DEF PatchDue, OpIs, Exact, AtRest
    <2> HIDE DEF f
    <2>2. Ready(cfg, st, q, f)
      BY <1>4, <1>8, <1>9, <2>1, PatchingOK
    <2> HIDE DEF q
    <2> QED
      BY <1>1, <1>4, <1>6, <2>2, BeginsOK
  <1>10. CASE st.mode # "chunked"
    <2>1. /\ st.mode = "inline" /\ st.inline = file /\ ~st.buf.on /\ DOMAIN st.chunks = {}
          /\ Len(st.inline) = st.size
      BY <1>4, <1>5, <1>10 DEF Exact, AtRest
    <2>2. f = Overwrite(st.inline, off, data)
      BY <2>1
    <2>3. Bare(cfg, st)
      BY <1>4, <2>1 DEF Bare
    <2>4. Promoting(cfg, st, o, f)
      BY <1>1, <1>6, <1>7, <2>1, <2>2 DEF Promoting, OpIs
    <2> HIDE DEF f
    <2>5. Ready(cfg, st, q, f)
      <3>1. CASE n <= InlineThreshold
        <4> DEFINE w == AtData(o, "update", f)
        <4>1. q = w
          BY <2>1, <2>2, <3>1 DEF AtData
        <4>2. OpIs(w, o.do, "update", f, o.off, o.n, o.i, o.key, o.keys, o.left, o.content)
          BY <1>6, <1>8, OpAtData
        <4> HIDE DEF w, q
        <4>3. InInline(cfg, st, w, f)
          BY <1>6, <1>7, <2>1, <2>3, <4>2 DEF InInline, OpIs, Bare
        <4> QED
          BY <4>1, <4>2, <4>3 DEF Ready, PhaseOK, OpIs
      <3>2. CASE ~(n <= InlineThreshold) /\ cfg.buffering
        <4> DEFINE w == AtContent(o, "promote", st.inline)
        <4>1. q = w
          BY <2>1, <3>2 DEF AtContent
        <4>2. OpIs(w, o.do, "promote", o.data, o.off, o.n, o.i, o.key, o.keys, o.left, st.inline)
          BY <1>4, <1>8, <2>1, OpAtContent
        <4> HIDE DEF w, q
        <4>3. Promoting(cfg, st, w, f)
          BY <2>4, <4>2 DEF Promoting, OpIs
        <4>4. InPromote(cfg, st, w, f)
          BY <1>7, <2>3, <3>2, <4>2, <4>3 DEF InPromote, OpIs, Bare
        <4> QED
          BY <4>1, <4>2, <4>4 DEF Ready, PhaseOK, OpIs
      <3>3. CASE ~(n <= InlineThreshold) /\ ~cfg.buffering
        <4>1. q = Chunking(o, Source(st, o))
          BY <1>7, <2>1, <3>3 DEF Source, OpIs
        <4>2. LoadDue(cfg, st, o, f)
          BY <2>4, <3>3 DEF LoadDue
        <4> HIDE DEF q
        <4> QED
          BY <1>4, <1>8, <2>3, <4>1, <4>2, ChunkingOK
      <3> QED
        BY <3>1, <3>2, <3>3
    <2> HIDE DEF q
    <2> QED
      BY <1>1, <1>4, <1>6, <2>5, BeginsOK
  <1> QED
    BY <1>9, <1>10

\* What a file that holds g is due to hold when it gets another size.
LEMMA SizedDue ==
    ASSUME NEW c, NEW s, StoreOK(c, s), NEW g \in Seq(Nat), Exact(s, g), NEW n \in Nat,
           NEW f, f = Sized(g, n)
    PROVE  /\ f \in Seq(Nat) /\ Len(f) = n
           /\ s.mode = "inline" => f = Sized(s.inline, n)
           /\ s.mode = "chunked" => Upto(s, f, n)
           /\ s.mode = "chunked" /\ n > s.size => Holds(s, f)
  <1>1. /\ f \in Seq(Nat) /\ Len(f) = n
        /\ \A p \in Nat : p >= 1 => At(f, p) = IF p <= n THEN At(g, p) ELSE 0
    BY SizedFacts
  <1>2. s.mode = "inline" => f = Sized(s.inline, n)
    BY DEF Exact
  <1>3. s.mode = "chunked" => Holds(s, g)
    BY DEF Exact
  <1>4. s.mode = "chunked" => Upto(s, f, n)
    <2> SUFFICES ASSUME s.mode = "chunked", NEW i \in Nat, NEW o \in 1 .. ChunkSize,
                        i * ChunkSize + o <= n
                 PROVE  Cell(s, i, o) = At(f, i * ChunkSize + o)
      BY DEF Upto
    <2>1. i * ChunkSize + o \in Nat /\ i * ChunkSize + o >= 1
      BY Place
    <2>2. Cell(s, i, o) = At(g, i * ChunkSize + o)
      BY <1>3 DEF Holds
    <2> QED
      BY <1>1, <2>1, <2>2
  <1>5. s.mode = "chunked" /\ n > s.size => Holds(s, f)
    <2> SUFFICES ASSUME s.mode = "chunked", n > s.size, NEW i \in Nat, NEW o \in 1 .. ChunkSize
                 PROVE  Cell(s, i, o) = At(f, i * ChunkSize + o)
      BY DEF Holds
    <2> DEFINE p == i * ChunkSize + o
    <2>1. p \in Nat /\ p >= 1
      BY Place
    <2>2. Cell(s, i, o) = At(g, p)
      BY <1>3 DEF Holds
    <2> HIDE DEF p
    <2>3. Len(g) = s.size /\ Len(g) \in Nat
      BY LenProperties DEF Exact
    <2>4. p > n => At(g, p) = 0
      BY <2>1, <2>3, AtFacts
    <2>5. At(f, p) = At(g, p)
      BY <1>1, <2>1, <2>4
    <2> QED
      BY <2>2, <2>5 DEF p
  <1> QED
    BY <1>1, <1>2, <1>4, <1>5

\* A buffer with dirty chunks is about to be flushed.
FlushDue(c, s, o, f) ==
    /\ DOMAIN s.buf.dirty # {} /\ AtRest(s) /\ Len(f) = o.n
    /\ \/ o.do \in {"fsync", "version"} /\ o.n = s.size /\ Holds(s, f)
       \/ o.do = "shrink" /\ o.n < s.size /\ Upto(s, f, o.n)
       \/ o.do = "grow" /\ o.n > s.size /\ Holds(s, f)
    /\ o.do = "version" => c.versioning

\* A flush begins with all dirty chunks left to write.
LEMMA FlushingOK ==
    ASSUME NEW c, NEW s, NEW o, NEW f, StoreOK(c, s), OpOK(o), NoLeak(c, s, {}),
           FlushDue(c, s, o, f)
    PROVE  Ready(c, s, AtLeft(o, "flush", DOMAIN s.buf.dirty), f)
  <1> DEFINE q == AtLeft(o, "flush", DOMAIN s.buf.dirty)
  <1>1. OpIs(q, o.do, "flush", o.data, o.off, o.n, o.i, o.key, o.keys, DOMAIN s.buf.dirty, o.content)
    BY OpAtLeft
  <1> HIDE DEF q
  <1>2. s.buf.on /\ s.mode = "chunked"
    BY DEF StoreOK, FlushDue
  <1>3. Within(s, s.size)
    BY <1>2 DEF FlushDue, AtRest
  <1>4. InFlush(c, s, q, f)
    BY <1>1, <1>2, <1>3 DEF InFlush, FlushDue, OpIs
  <1> QED
    BY <1>1, <1>4 DEF Ready, PhaseOK, OpIs, q

LEMMA TruncateOK ==
    ASSUME IInv, op.at = "idle", NEW n \in 0 .. MaxSize, Truncate(n)
    PROVE  IInv'
  <1> DEFINE x == IF n < effectiveSize(st) THEN "shrink" ELSE "grow"
             o == Operation(x, 0, <<>>, n)
             u == Unbuffered(st)
             f == Sized(file, n)
  <1>1. /\ n # effectiveSize(st) /\ versions' = versions
        /\ IF DOMAIN st.buf.dirty = {} THEN Begin(u, Resizing(u, o), f)
           ELSE Begin(st, AtLeft(o, "flush", DOMAIN st.buf.dirty), f)
    BY DEF Truncate, AtLeft
  <1>2. n \in Nat
    BY Sizes
  <1>3. op.at = "idle"
    OBVIOUS
  <1>4. /\ Exact(st, file) /\ NoLeak(cfg, st, {}) /\ StoreOK(cfg, st) /\ BufferOK(st)
        /\ file \in Seq(Nat)
    BY <1>3, IdleFacts DEF IInv
  <1>5. effectiveSize(st) = st.size /\ st.size \in Nat
        /\ st.mode \in {"inline", "chunked"} /\ AtRest(st)
    BY <1>4, SizeFacts DEF Exact, StoreOK
  <1>6. (x = "shrink" /\ n < st.size) \/ (x = "grow" /\ n > st.size)
    <2>1. n # st.size
      BY <1>1, <1>5
    <2>2. CASE n < st.size
      BY <1>5, <2>2
    <2>3. CASE n > st.size
      BY <1>2, <1>5, <2>3
    <2> QED
      BY <1>2, <1>5, <2>1, <2>2, <2>3
  <1>7. OpIs(o, x, "idle", <<>>, 0, n, 0, <<0, 0>>, {}, {}, <<>>)
    <2>1. <<>> \in Seq(Nat) /\ 0 \in Nat
      OBVIOUS
    <2> HIDE DEF x
    <2> QED
      BY <1>2, <2>1, OperationFacts
  <1>8. /\ f \in Seq(Nat) /\ Len(f) = n
        /\ st.mode = "inline" => f = Sized(st.inline, n)
        /\ st.mode = "chunked" => Upto(st, f, n)
        /\ st.mode = "chunked" /\ n > st.size => Holds(st, f)
    BY <1>2, <1>4, SizedDue
  <1> HIDE DEF x, o, f
  <1>9. OpOK(o)
    BY <1>7 DEF OpIs
  <1>10. CASE DOMAIN st.buf.dirty = {}
    <2>1. /\ StoreOK(cfg, u) /\ BufferOK(u) /\ ~u.buf.on
          /\ u.mode = st.mode /\ u.inline = st.inline /\ u.size = st.size
          /\ u.chunks = st.chunks /\ u.blocks = st.blocks
          /\ \A i \in Nat : ChunkData(u, i) = ChunkData(st, i)
          /\ NoLeak(cfg, u, {})
      <3>1. /\ StoreOK(cfg, u) /\ BufferOK(u) /\ ~u.buf.on
            /\ u.mode = st.mode /\ u.inline = st.inline /\ u.size = st.size
            /\ u.chunks = st.chunks /\ u.blocks = st.blocks
        BY <1>4, UnbufferedOK
      <3>2. NoLeak(cfg, u, {})
        BY <1>4, UnbufferedOK
      <3>3. \A i \in Nat : ChunkData(u, i) = ChunkData(st, i)
        BY <1>4, <1>10, UnbufferedOK
      <3> QED
        BY <3>1, <3>2, <3>3
    <2> HIDE DEF u
    <2>2. AtRest(u)
      BY <1>5, <2>1, SameExact
    <2>3. (Holds(st, f) => Holds(u, f)) /\ (Upto(st, f, n) => Upto(u, f, n))
      BY <2>1, SameData
    <2>4. ResizeDue(u, o, f)
      BY <1>5, <1>6, <1>7, <1>8, <2>1, <2>2, <2>3 DEF ResizeDue, OpIs
    <2>5. Ready(cfg, u, Resizing(u, o), f)
      BY <1>8, <1>9, <2>1, <2>4, ResizingOK
    <2>6. Begin(u, Resizing(u, o), f)
      BY <1>1, <1>10
    <2> QED
      BY <1>1, <1>8, <2>1, <2>5, <2>6, BeginsOK
  <1>11. CASE DOMAIN st.buf.dirty # {}
    <2>1. st.mode = "chunked"
      BY <1>4, <1>11 DEF StoreOK
    <2>2. FlushDue(cfg, st, o, f)
      BY <1>5, <1>6, <1>7, <1>8, <1>11, <2>1 DEF FlushDue, OpIs
    <2>3. Ready(cfg, st, AtLeft(o, "flush", DOMAIN st.buf.dirty), f)
      BY <1>4, <1>9, <2>2, FlushingOK
    <2>4. Begin(st, AtLeft(o, "flush", DOMAIN st.buf.dirty), f)
      BY <1>1, <1>11
    <2> QED
      BY <1>1, <1>4, <1>8, <2>3, <2>4, BeginsOK
  <1> QED
    BY <1>10, <1>11

\* fsync, or a version: the dirty chunks are to be flushed.
LEMMA FlushBegins ==
    ASSUME IInv, NEW what \in {"fsync", "version"}, what = "version" => cfg.versioning,
           op.at = "idle", DOMAIN st.buf.dirty # {}
    PROVE  Ready(cfg, st, Flushing(what), file)
  <1> DEFINE o == Operation(what, 0, <<>>, effectiveSize(st))
  <1>1. /\ Exact(st, file) /\ NoLeak(cfg, st, {}) /\ StoreOK(cfg, st) /\ file \in Seq(Nat)
    BY IdleFacts DEF IInv
  <1>2. effectiveSize(st) = st.size /\ st.size \in Nat
    BY <1>1, SizeFacts
  <1>3. OpIs(o, what, "idle", <<>>, 0, st.size, 0, <<0, 0>>, {}, {}, <<>>)
    <2>1. <<>> \in Seq(Nat) /\ 0 \in Nat
      OBVIOUS
    <2> QED
      BY <1>2, <2>1, OperationFacts
  <1>4. Flushing(what) = AtLeft(o, "flush", DOMAIN st.buf.dirty)
    BY DEF Flushing, AtLeft
  <1> HIDE DEF o
  <1>5. st.mode = "chunked"
    BY <1>1 DEF StoreOK
  <1>6. FlushDue(cfg, st, o, file)
    BY <1>1, <1>2, <1>3, <1>5 DEF FlushDue, OpIs, Exact
  <1>7. OpOK(o)
    BY <1>3 DEF OpIs
  <1> QED
    BY <1>1, <1>4, <1>6, <1>7, FlushingOK

LEMMA FsyncOK ==
    ASSUME IInv, op.at = "idle", Fsync
    PROVE  IInv'
  <1>1. Begin(st, Flushing("fsync"), file) /\ versions' = versions /\ DOMAIN st.buf.dirty # {}
    BY DEF Fsync
  <1>2. op.at = "idle" /\ StoreOK(cfg, st) /\ BufferOK(st) /\ file \in Seq(Nat)
    BY DEF IInv
  <1>3. Ready(cfg, st, Flushing("fsync"), file)
    BY <1>1, <1>2, FlushBegins
  <1> QED
    BY <1>1, <1>2, <1>3, BeginsOK

----------------------------------------------------------------------------
(* Versions come and go *)

\* A version made of a file without dirty chunks.
LEMMA SnapshotOK ==
    ASSUME NEW c, NEW s, StoreOK(c, s), file \in Seq(Nat), Exact(s, file),
           DOMAIN s.buf.dirty = {}
    PROVE  VersionOK(c, s, NoOp, Snapshot(s))
  <1> DEFINE r == Snapshot(s)
             t == Restored(s, r)
  <1>1. /\ r = [mode |-> r.mode, inline |-> r.inline, size |-> r.size,
                chunks |-> r.chunks, was |-> r.was]
        /\ r.mode = s.mode /\ r.inline = s.inline /\ r.size = s.size /\ r.chunks = s.chunks
        /\ r.was = file
    BY DEF Snapshot
  <1>2. Shape(s)
    BY DEF StoreOK
  <1> HIDE DEF r
  <1>3. LET u == Restored(s, r) IN
        /\ Shape(u) /\ u.mode = r.mode /\ u.inline = r.inline /\ u.size = r.size
        /\ u.chunks = r.chunks /\ u.blocks = s.blocks /\ u.fresh = s.fresh
        /\ u.buf.on = FALSE /\ DOMAIN u.buf.dirty = {} /\ u.buf.size = 0
        /\ u.buf.shared = {}
    BY <1>2, RestoredFields, Zenon
  <1>4. /\ Shape(t) /\ t.mode = s.mode /\ t.inline = s.inline /\ t.size = s.size
        /\ t.chunks = s.chunks /\ t.blocks = s.blocks /\ t.fresh = s.fresh
        /\ t.buf.on = FALSE /\ DOMAIN t.buf.dirty = {} /\ t.buf.shared = {}
    BY <1>1, <1>3
  <1> HIDE DEF t
  <1>5. StoreOK(c, t)
    BY <1>4 DEF StoreOK
  <1>6. \A i \in Nat : ChunkData(t, i) = ChunkData(s, i)
    BY <1>4 DEF ChunkData
  <1>7. Exact(t, file)
    BY <1>4, <1>6, SameExact
  <1>8. AtRest(t)
    BY <1>7 DEF Exact
  <1>9. Spares(NoOp, r)
    BY NoOpFacts DEF Spares
  <1> QED
    BY <1>1, <1>5, <1>7, <1>8, <1>9 DEF VersionOK, r, t

\* A version that is true may join the others.
LEMMA VersionsAppend ==
    ASSUME NEW c, NEW s, NEW o, NEW vs, VersionsOK(c, s, o, vs), c.versioning,
           NEW r, VersionOK(c, s, o, r)
    PROVE  VersionsOK(c, s, o, Append(vs, r))
  <1> DEFINE ws == Append(vs, r)
             V == Range(vs) \cup {r}
  <1>1. vs \in Seq(Range(vs)) /\ \A v \in DOMAIN vs : VersionOK(c, s, o, vs[v])
    BY DEF VersionsOK
  <1>2. vs \in Seq(V) /\ r \in V
    <2>1. Range(vs) \subseteq V
      OBVIOUS
    <2> QED
      BY <1>1, <2>1, SeqMonotonic
  <1> HIDE DEF V
  <1>3. /\ ws \in Seq(V) /\ Len(ws) = Len(vs) + 1 /\ Len(vs) \in Nat
        /\ \A v \in 1 .. Len(vs) : ws[v] = vs[v]
        /\ ws[Len(vs) + 1] = r
    BY <1>2, AppendProperties
  <1> HIDE DEF ws
  <1>4. ws \in Seq(Range(ws))
    BY <1>3, SeqOfRange
  <1>5. ASSUME NEW v \in DOMAIN ws PROVE VersionOK(c, s, o, ws[v])
    <2>1. v \in 1 .. Len(vs) + 1 /\ DOMAIN vs = 1 .. Len(vs)
      BY <1>2, <1>3
    <2> QED
      BY <1>1, <1>3, <2>1
  <1> QED
    BY <1>4, <1>5 DEF VersionsOK, ws

LEMMA ReadyIdle ==
    ASSUME NEW c, NEW s, NEW f, Exact(s, f), NoLeak(c, s, {})
    PROVE  Ready(c, s, NoOp, f)
  <1>1. InIdle(c, s, NoOp, f)
    BY DEF InIdle
  <1> QED
    BY <1>1, NoOpFacts DEF Ready, PhaseOK

LEMMA CreateVersionOK ==
    ASSUME IInv, op.at = "idle", CreateVersion
    PROVE  IInv'
  <1>1. /\ op.at = "idle" /\ cfg.versioning /\ StoreOK(cfg, st) /\ BufferOK(st)
        /\ file \in Seq(Nat) /\ VersionsOK(cfg, st, op, versions)
    BY DEF CreateVersion, IInv
  <1>2. CASE DOMAIN st.buf.dirty = {}
    <2>1. Begin(st, NoOp, file) /\ versions' = Append(versions, Snapshot(st))
      BY <1>2 DEF CreateVersion
    <2>2. Exact(st, file) /\ NoLeak(cfg, st, {})
      BY <1>1, IdleFacts
    <2>3. OpOK(NoOp) /\ PhaseOK(cfg, st, NoOp, file)
      BY <2>2, ReadyIdle DEF Ready
    <2>4. VersionOK(cfg, st, NoOp, Snapshot(st))
      BY <1>1, <1>2, <2>2, SnapshotOK
    <2>5. VersionsOK(cfg, st, NoOp, versions)
      <3>1. Kept(cfg, st, st)
        BY KeptSame
      <3> QED
        BY <1>1, <3>1, VersionsStay, NoOpFacts
    <2>6. VersionsOK(cfg, st, NoOp, versions')
      BY <1>1, <2>1, <2>4, <2>5, VersionsAppend
    <2> QED
      BY <1>1, <2>1, <2>3, <2>6, BeginOK
  <1>3. CASE DOMAIN st.buf.dirty # {}
    <2>1. Begin(st, Flushing("version"), file) /\ versions' = versions
      BY <1>3 DEF CreateVersion
    <2>2. Ready(cfg, st, Flushing("version"), file)
      BY <1>1, <1>3, FlushBegins
    <2> QED
      BY <1>1, <2>1, <2>2, BeginsOK
  <1> QED
    BY <1>2, <1>3

LEMMA RestoreVersionOK ==
    ASSUME IInv, op.at = "idle", NEW v \in DOMAIN versions, RestoreVersion(v)
    PROVE  IInv'
  <1> DEFINE r == versions[v]
             s == Restored(st, r)
             f == readInodeContent(s)
  <1>1. Begin(s, NoOp, f) /\ versions' = versions
    BY DEF RestoreVersion
  <1>2. /\ StoreOK(cfg, st) /\ VersionsOK(cfg, st, op, versions) /\ Shape(st)
    BY DEF IInv, StoreOK
  <1>3. VersionOK(cfg, st, op, r) /\ cfg.versioning
    <2>1. versions # <<>>
      OBVIOUS
    <2> QED
      BY <1>2, <2>1 DEF VersionsOK
  <1>4. StoreOK(cfg, s) /\ AtRest(s)
    BY <1>3 DEF VersionOK
  <1> HIDE DEF r
  <1>5. LET u == Restored(st, r) IN
        /\ Shape(u) /\ u.mode = r.mode /\ u.inline = r.inline /\ u.size = r.size
        /\ u.chunks = r.chunks /\ u.blocks = st.blocks /\ u.fresh = st.fresh
        /\ u.buf.on = FALSE /\ DOMAIN u.buf.dirty = {} /\ u.buf.size = 0
        /\ u.buf.shared = {}
    BY <1>2, RestoredFields, Zenon
  <1>6. s.blocks = st.blocks /\ BufferOK(s)
    BY <1>5 DEF BufferOK, SharedOK, UnderOK
  <1> HIDE DEF s
  <1>7. f \in Seq(Nat) /\ Exact(s, f)
    BY <1>4, ReadsExact
  <1> HIDE DEF f
  <1>8. Ready(cfg, s, NoOp, f)
    BY <1>3, <1>7, ReadyIdle DEF NoLeak
  <1> QED
    BY <1>1, <1>4, <1>6, <1>7, <1>8, BeginsOK

\* Without its buffer, a file that was at rest is still fit to be read.
LEMMA RestoreFailsOK ==
    ASSUME IInv, op.at = "idle", RestoreFails
    PROVE  IInv'
  <1> DEFINE s == Unbuffered(st)
             f == readInodeContent(s)
  <1>1. Begin(s, NoOp, f) /\ versions' = versions /\ cfg.versioning
    BY DEF RestoreFails
  <1>2. StoreOK(cfg, st) /\ BufferOK(st) /\ Exact(st, file)
    BY IdleFacts DEF IInv
  <1>3. /\ StoreOK(cfg, s) /\ BufferOK(s) /\ ~s.buf.on
        /\ s.mode = st.mode /\ s.inline = st.inline /\ s.size = st.size
        /\ s.chunks = st.chunks /\ s.blocks = st.blocks
    BY <1>2, UnbufferedOK
  <1> HIDE DEF s
  <1>4. AtRest(s)
    <2>1. CASE st.mode = "inline"
      BY <1>2, <1>3, <2>1 DEF Exact, AtRest
    <2>2. CASE st.mode # "inline"
      <3>1. ASSUME NEW i \in Nat, ChunkData(s, i) # <<>>
            PROVE  i * ChunkSize + Len(ChunkData(s, i)) <= s.size
        <4>1. DOMAIN s.buf.dirty = {} /\ i \in DOMAIN s.chunks
              /\ ChunkData(s, i) = s.blocks[s.chunks[i]]
          BY <1>3, <3>1, DataFacts DEF StoreOK
        <4>2. CASE st.buf.on
          BY <1>2, <1>3, <4>1, <4>2 DEF BufferOK, UnderOK
        <4>3. CASE ~st.buf.on
          <5>1. DOMAIN st.buf.dirty = {}
            BY <1>2, <4>3 DEF StoreOK
          <5>2. ChunkData(st, i) = ChunkData(s, i)
            BY <1>3, <4>1, <5>1 DEF ChunkData
          <5> QED
            BY <1>2, <1>3, <2>2, <3>1, <5>2 DEF Exact, AtRest, Within
        <4> QED
          BY <4>2, <4>3
      <3> QED
        BY <1>3, <2>2, <3>1 DEF AtRest, Within
    <2> QED
      BY <2>1, <2>2
  <1>5. f \in Seq(Nat) /\ Exact(s, f)
    BY <1>3, <1>4, ReadsExact
  <1> HIDE DEF f
  <1>6. Ready(cfg, s, NoOp, f)
    BY <1>1, <1>5, ReadyIdle DEF NoLeak
  <1> QED
    BY <1>1, <1>3, <1>5, <1>6, BeginsOK

\* Between operations, an open with O_TRUNC leaves an empty file and no block.
LEMMA OpenTruncOK ==
    ASSUME IInv, op.at = "idle", OpenTrunc
    PROVE  IInv'
  <1> DEFINE a == deleteChunksFrom(st, 0)
             b == SetInode(a, "inline", <<>>, 0)
             t == deleteMany(b, Keys(st.chunks))
  <1>1. /\ st' = t /\ file' = <<>> /\ ops' = ops + 1 /\ cfg' = cfg /\ op' = op
        /\ versions' = versions /\ ~cfg.buffering /\ ~cfg.versioning
        /\ read' = IF read.at = "idle" THEN read ELSE [read EXCEPT !.quiet = FALSE]
    BY DEF OpenTrunc, Changes
  <1>2. /\ StoreOK(cfg, st) /\ Shape(st) /\ NoLeak(cfg, st, {}) /\ op = NoOp
        /\ VersionsOK(cfg, st, op, versions) /\ ReadOK(cfg, st, op, file, read)
        /\ ops \in Nat
    BY PhaseAt DEF IInv, InIdle, StoreOK
  <1>3. /\ Shape(a) /\ DOMAIN a.chunks = {} /\ a.blocks = st.blocks /\ a.fresh = st.fresh
        /\ a.buf = st.buf
    <2>1. /\ Shape(a) /\ DOMAIN a.chunks = {i \in DOMAIN st.chunks : i < 0}
          /\ a.blocks = st.blocks /\ a.fresh = st.fresh /\ a.buf = st.buf
      BY <1>2, deleteChunksFromFields
    <2>2. \A i \in DOMAIN st.chunks : i \in Nat
      BY <1>2 DEF StoreOK
    <2> QED
      BY <2>1, <2>2
  <1> HIDE DEF a
  <1>4. /\ Shape(b) /\ b.mode = "inline" /\ b.inline = <<>> /\ b.size = 0
        /\ b.chunks = a.chunks /\ b.blocks = st.blocks /\ b.fresh = st.fresh
        /\ b.buf = st.buf
    BY <1>3, SetInodeFields
  <1> HIDE DEF b
  <1>5. /\ Shape(t) /\ t.mode = "inline" /\ t.inline = <<>> /\ t.size = 0
        /\ DOMAIN t.chunks = {} /\ DOMAIN t.blocks = {} /\ t.fresh = st.fresh
        /\ t.buf = st.buf
    <2>1. /\ Shape(t) /\ t.mode = b.mode /\ t.inline = b.inline /\ t.size = b.size
          /\ t.chunks = b.chunks /\ DOMAIN t.blocks = DOMAIN b.blocks \ Keys(st.chunks)
          /\ t.fresh = b.fresh /\ t.buf = b.buf
      BY <1>4, deleteManyFields
    <2>2. DOMAIN st.blocks = Keys(st.chunks)
      BY <1>1, <1>2 DEF NoLeak
    <2> QED
      BY <1>3, <1>4, <2>1, <2>2
  <1> HIDE DEF t
  <1>6. StoreOK(cfg, t) /\ ~t.buf.on
    BY <1>1, <1>2, <1>5 DEF StoreOK
  <1>7. BufferOK(t)
    BY <1>6, NoShare
  <1>8. Exact(t, <<>>) /\ NoLeak(cfg, t, {})
    <2>1. Keys(t.chunks) = {}
      BY <1>5 DEF Keys
    <2>2. Len(<<>>) = 0
      OBVIOUS
    <2> QED
      BY <1>5, <2>1, <2>2 DEF Exact, AtRest, NoLeak
  <1>9. OpOK(op) /\ PhaseOK(cfg, t, op, <<>>)
    BY <1>2, <1>8, ReadyIdle DEF Ready
  <1>10. VersionsOK(cfg, t, op, versions)
    <2>1. versions = <<>> /\ versions \in Seq(Range(versions))
      BY <1>1, <1>2 DEF VersionsOK
    <2>2. DOMAIN <<>> = {}
      OBVIOUS
    <2> QED
      BY <2>1, <2>2 DEF VersionsOK
  <1>11. ReadOK(cfg, t, op, <<>>, read')
    BY <1>1, <1>2, ReadDisturbed
  <1>12. <<>> \in Seq(Nat) /\ ops + 1 \in Nat
    BY <1>2
  <1> QED
    BY <1>1, <1>6, <1>7, <1>9, <1>10, <1>11, <1>12 DEF IInv

LEMMA PruneVersionsOK ==
    ASSUME IInv, op.at = "idle", NEW keep \in 0 .. Len(versions),
           NEW deferred \in BOOLEAN, PruneVersions(keep, deferred)
    PROVE  IInv'
  <1> DEFINE n == Len(versions)
             m == n - keep
             gone == SubSeq(versions, 1, m)
             kept == SubSeq(versions, m + 1, n)
             keys == Orphans(Range(gone), Range(kept))
             o == Operation("prune", 0, <<>>, 0)
             d == AtKeys(o, "delete", keys)
             q == IF deferred \/ keys = {} THEN NoOp ELSE d
  <1>1. Begin(st, q, file) /\ versions' = kept /\ keep < n
    BY DEF PruneVersions, AtKeys
  <1>2. /\ StoreOK(cfg, st) /\ BufferOK(st) /\ VersionsOK(cfg, st, op, versions)
        /\ file \in Seq(Nat) /\ op.at = "idle"
    BY DEF IInv
  <1>3. /\ versions \in Seq(Range(versions)) /\ n \in Nat /\ cfg.versioning
        /\ \A v \in DOMAIN versions : VersionOK(cfg, st, op, versions[v])
    <2>1. versions \in Seq(Range(versions))
          /\ \A v \in DOMAIN versions : VersionOK(cfg, st, op, versions[v])
      BY <1>2 DEF VersionsOK
    <2>2. n \in Nat /\ n > 0
      BY <1>1, <2>1, LenProperties
    <2>3. versions # <<>>
      BY <2>2
    <2> QED
      BY <1>2, <2>1, <2>2, <2>3 DEF VersionsOK
  <1>4. keep \in Nat /\ m \in Nat /\ m <= n /\ n - m = keep
    BY <1>1, <1>3
  <1>5. /\ kept \in Seq(Range(versions)) /\ Len(kept) = keep
        /\ \A v \in 1 .. keep : kept[v] = versions[m + v] /\ m + v \in 1 .. n
    <2> DEFINE a == m + 1
    <2>1. a \in Int /\ n \in Int /\ \A p \in a .. n : versions[p] \in Range(versions)
      BY <1>3, <1>4
    <2>2. /\ n - a + 1 = keep /\ (a <= n \/ keep = 0)
          /\ \A v \in 1 .. keep : a + v - 1 = m + v /\ m + v \in 1 .. n
      BY <1>3, <1>4
    <2> HIDE DEF a, n, m
    <2>3. /\ SubSeq(versions, a, n) \in Seq(Range(versions))
          /\ Len(SubSeq(versions, a, n)) = IF a <= n THEN n - a + 1 ELSE 0
          /\ \A v \in 1 .. n - a + 1 : SubSeq(versions, a, n)[v] = versions[a + v - 1]
      BY <2>1, SubSeqProperties
    <2>4. SubSeq(versions, a, n) = kept
      BY DEF a
    <2>5. n - a + 1 = 0 => ~(a <= n)
      BY <2>1
    <2> HIDE DEF kept
    <2> QED
      BY <1>4, <2>2, <2>3, <2>4, <2>5
  <1>13. DOMAIN versions = 1 .. n
    BY <1>3
  <1> HIDE DEF m, n, gone, kept
  <1>6. kept \in Seq(Range(kept)) /\ DOMAIN kept = 1 .. keep
    BY <1>5, SeqOfRange
  <1>7. OpIs(d, "prune", "delete", <<>>, 0, 0, 0, <<0, 0>>, keys, {}, <<>>)
    <2>1. OpIs(o, "prune", "idle", <<>>, 0, 0, 0, <<0, 0>>, {}, {}, <<>>)
      <3>1. <<>> \in Seq(Nat) /\ 0 \in Nat
        OBVIOUS
      <3> QED
        BY <3>1, OperationFacts
    <2> HIDE DEF o, keys
    <2>2. OpIs(d, o.do, "delete", o.data, o.off, o.n, o.i, o.key, keys, o.left, o.content)
      BY <2>1, OpAtKeys DEF OpIs
    <2> HIDE DEF d
    <2> QED
      BY <2>1, <2>2 DEF OpIs
  <1>8. keys \cap Keys(st.chunks) = {} /\ \A r \in Range(kept) : keys \cap Keys(r.chunks) = {}
    BY DEF Orphans
  <1> HIDE DEF keys, o, d
  <1>9. OpOK(q) /\ PhaseOK(cfg, st, q, file)
    <2>1. Exact(st, file) /\ NoLeak(cfg, st, {})
      BY <1>2, IdleFacts
    <2>2. OpOK(NoOp) /\ PhaseOK(cfg, st, NoOp, file)
      BY <2>1, ReadyIdle DEF Ready
    <2>3. InDelete(cfg, st, d, file)
      BY <1>3, <1>7, <1>8, <2>1 DEF InDelete, OpIs
    <2>4. OpOK(d) /\ PhaseOK(cfg, st, d, file)
      BY <1>7, <2>3 DEF PhaseOK, OpIs
    <2> QED
      BY <2>2, <2>4
  <1>10. q = NoOp \/ q = d
    OBVIOUS
  <1> HIDE DEF q
  <1>11. ASSUME NEW v \in DOMAIN kept PROVE VersionOK(cfg, st, q, kept[v])
    <2>1. v \in 1 .. keep /\ kept[v] \in Range(kept)
      BY <1>6 DEF Range
    <2>2. VersionOK(cfg, st, op, kept[v])
      BY <1>3, <1>5, <1>13, <2>1
    <2>3. Spares(q, kept[v])
      BY <1>7, <1>8, <1>10, <2>1, NoOpFacts DEF Spares, OpIs
    <2> QED
      BY <2>2, <2>3 DEF VersionOK
  <1>12. VersionsOK(cfg, st, q, versions')
    BY <1>1, <1>3, <1>6, <1>11 DEF VersionsOK
  <1> QED
    BY <1>1, <1>2, <1>9, <1>12, BeginOK

----------------------------------------------------------------------------
(* Chunks and blocks go *)

\* A step of the operation in progress is right if its stores are ready for the next
\* await and the blocks of the versions are kept.
LEMMA StepsOK ==
    ASSUME IInv, NEW s, NEW o, Goes(s, o), op.at # "idle", StoreOK(cfg, s), BufferOK(s),
           Ready(cfg, s, o, file), cfg.versioning => Kept(cfg, st, s)
    PROVE  IInv'
  <1>1. VersionsOK(cfg, s, o, versions)
    <2>1. StoreOK(cfg, st) /\ VersionsOK(cfg, st, op, versions) /\ o.at # "delete"
      BY DEF IInv, Ready
    <2> QED
      BY <2>1, VersionsStay
  <1>2. OpOK(o) /\ PhaseOK(cfg, s, o, file)
    BY DEF Ready
  <1> QED
    BY <1>1, <1>2, StepOK

\* The chunks that shrink keeps are those with a byte before the new end.
LEMMA ChunksBefore ==
    ASSUME NEW n \in Nat, NEW from,
           from = IF n = 0 THEN 0 ELSE 1 + ((n - 1) \div ChunkSize)
    PROVE  from \in Nat /\ \A i \in Nat : i < from <=> i * ChunkSize < n
  <1>1. CASE n = 0
    <2>1. \A i \in Nat : i * ChunkSize \in Nat
      BY ChunkOrder
    <2> QED
      BY <1>1, <2>1
  <1>2. CASE n # 0
    <2> DEFINE l == (n - 1) \div ChunkSize
    <2>1. /\ l \in Nat /\ l * ChunkSize \in Nat /\ l * ChunkSize < n
          /\ n <= l * ChunkSize + ChunkSize
      BY <1>2, LastByte
    <2>2. from = 1 + l
      BY <1>2
    <2> HIDE DEF l
    <2>3. ASSUME NEW i \in Nat PROVE i < from <=> i * ChunkSize < n
      <3>1. /\ i * ChunkSize \in Nat /\ (i < l => i * ChunkSize + ChunkSize <= l * ChunkSize)
            /\ (l < i => l * ChunkSize + ChunkSize <= i * ChunkSize)
            /\ (i = l => i * ChunkSize = l * ChunkSize)
        BY <2>1, ChunkOrder
      <3>2. ChunkSize \in Nat
        BY Sizes
      <3> DEFINE a == i * ChunkSize
                 b == l * ChunkSize
      <3> HIDE DEF a, b
      <3>3. /\ a \in Nat /\ b \in Nat /\ (i < l => a + ChunkSize <= b)
            /\ (l < i => b + ChunkSize <= a) /\ (i = l => a = b)
            /\ b < n /\ n <= b + ChunkSize
        BY <2>1, <3>1 DEF a, b
      <3>4. i < from <=> a < n
        BY <2>1, <2>2, <3>2, <3>3
      <3> QED
        BY <3>4 DEF a
    <2> QED
      BY <2>1, <2>2, <2>3
  <1> QED
    BY <1>1, <1>2

\* Each step leads from the phase of one await to that of the next.
LEMMA DropChunksOK ==
    ASSUME IInv, DropChunks
    PROVE  IInv'
  <1> DEFINE t == deleteChunksFrom(st, op.i)
             gone == {st.chunks[i] : i \in DOMAIN st.chunks \ DOMAIN t.chunks}
             d == AtKeys(op, "delete", gone)
  <1>1. /\ op.at = "drop"
        /\ Goes(t, IF cfg.versioning \/ gone = {} THEN Dropped(t, op) ELSE d)
    BY DEF DropChunks, AtKeys
  <1>2. /\ StoreOK(cfg, st) /\ OpOK(op) /\ CfgOK(cfg) /\ file \in Seq(Nat)
        /\ VersionsOK(cfg, st, op, versions)
    BY DEF IInv, CfgOK
  <1>3. InDrop(cfg, st, op, file)
    BY <1>1, PhaseAt DEF IInv
  <1>4. op.i \in Nat /\ op.n \in Nat /\ ~st.buf.on /\ NoLeak(cfg, st, {}) /\ Len(file) = op.n
        /\ st.mode = "chunked"
    BY <1>2, <1>3 DEF OpOK, InDrop
  <1>5. /\ StoreOK(cfg, t)
        /\ t.mode = st.mode /\ t.inline = st.inline /\ t.size = st.size
        /\ t.blocks = st.blocks /\ t.buf = st.buf
        /\ DOMAIN t.chunks = {i \in DOMAIN st.chunks : i < op.i}
        /\ \A i \in Nat : i < op.i \/ i \in DOMAIN st.buf.dirty =>
              ChunkData(t, i) = ChunkData(st, i)
        /\ gone \cap Keys(t.chunks) = {}
        /\ NoLeak(cfg, t, gone)
    <2>1. t = deleteChunksFrom(st, op.i)
      OBVIOUS
    <2> HIDE DEF t
    <2>2. gone = {st.chunks[i] : i \in DOMAIN st.chunks \ DOMAIN t.chunks}
      OBVIOUS
    <2> HIDE DEF gone
    <2>8. StoreOK(cfg, st) /\ CfgOK(cfg) /\ op.i \in Nat /\ NoLeak(cfg, st, {})
      BY <1>2, <1>4
    <2>3. CutFrom(cfg, st, op.i, t, gone)
      BY <2>8, <2>1, <2>2, Drop
    <2> QED
      BY <2>3, <2>8 DEF CutFrom
  <1>6. OpIs(d, op.do, "delete", op.data, op.off, op.n, op.i, op.key, gone, op.left, op.content)
    BY <1>2, OpAtKeys
  <1> HIDE DEF t, gone, d
  <1>7. BufferOK(t) /\ ~t.buf.on /\ Kept(cfg, st, t)
    BY <1>4, <1>5, NoShare, KeptSame
  <1>8. DropDue(t, op, file)
    <2>1. CASE op.do \in {"writeFile", "demote"}
      <3>1. op.i = 0 /\ op.data = file
        BY <1>3, <2>1 DEF InDrop
      <3>2. DOMAIN st.chunks \subseteq Nat
        BY <1>2 DEF StoreOK
      <3>3. DOMAIN t.chunks = {}
        BY <1>5, <3>1, <3>2
      <3> QED
        BY <1>4, <1>7, <2>1, <3>1, <3>3 DEF DropDue
    <2>2. CASE op.do = "shrink"
      <3>1. /\ op.n < st.size /\ Upto(st, file, op.n)
            /\ op.i = IF op.n = 0 THEN 0 ELSE 1 + ((op.n - 1) \div ChunkSize)
        BY <1>3, <2>2 DEF InDrop
      <3>2. \A i \in Nat : i < op.i <=> i * ChunkSize < op.n
        BY <1>4, <3>1, ChunksBefore
      <3>3. \A i \in DOMAIN t.chunks : i * ChunkSize < op.n
        BY <1>2, <1>5, <3>2 DEF StoreOK
      <3>4. Upto(t, file, op.n)
        <4> SUFFICES ASSUME NEW i \in Nat, NEW o \in 1 .. ChunkSize, i * ChunkSize + o <= op.n
                     PROVE  Cell(t, i, o) = At(file, i * ChunkSize + o)
          BY DEF Upto
        <4>1. i * ChunkSize \in Nat /\ o \in Nat /\ o >= 1
          BY Place
        <4>2. i * ChunkSize < op.n
          BY <1>4, <4>1
        <4>3. Cell(t, i, o) = Cell(st, i, o)
          BY <1>5, <3>2, <4>2 DEF Cell
        <4> QED
          BY <3>1, <4>3 DEF Upto
      <3>5. Shrunk(t, op, file)
        BY <1>4, <1>5, <2>2, <3>1, <3>3, <3>4 DEF Shrunk
      <3> QED
        BY <1>4, <1>7, <3>5 DEF DropDue
    <2>3. op.do \in {"writeFile", "demote", "shrink"}
      BY <1>3 DEF InDrop
    <2> QED
      BY <2>1, <2>2, <2>3
  <1>9. CASE cfg.versioning \/ gone = {}
    <2>1. NoLeak(cfg, t, {})
      BY <1>5, <1>9 DEF NoLeak
    <2>2. Ready(cfg, t, Dropped(t, op), file)
      BY <1>2, <1>5, <1>8, <2>1, DroppedOK
    <2>3. Goes(t, Dropped(t, op)) /\ op.at # "idle"
      BY <1>1, <1>9
    <2> QED
      BY <1>5, <1>7, <2>2, <2>3, StepsOK
  <1>10. CASE ~(cfg.versioning \/ gone = {})
    <2>1. InDelete(cfg, t, d, file)
      <3>1. d.do = op.do /\ d.data = op.data /\ d.n = op.n /\ d.keys = gone /\ d.at = "delete"
        BY <1>6 DEF OpIs
      <3>2. Shrunk(t, op, file) => Shrunk(t, d, file)
        BY <3>1 DEF Shrunk
      <3> QED
        BY <1>4, <1>5, <1>8, <1>10, <3>1, <3>2 DEF InDelete, DropDue
    <2>2. OpOK(d) /\ PhaseOK(cfg, t, d, file)
      BY <1>6, <2>1 DEF OpIs, PhaseOK
    <2>3. VersionsOK(cfg, t, d, versions)
      BY <1>2, <1>5, <1>10, VersionsStay
    <2>4. Goes(t, d) /\ op.at # "idle"
      BY <1>1, <1>10
    <2> QED
      BY <1>5, <1>7, <2>2, <2>3, <2>4, StepOK
  <1> QED
    BY <1>9, <1>10

LEMMA DeleteBlocksOK ==
    ASSUME IInv, DeleteBlocks
    PROVE  IInv'
  <1> DEFINE t == deleteMany(st, op.keys)
  <1>1. op.at = "delete" /\ Goes(t, Dropped(t, op))
    BY DEF DeleteBlocks
  <1>2. /\ StoreOK(cfg, st) /\ OpOK(op) /\ CfgOK(cfg) /\ file \in Seq(Nat) /\ BufferOK(st)
        /\ VersionsOK(cfg, st, op, versions) /\ Shape(st)
    BY DEF IInv, CfgOK, StoreOK
  <1>3. InDelete(cfg, st, op, file)
    BY <1>1, PhaseAt DEF IInv
  <1>4. op.keys \cap Keys(st.chunks) = {}
    BY <1>3 DEF InDelete
  <1>5. /\ StoreOK(cfg, t)
        /\ t.mode = st.mode /\ t.inline = st.inline /\ t.size = st.size
        /\ t.chunks = st.chunks /\ t.buf = st.buf
        /\ DOMAIN t.blocks = DOMAIN st.blocks \ op.keys
        /\ \A k \in DOMAIN t.blocks : t.blocks[k] = st.blocks[k]
        /\ \A i \in Nat : ChunkData(t, i) = ChunkData(st, i)
        /\ NoLeak(cfg, st, op.keys) => NoLeak(cfg, t, {})
    BY <1>2, <1>4, Delete
  <1> HIDE DEF t
  <1>6. BufferOK(t)
    <2>1. \A i \in DOMAIN t.chunks : t.chunks[i] \in DOMAIN t.blocks
      BY <1>5 DEF StoreOK
    <2> QED
      BY <1>2, <1>5, <2>1 DEF BufferOK, SharedOK, UnderOK
  <1>7. CASE op.do = "prune"
    <2>1. cfg.versioning /\ Exact(st, file)
      BY <1>3, <1>7 DEF InDelete, Shrunk
    <2>2. Dropped(t, op) = NoOp
      BY <1>7 DEF Dropped
    <2>3. Exact(t, file)
      BY <1>5, <2>1, SameExact
    <2>4. Ready(cfg, t, NoOp, file)
      BY <2>1, <2>3, ReadyIdle DEF NoLeak
    <2>5. ASSUME NEW v \in DOMAIN versions PROVE VersionOK(cfg, t, NoOp, versions[v])
      <3>1. VersionOK(cfg, st, op, versions[v])
        BY <1>2 DEF VersionsOK
      <3>2. Keys(versions[v].chunks) \subseteq DOMAIN st.blocks
        BY <1>2, <3>1, VersionKeys
      <3>3. op.keys \cap Keys(versions[v].chunks) = {}
        BY <1>1, <3>1 DEF VersionOK, Spares
      <3>4. SameBlocks(cfg, st, t, Keys(versions[v].chunks))
        BY <1>5, <3>2, <3>3 DEF SameBlocks
      <3>5. Spares(NoOp, versions[v])
        BY NoOpFacts DEF Spares
      <3> QED
        BY <1>2, <1>5, <3>1, <3>4, <3>5, VersionStays
    <2>6. VersionsOK(cfg, t, NoOp, versions)
      BY <1>2, <2>5 DEF VersionsOK
    <2>7. Goes(t, NoOp) /\ op.at # "idle" /\ OpOK(NoOp) /\ PhaseOK(cfg, t, NoOp, file)
      BY <1>1, <2>2, <2>4 DEF Ready
    <2> QED
      BY <1>5, <1>6, <2>6, <2>7, StepOK
  <1>8. CASE op.do # "prune"
    <2>1. ~cfg.versioning /\ NoLeak(cfg, st, op.keys) /\ DropDue(st, op, file)
      BY <1>3, <1>8 DEF InDelete, DropDue
    <2>2. Shrunk(st, op, file) => Shrunk(t, op, file)
      <3>1. \A f, n : Upto(st, f, n) => Upto(t, f, n)
        BY <1>5, SameData
      <3> QED
        BY <1>5, <3>1 DEF Shrunk
    <2>3. DropDue(t, op, file)
      BY <1>5, <2>1, <2>2 DEF DropDue
    <2>4. Ready(cfg, t, Dropped(t, op), file)
      BY <1>2, <1>5, <2>1, <2>3, DroppedOK
    <2>5. op.at # "idle"
      BY <1>1
    <2> QED
      BY <1>1, <1>5, <1>6, <2>1, <2>4, <2>5, StepsOK
  <1> QED
    BY <1>7, <1>8

----------------------------------------------------------------------------
(* The inode changes *)

\* A store that differs in its inode only.
NewInode(c, s, m, content, n, t) ==
    /\ StoreOK(c, t) /\ BufferOK(t) /\ ~t.buf.on
    /\ t.mode = m /\ t.inline = content /\ t.size = n
    /\ t.chunks = s.chunks /\ t.blocks = s.blocks
    /\ \A i \in Nat : ChunkData(t, i) = ChunkData(s, i)
    /\ \A more : NoLeak(c, s, more) => NoLeak(c, t, more)

\* Changing the inode keeps the stores well formed.
LEMMA SetInodeOK ==
    ASSUME NEW c, NEW s, StoreOK(c, s), NEW m \in {"inline", "chunked"},
           NEW content \in Seq(Nat), NEW n \in Nat, ~s.buf.on,
           NEW t, t = SetInode(s, m, content, n)
    PROVE  NewInode(c, s, m, content, n, t)
  <1>1. /\ Shape(t) /\ t.mode = m /\ t.inline = content /\ t.size = n
        /\ t.chunks = s.chunks /\ t.blocks = s.blocks /\ t.fresh = s.fresh /\ t.buf = s.buf
        /\ \A i : ChunkData(t, i) = ChunkData(s, i)
    BY SetInodeFields DEF StoreOK
  <1>2. StoreOK(c, t)
    BY <1>1 DEF StoreOK
  <1>3. BufferOK(t)
    BY <1>1, <1>2, NoShare
  <1>4. \A more : NoLeak(c, s, more) => NoLeak(c, t, more)
    BY <1>1 DEF NoLeak
  <1> QED
    BY <1>1, <1>2, <1>3, <1>4 DEF NewInode

LEMMA SetSizeOK ==
    ASSUME NEW c, NEW s, StoreOK(c, s), NEW n \in Nat, ~s.buf.on,
           NEW t, t = SetSize(s, n)
    PROVE  NewInode(c, s, s.mode, s.inline, n, t)
  <1>1. /\ Shape(t) /\ t.mode = s.mode /\ t.inline = s.inline /\ t.size = n
        /\ t.chunks = s.chunks /\ t.blocks = s.blocks /\ t.fresh = s.fresh /\ t.buf = s.buf
        /\ \A i : ChunkData(t, i) = ChunkData(s, i)
    BY SetSizeFields DEF StoreOK
  <1>2. StoreOK(c, t)
    BY <1>1 DEF StoreOK
  <1>3. BufferOK(t)
    BY <1>1, <1>2, NoShare
  <1>4. \A more : NoLeak(c, s, more) => NoLeak(c, t, more)
    BY <1>1 DEF NoLeak
  <1> QED
    BY <1>1, <1>2, <1>3, <1>4 DEF NewInode

LEMMA StoreInlineOK ==
    ASSUME IInv, StoreInline \/ UpdateInline
    PROVE  IInv'
  <1> DEFINE t == SetInode(st, "inline", op.data, op.n)
  <1>1. op.at \in {"inline", "update"} /\ Goes(t, NoOp)
    <2>1. CASE StoreInline
      BY <2>1 DEF StoreInline
    <2>2. CASE UpdateInline
      <3>1. op.at = "update" /\ Goes(SetInode(st, st.mode, op.data, op.n), NoOp)
        BY <2>2 DEF UpdateInline
      <3>2. InInline(cfg, st, op, file)
        BY <3>1, PhaseAt DEF IInv
      <3>3. st.mode = "inline"
        BY <3>1, <3>2 DEF InInline
      <3> QED
        BY <3>1, <3>3
    <2> QED
      BY <2>1, <2>2
  <1>2. StoreOK(cfg, st) /\ OpOK(op) /\ file \in Seq(Nat)
    BY DEF IInv
  <1>3. InInline(cfg, st, op, file)
    BY <1>1, PhaseAt DEF IInv
  <1>4. /\ DOMAIN st.chunks = {} /\ ~st.buf.on /\ NoLeak(cfg, st, {})
        /\ op.data = file /\ op.n = Len(file) /\ op.n \in Nat
    BY <1>2, <1>3 DEF InInline, OpOK
  <1>5. t = SetInode(st, "inline", file, op.n)
    BY <1>4
  <1> HIDE DEF t
  <1>6. /\ StoreOK(cfg, t) /\ BufferOK(t) /\ t.mode = "inline" /\ t.inline = file
        /\ t.size = op.n /\ t.chunks = st.chunks /\ t.blocks = st.blocks
    <2>1. NewInode(cfg, st, "inline", file, op.n, t)
      BY <1>2, <1>4, <1>5, SetInodeOK
    <2> QED
      BY <2>1 DEF NewInode
  <1>7. NoLeak(cfg, t, {})
    BY <1>4, <1>6 DEF NoLeak
  <1>8. Exact(t, file)
    BY <1>4, <1>6 DEF Exact, AtRest
  <1>9. Ready(cfg, t, NoOp, file)
    BY <1>7, <1>8, ReadyIdle
  <1>10. Kept(cfg, st, t) /\ op.at # "idle"
    BY <1>1, <1>6, KeptSame
  <1> QED
    BY <1>1, <1>6, <1>9, <1>10, StepsOK

LEMMA demoteToInlineOK ==
    ASSUME IInv, demoteToInline
    PROVE  IInv'
  <1> DEFINE t == SetInode(st, "inline", op.data, st.size)
             q == [op EXCEPT !.at = "size"]
             u == SetSize(t, op.n)
  <1>1. op.at = "demoted" /\ Goes(t, q)
    BY DEF demoteToInline
  <1>2. StoreOK(cfg, st) /\ OpOK(op) /\ file \in Seq(Nat) /\ st.size \in Nat
    BY DEF IInv, StoreOK
  <1>3. InInline(cfg, st, op, file)
    BY <1>1, PhaseAt DEF IInv
  <1>4. /\ DOMAIN st.chunks = {} /\ ~st.buf.on /\ NoLeak(cfg, st, {})
        /\ op.data = file /\ op.n = Len(file) /\ op.n \in Nat
    BY <1>2, <1>3 DEF InInline, OpOK
  <1>5. t = SetInode(st, "inline", file, st.size)
    BY <1>4
  <1>6. OpIs(q, op.do, "size", op.data, op.off, op.n, op.i, op.key, op.keys, op.left, op.content)
    BY <1>2, OpAt
  <1>14. u = SetSize(t, op.n)
    OBVIOUS
  <1> HIDE DEF t, q, u
  <1>7. /\ StoreOK(cfg, t) /\ BufferOK(t) /\ t.mode = "inline" /\ t.inline = file
        /\ t.size = st.size /\ t.chunks = st.chunks /\ t.blocks = st.blocks /\ ~t.buf.on
    <2> DEFINE n == st.size
    <2>1. n \in Nat /\ t = SetInode(st, "inline", file, n)
      BY <1>2, <1>5
    <2> HIDE DEF n
    <2>2. NewInode(cfg, st, "inline", file, n, t)
      <3>1. StoreOK(cfg, st) /\ ~st.buf.on /\ file \in Seq(Nat)
        BY <1>2, <1>4
      <3> QED
        BY <2>1, <3>1, SetInodeOK
    <2> QED
      BY <2>2 DEF n, NewInode
  <1>8. NoLeak(cfg, t, {})
    BY <1>4, <1>7 DEF NoLeak
  <1>9. u.mode = "inline" /\ u.inline = file /\ u.size = op.n /\ u.chunks = st.chunks
    <2>1. NewInode(cfg, t, t.mode, t.inline, op.n, u)
      <3>1. StoreOK(cfg, t) /\ ~t.buf.on /\ op.n \in Nat
        BY <1>4, <1>7
      <3> QED
        BY <1>14, <3>1, SetSizeOK
    <2> QED
      BY <1>7, <2>1 DEF NewInode
  <1>10. Exact(u, file)
    BY <1>4, <1>9 DEF Exact, AtRest
  <1>11. InSize(cfg, t, q, file)
    BY <1>6, <1>7, <1>8, <1>10, <1>14 DEF InSize, OpIs
  <1>12. Ready(cfg, t, q, file)
    BY <1>6, <1>11 DEF Ready, PhaseOK, OpIs
  <1>13. Kept(cfg, st, t) /\ op.at # "idle"
    BY <1>1, <1>7, KeptSame
  <1> QED
    BY <1>1, <1>7, <1>12, <1>13, StepsOK

LEMMA UpdateSizeOK ==
    ASSUME IInv, UpdateSize
    PROVE  IInv'
  <1> DEFINE t == SetSize(st, op.n)
  <1>1. op.at = "size" /\ Goes(t, NoOp)
    BY DEF UpdateSize
  <1>2. StoreOK(cfg, st) /\ OpOK(op) /\ file \in Seq(Nat)
    BY DEF IInv
  <1>3. InSize(cfg, st, op, file)
    BY <1>1, PhaseAt DEF IInv
  <1>4. ~st.buf.on /\ NoLeak(cfg, st, {}) /\ Exact(t, file) /\ op.n \in Nat
    BY <1>2, <1>3 DEF InSize, OpOK
  <1>5. /\ StoreOK(cfg, t) /\ BufferOK(t) /\ t.chunks = st.chunks /\ t.blocks = st.blocks
    <2>1. NewInode(cfg, st, st.mode, st.inline, op.n, t)
      BY <1>2, <1>4, SetSizeOK
    <2> QED
      BY <2>1 DEF NewInode
  <1> HIDE DEF t
  <1>6. NoLeak(cfg, t, {})
    BY <1>4, <1>5 DEF NoLeak
  <1>7. Ready(cfg, t, NoOp, file)
    BY <1>4, <1>6, ReadyIdle
  <1>8. Kept(cfg, st, t) /\ op.at # "idle"
    BY <1>1, <1>5, KeptSame
  <1> QED
    BY <1>1, <1>5, <1>7, <1>8, StepsOK

----------------------------------------------------------------------------
(* Blocks come, and their keys *)

\* Block d of chunk i has been written under the new key k.
NewBlock(c, s, i, d, k, t) ==
    /\ StoreOK(c, t) /\ KeyFor(c, k, i) /\ k \in DOMAIN t.blocks /\ t.blocks[k] = d
    /\ t.mode = s.mode /\ t.inline = s.inline /\ t.size = s.size
    /\ t.chunks = s.chunks /\ t.buf = s.buf
    /\ c.versioning => Kept(c, s, t)
    /\ \A j \in DOMAIN s.chunks : j # i => t.blocks[s.chunks[j]] = s.blocks[s.chunks[j]]
    /\ \A j \in Nat : j # i \/ c.versioning \/ j \in DOMAIN s.buf.dirty
                         \/ j \notin DOMAIN s.chunks =>
          ChunkData(t, j) = ChunkData(s, j)
    /\ ChunkData(t, i) = ChunkData(s, i) \/ ChunkData(t, i) = d
    /\ NoLeak(c, s, {}) => NoLeak(c, t, {k})
    /\ BufferOK(s) /\ (i \in s.buf.shared => d = s.buf.dirty[i]) /\ FitsUnder(s, i, d) =>
          BufferOK(t)

\* A block under a key just made disturbs nothing that is referred to.
LEMMA PutOK ==
    ASSUME NEW s, StoreOK(cfg, s), CfgOK(cfg), NEW i \in Nat, NEW d, IsBlock(d),
           NEW k, k = makeBlockKey(s, i), NEW t, t = PutBlock(s, k, d)
    PROVE  NewBlock(cfg, s, i, d, k, t)
  <1>1. /\ StoreOK(cfg, t) /\ KeyFor(cfg, k, i) /\ k \in DOMAIN t.blocks /\ t.blocks[k] = d
        /\ t.mode = s.mode /\ t.inline = s.inline /\ t.size = s.size
        /\ t.chunks = s.chunks /\ t.buf = s.buf
        /\ DOMAIN t.blocks = DOMAIN s.blocks \cup {k}
        /\ \A x \in DOMAIN s.blocks : x # k => t.blocks[x] = s.blocks[x]
        /\ cfg.versioning => k \notin DOMAIN s.blocks
        /\ \A j \in DOMAIN s.chunks : s.chunks[j] = k => j = i /\ ~cfg.versioning
    BY Put
  <1>2. /\ \A j \in Nat : j # i \/ cfg.versioning \/ j \in DOMAIN s.buf.dirty
                              \/ j \notin DOMAIN s.chunks =>
              ChunkData(t, j) = ChunkData(s, j)
        /\ ChunkData(t, i) = ChunkData(s, i) \/ ChunkData(t, i) = d
        /\ NoLeak(cfg, s, {}) => NoLeak(cfg, t, {k})
    BY PutData
  <1>3. cfg.versioning => Kept(cfg, s, t)
    BY <1>1 DEF Kept, SameBlocks
  <1>4. \A j \in DOMAIN s.chunks : s.chunks[j] \in DOMAIN s.blocks
    BY DEF StoreOK
  <1>5. \A j \in DOMAIN s.chunks : j # i => t.blocks[s.chunks[j]] = s.blocks[s.chunks[j]]
    BY <1>1, <1>4
  <1>6. ASSUME BufferOK(s), i \in s.buf.shared => d = s.buf.dirty[i], FitsUnder(s, i, d)
        PROVE  BufferOK(t)
    <2>1. ASSUME NEW j \in s.buf.shared
          PROVE  j \in DOMAIN s.chunks /\ t.blocks[s.chunks[j]] = s.buf.dirty[j]
      <3>1. j \in DOMAIN s.chunks /\ s.blocks[s.chunks[j]] = s.buf.dirty[j]
        BY <1>6 DEF BufferOK, SharedOK
      <3>2. CASE s.chunks[j] = k
        BY <1>1, <1>6, <3>1, <3>2
      <3>3. CASE s.chunks[j] # k
        BY <1>1, <1>4, <3>1, <3>3
      <3> QED
        BY <3>2, <3>3
    <2>2. ASSUME s.buf.on, NEW j \in DOMAIN s.chunks
          PROVE  j * ChunkSize + Len(t.blocks[s.chunks[j]]) <= s.size
      <3>1. CASE s.chunks[j] = k
        BY <1>1, <1>6, <2>2, <3>1 DEF FitsUnder
      <3>2. CASE s.chunks[j] # k
        <4>1. t.blocks[s.chunks[j]] = s.blocks[s.chunks[j]]
          BY <1>1, <1>4, <3>2
        <4> QED
          BY <1>6, <2>2, <4>1 DEF BufferOK, UnderOK
      <3> QED
        BY <3>1, <3>2
    <2>3. SharedOK(t)
      BY <1>1, <2>1 DEF SharedOK
    <2>4. UnderOK(t)
      BY <1>1, <2>2 DEF UnderOK
    <2> QED
      BY <2>3, <2>4 DEF BufferOK
  <1> QED
    BY <1>1, <1>2, <1>3, <1>5, <1>6 DEF NewBlock

\* Chunk i has key k.
NewKey(c, s, i, k, t) ==
    /\ StoreOK(c, t)
    /\ t.mode = s.mode /\ t.inline = s.inline /\ t.size = s.size
    /\ t.blocks = s.blocks /\ t.buf = s.buf
    /\ DOMAIN t.chunks = DOMAIN s.chunks \cup {i} /\ t.chunks[i] = k
    /\ \A j \in DOMAIN s.chunks : j # i => t.chunks[j] = s.chunks[j]
    /\ \A j \in Nat : j # i \/ j \in DOMAIN s.buf.dirty => ChunkData(t, j) = ChunkData(s, j)
    /\ i \notin DOMAIN s.buf.dirty => ChunkData(t, i) = s.blocks[k]
    /\ NoLeak(c, s, {k}) => NoLeak(c, t, {})
    /\ Kept(c, s, t)
    /\ BufferOK(s) /\ (i \in s.buf.shared => s.blocks[k] = s.buf.dirty[i])
          /\ FitsUnder(s, i, s.blocks[k]) => BufferOK(t)

\* A chunk that is given the block just written for it.
LEMMA KeyedOK ==
    ASSUME NEW c, NEW s, StoreOK(c, s), CfgOK(c), NEW i \in Nat, NEW k, KeyFor(c, k, i),
           k \in DOMAIN s.blocks, NEW t, t = setChunkKey(s, i, k)
    PROVE  NewKey(c, s, i, k, t)
  <1>1. /\ StoreOK(c, t)
        /\ t.mode = s.mode /\ t.inline = s.inline /\ t.size = s.size
        /\ t.blocks = s.blocks /\ t.buf = s.buf /\ t.fresh = s.fresh
        /\ DOMAIN t.chunks = DOMAIN s.chunks \cup {i} /\ t.chunks[i] = k
        /\ \A j \in DOMAIN s.chunks : j # i => t.chunks[j] = s.chunks[j]
        /\ \A j \in Nat : j # i \/ j \in DOMAIN s.buf.dirty =>
              ChunkData(t, j) = ChunkData(s, j)
        /\ i \notin DOMAIN s.buf.dirty => ChunkData(t, i) = s.blocks[k]
        /\ NoLeak(c, s, {k}) => NoLeak(c, t, {})
    BY Keyed
  <1>2. Kept(c, s, t)
    BY <1>1, KeptSame
  <1>3. ASSUME BufferOK(s), i \in s.buf.shared => s.blocks[k] = s.buf.dirty[i],
               FitsUnder(s, i, s.blocks[k])
        PROVE  BufferOK(t)
    <2>1. SharedOK(t)
      BY <1>1, <1>3 DEF BufferOK, SharedOK
    <2>2. ASSUME s.buf.on, NEW j \in DOMAIN t.chunks
          PROVE  j * ChunkSize + Len(s.blocks[t.chunks[j]]) <= s.size
      <3>1. CASE j = i
        BY <1>1, <1>3, <2>2, <3>1 DEF FitsUnder
      <3>2. CASE j # i
        <4>1. j \in DOMAIN s.chunks /\ t.chunks[j] = s.chunks[j]
          BY <1>1, <3>2
        <4> QED
          BY <1>3, <2>2, <4>1 DEF BufferOK, UnderOK
      <3> QED
        BY <3>1, <3>2
    <2>3. UnderOK(t)
      BY <1>1, <2>2 DEF UnderOK
    <2> QED
      BY <2>1, <2>3 DEF BufferOK
  <1> QED
    BY <1>1, <1>2, <1>3 DEF NewKey

\* What is due of a load does not depend on the blocks.
LEMMA SameLoad ==
    ASSUME NEW c, NEW s, NEW o, NEW f, LoadDue(c, s, o, f), NEW t, NEW q,
           t.mode = s.mode, t.inline = s.inline, t.size = s.size,
           q.do = o.do, q.data = o.data, q.off = o.off, q.n = o.n
    PROVE  LoadDue(c, t, q, f) /\ Source(t, q) = Source(s, o)
  BY DEF LoadDue, Promoting, Source

\* The content being split is the caller's, or what was inline.
LEMMA SourceFacts ==
    ASSUME NEW c, NEW s, NEW o, StoreOK(c, s), OpOK(o)
    PROVE  Source(s, o) \in Seq(Nat) /\ Len(Source(s, o)) \in Nat
  BY DEF StoreOK, OpOK, Source

LEMMA PutChunkOK ==
    ASSUME IInv, PutChunk
    PROVE  IInv'
  <1> DEFINE g == Source(st, op)
             i == op.i
             d == ChunkOf(g, i)
             k == makeBlockKey(st, i)
             t == PutBlock(st, k, d)
             q == AtKey(op, "key", k)
  <1>1. op.at = "put" /\ Goes(t, q)
    <2>1. op.at = "put"
      BY DEF PutChunk
    <2>2. op.content = Source(st, op)
      BY <2>1, PhaseAt DEF IInv, InLoad
    <2> QED
      BY <2>2 DEF PutChunk, AtKey
  <1>2. StoreOK(cfg, st) /\ OpOK(op) /\ CfgOK(cfg) /\ file \in Seq(Nat) /\ BufferOK(st)
    BY DEF IInv, CfgOK
  <1>3. InLoad(cfg, st, op, file)
    BY <1>1, PhaseAt DEF IInv
  <1>4. /\ i \in Nat /\ ~st.buf.on /\ NoLeak(cfg, st, {}) /\ i * ChunkSize < Len(g)
        /\ DOMAIN st.chunks = {j \in Nat : j < i} /\ LoadDue(cfg, st, op, file)
        /\ \A j \in DOMAIN st.chunks :
              j * ChunkSize < Len(g) /\ st.blocks[st.chunks[j]] = ChunkOf(g, j)
    BY <1>1, <1>2, <1>3 DEF InLoad, OpOK
  <1>5. g \in Seq(Nat)
    BY <1>2, SourceFacts
  <1>6. k = makeBlockKey(st, i) /\ t = PutBlock(st, k, d)
    OBVIOUS
  <1>7. OpIs(q, op.do, "key", op.data, op.off, op.n, op.i, k, op.keys, op.left, op.content)
    <2> HIDE DEF k
    <2> QED
      BY <1>2, OpAtKey
  <1>8. d = ChunkOf(g, i)
    OBVIOUS
  <1> HIDE DEF g, i, d, k, t, q
  <1>9. IsBlock(d)
    BY <1>4, <1>5, <1>8, ChunkOfFacts
  <1>10. NewBlock(cfg, st, i, d, k, t)
    BY <1>2, <1>4, <1>6, <1>9, PutOK
  <1>11. LoadDue(cfg, t, q, file) /\ Source(t, q) = g /\ q.content = g
    BY <1>3, <1>4, <1>7, <1>10, SameLoad DEF NewBlock, OpIs, g, InLoad
  <1>12. /\ StoreOK(cfg, t) /\ t.chunks = st.chunks /\ t.blocks[k] = d /\ k \in DOMAIN t.blocks
         /\ KeyFor(cfg, k, i) /\ NoLeak(cfg, t, {k}) /\ ~t.buf.on
         /\ \A j \in DOMAIN st.chunks : j # i => t.blocks[st.chunks[j]] = st.blocks[st.chunks[j]]
         /\ cfg.versioning => Kept(cfg, st, t)
    BY <1>4, <1>10 DEF NewBlock
  <1>13. q.at = "key" /\ q.i = i /\ q.key = k /\ OpOK(q)
    BY <1>7 DEF OpIs, i
  <1>14. InLoad(cfg, t, q, file)
    <2>1. \A j \in DOMAIN t.chunks :
             j * ChunkSize < Len(g) /\ t.blocks[t.chunks[j]] = ChunkOf(g, j)
      BY <1>4, <1>12
    <2>2. KeyReady(cfg, t, q)
      BY <1>12, <1>13 DEF KeyReady
    <2> QED
      BY <1>4, <1>8, <1>11, <1>12, <1>13, <2>1, <2>2 DEF InLoad
  <1>15. Ready(cfg, t, q, file) /\ BufferOK(t) /\ op.at # "idle"
    BY <1>1, <1>12, <1>13, <1>14, NoShare DEF Ready, PhaseOK
  <1> QED
    BY <1>1, <1>12, <1>15, StepsOK

LEMMA SetKeyOK ==
    ASSUME IInv, SetKey
    PROVE  IInv'
  <1> DEFINE g == Source(st, op)
             i == op.i
             k == op.key
             t == setChunkKey(st, i, k)
             a == IF (i + 1) * ChunkSize < Len(g) THEN "put" ELSE "chunked"
             q == AtI(op, a, i + 1)
  <1>1. op.at = "key" /\ Goes(t, q)
    <2>1. op.at = "key"
      BY DEF SetKey
    <2>2. op.content = Source(st, op)
      BY <2>1, PhaseAt DEF IInv, InLoad
    <2> QED
      BY <2>2 DEF SetKey, AtI
  <1>2. StoreOK(cfg, st) /\ OpOK(op) /\ CfgOK(cfg) /\ file \in Seq(Nat) /\ BufferOK(st)
    BY DEF IInv, CfgOK
  <1>3. InLoad(cfg, st, op, file)
    BY <1>1, PhaseAt DEF IInv
  <1>4. /\ i \in Nat /\ ~st.buf.on /\ KeyReady(cfg, st, op) /\ i * ChunkSize < Len(g)
        /\ DOMAIN st.chunks = {j \in Nat : j < i} /\ LoadDue(cfg, st, op, file)
        /\ \A j \in DOMAIN st.chunks :
              j * ChunkSize < Len(g) /\ st.blocks[st.chunks[j]] = ChunkOf(g, j)
        /\ st.blocks[k] = ChunkOf(g, i)
    BY <1>1, <1>2, <1>3 DEF InLoad, OpOK
  <1>5. g \in Seq(Nat) /\ Len(g) \in Nat
    BY <1>2, SourceFacts
  <1>6. OpIs(q, op.do, a, op.data, op.off, op.n, i + 1, op.key, op.keys, op.left, op.content)
    <2>1. i + 1 \in Nat
      BY <1>4
    <2> HIDE DEF i, a
    <2> QED
      BY <1>2, <2>1, OpAtI
  <1>7. k \in DOMAIN st.blocks /\ KeyFor(cfg, k, i) /\ NoLeak(cfg, st, {k})
    BY <1>4 DEF KeyReady
  <1>8. t = setChunkKey(st, i, k)
    OBVIOUS
  <1>9. a \in {"put", "chunked"} /\ (a = "put" <=> (i + 1) * ChunkSize < Len(g))
    OBVIOUS
  <1> HIDE DEF g, i, k, t, q, a
  <1>10. NewKey(cfg, st, i, k, t)
    BY <1>2, <1>4, <1>7, <1>8, KeyedOK
  <1>11. LoadDue(cfg, t, q, file) /\ Source(t, q) = g /\ q.content = g
    BY <1>3, <1>4, <1>6, <1>10, SameLoad DEF NewKey, OpIs, g, InLoad
  <1>12. /\ StoreOK(cfg, t) /\ t.blocks = st.blocks /\ NoLeak(cfg, t, {}) /\ ~t.buf.on
         /\ DOMAIN t.chunks = DOMAIN st.chunks \cup {i} /\ t.chunks[i] = k
         /\ \A j \in DOMAIN st.chunks : j # i => t.chunks[j] = st.chunks[j]
         /\ Kept(cfg, st, t)
    BY <1>4, <1>7, <1>10 DEF NewKey
  <1>13. q.at = a /\ q.i = i + 1 /\ OpOK(q)
    BY <1>6 DEF OpIs
  <1>14. InLoad(cfg, t, q, file)
    <2>1. \A j \in DOMAIN t.chunks :
             j * ChunkSize < Len(g) /\ t.blocks[t.chunks[j]] = ChunkOf(g, j)
      BY <1>4, <1>12
    <2>2. DOMAIN t.chunks = {j \in Nat : j < i + 1}
      BY <1>4, <1>12
    <2>3. (i + 1) * ChunkSize \in Nat
      BY <1>4, ChunkOrder
    <2>4. a = "chunked" => (i + 1) * ChunkSize >= Len(g)
      BY <1>5, <1>9, <2>3
    <2> QED
      BY <1>9, <1>11, <1>12, <1>13, <2>1, <2>2, <2>4 DEF InLoad
  <1>15. Ready(cfg, t, q, file) /\ BufferOK(t) /\ op.at # "idle"
    BY <1>1, <1>9, <1>12, <1>13, <1>14, NoShare DEF Ready, PhaseOK
  <1> QED
    BY <1>1, <1>12, <1>15, StepsOK

\* The indices of the chunks of n bytes are those of the chunks that begin before the end.
LEMMA IndicesFacts ==
    ASSUME NEW n \in Nat
    PROVE  Indices(n) = {i \in Nat : i * ChunkSize < n}
  <1>1. ASSUME NEW i \in Nat, i * ChunkSize < n PROVE i <= n
    <2>1. i <= i * ChunkSize /\ i * ChunkSize \in Nat
      BY Sizes
    <2> QED
      BY <1>1, <2>1
  <1>2. Indices(n) = {i \in 0 .. n : i * ChunkSize < n}
    BY DEF Indices
  <1>3. ASSUME NEW i PROVE i \in Indices(n) <=> i \in Nat /\ i * ChunkSize < n
    BY <1>1, <1>2
  <1> QED
    BY <1>3

\* A file that is the chunks of g holds g.
LEMMA ChunksHold ==
    ASSUME NEW s, NEW g \in Seq(Nat),
           \A j \in Nat : ChunkData(s, j) = IF j * ChunkSize < Len(g) THEN ChunkOf(g, j)
                                            ELSE <<>>
    PROVE  Within(s, Len(g)) /\ Holds(s, g)
  <1>1. ASSUME NEW j \in Nat, ChunkData(s, j) # <<>>
        PROVE  j * ChunkSize + Len(ChunkData(s, j)) <= Len(g)
    <2>1. j * ChunkSize < Len(g) /\ ChunkData(s, j) = ChunkOf(g, j)
      BY <1>1
    <2> QED
      BY <2>1, ChunkOfFacts
  <1>2. ASSUME NEW j \in Nat, NEW o \in 1 .. ChunkSize
        PROVE  Cell(s, j, o) = At(g, j * ChunkSize + o)
    <2>1. CASE j * ChunkSize < Len(g)
      <3>1. ChunkData(s, j) = ChunkOf(g, j)
        BY <2>1
      <3>2. At(ChunkOf(g, j), o) = At(g, j * ChunkSize + o)
        BY <2>1, ChunkOfFacts
      <3> QED
        BY <3>1, <3>2 DEF Cell
    <2>2. CASE ~(j * ChunkSize < Len(g))
      <3>1. ChunkData(s, j) = <<>>
        BY <2>2
      <3>2. o \in Nat /\ o >= 1 /\ j * ChunkSize \in Nat /\ j * ChunkSize + o \in Nat
        BY Place
      <3>3. Cell(s, j, o) = 0
        <4>1. At(<<>>, o) = 0
          BY <3>2 DEF At
        <4> QED
          BY <3>1, <4>1 DEF Cell
      <3> DEFINE m == j * ChunkSize
      <3>4. m + o > Len(g) /\ m + o >= 1
        <4>1. m \in Nat /\ ~(m < Len(g)) /\ Len(g) \in Nat
          BY <2>2, <3>2
        <4> HIDE DEF m
        <4> QED
          BY <3>2, <4>1
      <3> HIDE DEF m
      <3>5. At(g, m + o) = 0
        <4>1. m + o \in Nat
          BY <3>2 DEF m
        <4> QED
          BY <3>4, <4>1, AtFacts
      <3> QED
        BY <3>3, <3>5 DEF m
    <2> QED
      BY <2>1, <2>2
  <1> QED
    BY <1>1, <1>2 DEF Within, Holds

LEMMA MakeChunkedOK ==
    ASSUME IInv, MakeChunked
    PROVE  IInv'
  <1> DEFINE g == Source(st, op)
             n == IF op.do = "writeFile" THEN op.n ELSE st.size
             t == SetInode(st, "chunked", <<>>, n)
             w == [op EXCEPT !.at = "size"]
             q == CASE op.do = "writeFile" -> NoOp
                    [] op.do = "pwrite"    -> Patching(op)
                    [] op.do = "grow"      -> w
  <1>1. op.at = "chunked" /\ Goes(t, q)
    BY DEF MakeChunked
  <1>2. StoreOK(cfg, st) /\ OpOK(op) /\ CfgOK(cfg) /\ file \in Seq(Nat) /\ st.size \in Nat
    BY DEF IInv, CfgOK, StoreOK
  <1>3. InLoad(cfg, st, op, file)
    BY <1>1, PhaseAt DEF IInv
  <1>4. /\ op.i \in Nat /\ op.n \in Nat /\ ~st.buf.on /\ NoLeak(cfg, st, {})
        /\ DOMAIN st.chunks = {j \in Nat : j < op.i} /\ LoadDue(cfg, st, op, file)
        /\ \A j \in DOMAIN st.chunks :
              j * ChunkSize < Len(g) /\ st.blocks[st.chunks[j]] = ChunkOf(g, j)
        /\ op.i * ChunkSize >= Len(g)
    BY <1>1, <1>2, <1>3 DEF InLoad, OpOK
  <1>5. g \in Seq(Nat) /\ Len(g) \in Nat
    BY <1>2, SourceFacts
  <1>6. t = SetInode(st, "chunked", <<>>, n) /\ n \in Nat /\ <<>> \in Seq(Nat)
    BY <1>2, <1>4
  <1>7. /\ op.do = "writeFile" => g = file /\ n = Len(file) /\ q = NoOp /\ op.n = Len(file)
        /\ op.do = "pwrite" => q = Patching(op)
        /\ op.do = "grow" => q = w
        /\ op.do # "writeFile" => g = st.inline /\ n = st.size /\ Promoting(cfg, st, op, file)
        /\ op.do \in {"writeFile", "pwrite", "grow"}
    BY <1>4 DEF LoadDue, Promoting, Source
  <1> HIDE DEF g, n, t, q
  <1>8. NewInode(cfg, st, "chunked", <<>>, n, t)
    BY <1>2, <1>4, <1>6, SetInodeOK
  <1>9. /\ StoreOK(cfg, t) /\ BufferOK(t) /\ ~t.buf.on /\ t.mode = "chunked" /\ t.size = n
        /\ t.blocks = st.blocks /\ NoLeak(cfg, t, {})
        /\ \A j \in Nat : ChunkData(t, j) = ChunkData(st, j)
    BY <1>4, <1>8 DEF NewInode
  <1>10. Within(t, Len(g)) /\ Holds(t, g)
    <2>1. ASSUME NEW j \in Nat
          PROVE  ChunkData(t, j) = IF j * ChunkSize < Len(g) THEN ChunkOf(g, j) ELSE <<>>
      <3>1. DOMAIN st.buf.dirty = {}
        BY <1>2, <1>4 DEF StoreOK
      <3>2. CASE j < op.i
        <4>1. j \in DOMAIN st.chunks
          BY <1>4, <3>2
        <4> QED
          BY <1>4, <1>9, <3>1, <4>1 DEF ChunkData
      <3>3. CASE ~(j < op.i)
        <4>1. j \notin DOMAIN st.chunks
          BY <1>4, <3>3
        <4>2. op.i * ChunkSize \in Nat /\ j * ChunkSize \in Nat
              /\ (op.i < j => op.i * ChunkSize + ChunkSize <= j * ChunkSize)
          BY <1>4, ChunkOrder
        <4>3. op.i = j => op.i * ChunkSize = j * ChunkSize
          OBVIOUS
        <4>4. ~(j * ChunkSize < Len(g))
          BY <1>4, <1>5, <3>3, <4>2, <4>3, Sizes
        <4>5. ChunkData(st, j) = <<>>
          BY <3>1, <4>1 DEF ChunkData
        <4> QED
          BY <1>9, <4>4, <4>5
      <3> QED
        BY <3>2, <3>3
    <2> QED
      BY <1>5, <2>1, ChunksHold
  <1>11. Kept(cfg, st, t) /\ op.at # "idle"
    BY <1>1, <1>9, KeptSame
  <1>12. CASE op.do = "writeFile"
    <2>1. Exact(t, file)
      BY <1>7, <1>9, <1>10, <1>12 DEF Exact, AtRest
    <2>2. Ready(cfg, t, q, file)
      BY <1>7, <1>9, <1>12, <2>1, ReadyIdle
    <2> QED
      BY <1>1, <1>9, <1>11, <2>2, StepsOK
  <1>13. CASE op.do = "pwrite"
    <2>1. /\ st.size = Len(g) /\ Len(file) = op.n /\ op.data # <<>>
          /\ file = Overwrite(g, op.off, op.data) /\ q = Patching(op)
      BY <1>7, <1>13 DEF Promoting
    <2>2. PatchDue(t, op, g, file)
      BY <1>7, <1>9, <1>10, <1>13, <2>1 DEF PatchDue
    <2>3. Ready(cfg, t, q, file)
      BY <1>2, <1>5, <1>9, <2>1, <2>2, PatchingOK
    <2> QED
      BY <1>1, <1>9, <1>11, <2>3, StepsOK
  <1>14. CASE op.do = "grow"
    <2>1. /\ st.size = Len(g) /\ Len(file) = op.n /\ op.n > st.size
          /\ file = Sized(g, op.n) /\ q = w /\ n = st.size
      BY <1>7, <1>14 DEF Promoting
    <2>2. Exact(t, g)
      BY <1>9, <1>10, <2>1 DEF Exact, AtRest
    <2>3. Holds(t, file)
      BY <1>4, <1>5, <1>9, <2>1, <2>2, SizedDue
    <2>4. ResizeDue(t, op, file)
      BY <1>9, <1>14, <2>1, <2>2, <2>3 DEF ResizeDue, Exact
    <2>5. Resizing(t, op) = w
      BY <1>9, <1>14 DEF Resizing
    <2>6. Ready(cfg, t, Resizing(t, op), file)
      BY <1>2, <1>9, <2>4, ResizingOK
    <2>7. Ready(cfg, t, q, file)
      BY <2>1, <2>5, <2>6
    <2> QED
      BY <1>1, <1>9, <1>11, <2>7, StepsOK
  <1> QED
    BY <1>7, <1>12, <1>13, <1>14

\* A store with another buffer.
Rebuffered(s, on, dirty, n, shared) ==
    [s EXCEPT !.buf = [on |-> on, dirty |-> dirty, size |-> n, shared |-> shared]]

NewBuffer(s, on, dirty, n, shared, t) ==
    /\ Shape(t) /\ t.mode = s.mode /\ t.inline = s.inline /\ t.size = s.size
    /\ t.chunks = s.chunks /\ t.blocks = s.blocks /\ t.fresh = s.fresh
    /\ t.buf.on = on /\ t.buf.dirty = dirty /\ t.buf.size = n /\ t.buf.shared = shared

LEMMA BufferFields ==
    ASSUME NEW s, Shape(s), NEW on, NEW dirty, NEW n, NEW shared
    PROVE  NewBuffer(s, on, dirty, n, shared, Rebuffered(s, on, dirty, n, shared))
  BY DEF Shape, NewBuffer, Rebuffered

LEMMA PromoteBufferedOK ==
    ASSUME IInv, PromoteBuffered
    PROVE  IInv'
  <1> DEFINE g == st.inline
             dirty == [i \in Indices(Len(g)) |-> ChunkOf(g, i)]
             u == SetInode(st, "chunked", <<>>, st.size)
             n == effectiveSize(st)
             t == Rebuffered(u, TRUE, dirty, n, {})
  <1>1. op.at = "promote" /\ Goes(t, Patching(op))
    <2>1. op.at = "promote"
      BY DEF PromoteBuffered
    <2>2. op.content = st.inline
      BY <2>1, PhaseAt DEF IInv, InPromote
    <2> QED
      BY <2>2 DEF PromoteBuffered, Rebuffered
  <1>2. /\ StoreOK(cfg, st) /\ OpOK(op) /\ CfgOK(cfg) /\ file \in Seq(Nat) /\ st.size \in Nat
        /\ Shape(st) /\ g \in Seq(Nat) /\ Len(g) \in Nat
    BY DEF IInv, CfgOK, StoreOK
  <1>3. InPromote(cfg, st, op, file)
    BY <1>1, PhaseAt DEF IInv
  <1>4. /\ cfg.buffering /\ DOMAIN st.chunks = {} /\ ~st.buf.on /\ NoLeak(cfg, st, {})
        /\ op.do = "pwrite" /\ st.size = Len(g) /\ Len(file) = op.n /\ op.data # <<>>
        /\ file = Overwrite(g, op.off, op.data)
    BY <1>3 DEF InPromote, Promoting
  <1>5. n = st.size
    BY <1>4 DEF effectiveSize
  <1>6. DOMAIN dirty = {j \in Nat : j * ChunkSize < Len(g)}
    BY <1>2, IndicesFacts
  <1>7. \A j \in DOMAIN dirty : dirty[j] = ChunkOf(g, j)
    OBVIOUS
  <1>8. Shape(u) /\ u.mode = "chunked" /\ u.inline = <<>> /\ u.size = st.size
        /\ u.chunks = st.chunks /\ u.blocks = st.blocks /\ u.fresh = st.fresh
    BY <1>2, SetInodeFields
  <1>9. t = Rebuffered(u, TRUE, dirty, n, {})
    OBVIOUS
  <1> HIDE DEF dirty, u, n, t
  <1>10. /\ Shape(t) /\ t.mode = u.mode /\ t.inline = u.inline /\ t.size = u.size
         /\ t.chunks = u.chunks /\ t.blocks = u.blocks /\ t.fresh = u.fresh
         /\ t.buf.on = TRUE /\ t.buf.dirty = dirty /\ t.buf.size = n /\ t.buf.shared = {}
    <2>1. NewBuffer(u, TRUE, dirty, n, {}, t)
      BY <1>8, <1>9, BufferFields
    <2> QED
      BY <2>1 DEF NewBuffer
  <1>11. \A j \in DOMAIN dirty : IsBlock(dirty[j])
    BY <1>2, <1>6, <1>7, ChunkOfFacts
  <1>12. StoreOK(cfg, t)
    <2>1. <<>> \in Seq(Nat)
      OBVIOUS
    <2>2. DOMAIN dirty \subseteq Nat
      BY <1>6
    <2>3. st.fresh \in Nat /\ \A k \in DOMAIN st.blocks :
             IsBlock(st.blocks[k]) /\ k[2] \in Nat /\ (cfg.versioning => k[2] < st.fresh)
      BY <1>2 DEF StoreOK
    <2> QED
      BY <1>2, <1>4, <1>5, <1>8, <1>10, <1>11, <2>1, <2>2, <2>3 DEF StoreOK
  <1>13. BufferOK(t) /\ NoLeak(cfg, t, {}) /\ Kept(cfg, st, t) /\ op.at # "idle"
    <2>1. BufferOK(t)
      BY <1>4, <1>8, <1>10 DEF BufferOK, SharedOK, UnderOK
    <2>2. t.blocks = st.blocks /\ t.chunks = st.chunks
      BY <1>8, <1>10
    <2> QED
      BY <1>1, <1>4, <2>1, <2>2, KeptSame DEF NoLeak
  <1>14. Within(t, Len(g)) /\ Holds(t, g)
    <2>1. ASSUME NEW j \in Nat
          PROVE  ChunkData(t, j) = IF j * ChunkSize < Len(g) THEN ChunkOf(g, j) ELSE <<>>
      BY <1>4, <1>6, <1>7, <1>8, <1>10 DEF ChunkData
    <2> HIDE DEF g
    <2> QED
      BY <1>2, <2>1, ChunksHold
  <1>15. PatchDue(t, op, g, file)
    BY <1>4, <1>8, <1>10, <1>14 DEF PatchDue
  <1> HIDE DEF g
  <1>16. Ready(cfg, t, Patching(op), file)
    BY <1>2, <1>12, <1>13, <1>15, PatchingOK
  <1> QED
    BY <1>1, <1>12, <1>13, <1>16, StepsOK

----------------------------------------------------------------------------
(* Chunks are patched *)

\* What has been written, from the first chunk the write touches up to chunk o.i, and
\* what is left.
PatchPart(s, o, f) ==
    /\ o.data # <<>> /\ Len(f) = o.n /\ o.off + Len(o.data) <= o.n
    /\ \A q \in 1 .. Len(o.data) : f[o.off + q] = o.data[q]
    /\ Within(s, o.n)
    /\ \A i \in Nat, b \in 1 .. ChunkSize :
          i < o.i \/ Outside(o, i * ChunkSize + b) =>
             Cell(s, i, b) = At(f, i * ChunkSize + b)
    /\ o.i * ChunkSize < o.off + Len(o.data) /\ o.off < (o.i + 1) * ChunkSize

\* The chunk is as it should be after the write.
ChunkFits(o, f, chunk) ==
    /\ IsBlock(chunk) /\ o.i * ChunkSize + Len(chunk) <= o.n
    /\ \A b \in 1 .. ChunkSize : At(chunk, b) = At(f, o.i * ChunkSize + b)

\* The part of a write that falls into a chunk makes the chunk what it should be.
LEMMA PatchedFacts ==
    ASSUME NEW c, NEW s, StoreOK(c, s), NEW o, OpOK(o), NEW f \in Seq(Nat), PatchPart(s, o, f),
           NEW chunk, chunk = Patched(s, o.i, o.off, o.data)
    PROVE  ChunkFits(o, f, chunk)
  <1> DEFINE m    == o.i * ChunkSize
             off  == o.off
             n    == o.n
             L    == Len(o.data)
             old  == ChunkData(s, o.i)
             from == Maximum(off, m)
             to   == Minimum(off + L, m + ChunkSize)
             x    == from - off
             e    == to - off
             part == SubSeq(o.data, x + 1, e)
             at   == from - m
  <1>1. o.i \in Nat /\ o.data \in Seq(Nat)
    BY DEF OpOK
  <1>20. /\ off \in Nat /\ n \in Nat /\ L \in Nat /\ ChunkSize \in Nat /\ ChunkSize >= 1
    BY <1>1, Sizes DEF OpOK
  <1>2. m \in Nat /\ (o.i + 1) * ChunkSize = m + ChunkSize
    BY <1>1, ChunkOrder
  <1>3. L >= 1
    <2>1. L # 0
      BY <1>1, EmptyFile DEF PatchPart
    <2> QED
      BY <1>20, <2>1
  <1>4. m < off + L /\ off < m + ChunkSize /\ off + L <= n /\ Len(f) = n
    BY <1>2 DEF PatchPart
  <1>5. chunk = Overwrite(old, at, part)
    BY DEF Patched
  <1>6. old \in Seq(Nat) /\ Len(old) \in Nat /\ Len(old) <= ChunkSize
        /\ (old = <<>> \/ IsBlock(old))
    BY <1>1, DataFacts
  <1>7. old # <<>> => m + Len(old) <= n
    BY <1>1 DEF PatchPart, Within
  <1>8. \A b \in 1 .. ChunkSize : Outside(o, m + b) => At(old, b) = At(f, m + b)
    BY <1>1 DEF PatchPart, Cell
  <1>9. \A q \in 1 .. L : f[off + q] = o.data[q]
    BY DEF PatchPart
  <1> HIDE DEF m, L, old, off, n
  <1>10. /\ from \in Nat /\ to \in Nat /\ from < to /\ from >= off /\ from >= m
         /\ to <= off + L /\ to <= m + ChunkSize
         /\ (from = off \/ from = m) /\ (to = off + L \/ to = m + ChunkSize)
    BY <1>20, <1>2, <1>3, <1>4 DEF Maximum, Minimum
  <1> HIDE DEF from, to
  <1>11. x \in Nat /\ e \in Nat /\ x <= e /\ e <= L /\ at \in Nat /\ e - x = to - from
    BY <1>20, <1>2, <1>10
  <1>12. /\ part \in Seq(Nat) /\ Len(part) = e - x
         /\ \A q \in 1 .. e - x : part[q] = o.data[x + q]
    <2> HIDE DEF x, e
    <2>1. e <= Len(o.data)
      BY <1>11 DEF L
    <2> QED
      BY <1>1, <1>11, <2>1, PieceFacts
  <1> HIDE DEF part
  <1>13. at + Len(part) = to - m /\ to - m \in Nat /\ to - m <= ChunkSize /\ to - m >= 1
    <2>1. Len(part) = e - x
      BY <1>12
    <2> QED
      BY <1>20, <1>2, <1>10, <1>11, <2>1
  <1>14. /\ chunk \in Seq(Nat) /\ Len(chunk) = Maximum(Len(old), at + Len(part))
         /\ \A p \in Nat : p >= 1 =>
              At(chunk, p) = IF p > at /\ p <= at + Len(part) THEN part[p - at] ELSE At(old, p)
    <2>1. at \in Nat /\ old \in Seq(Nat) /\ part \in Seq(Nat)
      BY <1>6, <1>11, <1>12
    <2> HIDE DEF at
    <2> QED
      BY <1>5, <2>1, OverwriteFacts
  <1>15. Len(chunk) = Len(old) \/ Len(chunk) = to - m
    BY <1>13, <1>14 DEF Maximum
  <1>16. Len(chunk) >= to - m
    BY <1>6, <1>13, <1>14 DEF Maximum
  <1>17. IsBlock(chunk)
    BY <1>6, <1>13, <1>14, <1>15, <1>16, Sizes DEF IsBlock
  <1>18. m + Len(chunk) <= n
    <2>1. m + (to - m) <= n
      BY <1>20, <1>2, <1>4, <1>10
    <2>2. CASE old = <<>>
      <3>1. Len(old) = 0
        BY <2>2
      <3>2. Len(chunk) = to - m
        BY <1>13, <1>15, <1>16, <3>1
      <3> QED
        BY <2>1, <3>2
    <2>3. CASE old # <<>>
      BY <1>7, <1>15, <2>1, <2>3
    <2> QED
      BY <2>2, <2>3
  <1>19. ASSUME NEW b \in 1 .. ChunkSize PROVE At(chunk, b) = At(f, m + b)
    <2>1. b \in Nat /\ b >= 1 /\ b <= ChunkSize
      BY <1>20
    <2>2. CASE b > at /\ b <= at + Len(part)
      <3> DEFINE q == b - at
                 p == m + b - off
      <3>1. At(chunk, b) = part[q]
        BY <1>14, <2>1, <2>2
      <3>2. q \in 1 .. e - x /\ x + q = p /\ p \in 1 .. L /\ off + p = m + b
        BY <1>20, <1>2, <1>10, <1>11, <1>13, <2>1, <2>2
      <3> HIDE DEF q, p
      <3>3. part[q] = f[m + b]
        BY <1>9, <1>12, <3>2
      <3>4. m + b <= Len(f)
        BY <1>20, <1>2, <1>4, <2>1, <3>2
      <3> QED
        BY <3>1, <3>3, <3>4 DEF At
    <2>3. CASE ~(b > at /\ b <= at + Len(part))
      <3>1. At(chunk, b) = At(old, b)
        BY <1>14, <2>1, <2>3
      <3>2. Outside(o, m + b)
        <4>1. m + b <= off \/ m + b > off + L
          BY <1>20, <1>2, <1>10, <1>13, <2>1, <2>3
        <4> QED
          BY <4>1 DEF Outside, L, off
      <3> QED
        BY <1>8, <3>1, <3>2
    <2> QED
      BY <2>2, <2>3
  <1> QED
    BY <1>17, <1>18, <1>19 DEF ChunkFits, m, n

\* The chunk in hand may have been patched already, or not.
LEMMA PatchStays ==
    ASSUME NEW s, NEW o, OpOK(o), NEW f, PatchPart(s, o, f), NEW chunk, ChunkFits(o, f, chunk),
           NEW t, \A j \in Nat : j # o.i => ChunkData(t, j) = ChunkData(s, j),
           ChunkData(t, o.i) = ChunkData(s, o.i) \/ ChunkData(t, o.i) = chunk
    PROVE  PatchPart(t, o, f)
  <1>1. Within(t, o.n)
    BY DEF PatchPart, Within, ChunkFits
  <1>2. ASSUME NEW i \in Nat, NEW b \in 1 .. ChunkSize,
               i < o.i \/ Outside(o, i * ChunkSize + b)
        PROVE  Cell(t, i, b) = At(f, i * ChunkSize + b)
    <2>1. Cell(s, i, b) = At(f, i * ChunkSize + b)
      BY <1>2 DEF PatchPart
    <2>2. CASE ChunkData(t, i) = ChunkData(s, i)
      BY <2>1, <2>2 DEF Cell
    <2>3. CASE i = o.i /\ ChunkData(t, i) = chunk
      BY <2>3 DEF Cell, ChunkFits
    <2> QED
      BY <2>2, <2>3
  <1> QED
    BY <1>1, <1>2 DEF PatchPart

\* With the chunk in hand patched, the next one is due, or the file is as it should be.
LEMMA PatchGoesOn ==
    ASSUME NEW s, NEW o, OpOK(o), NEW f, PatchPart(s, o, f), NEW chunk, ChunkFits(o, f, chunk),
           NEW t, \A j \in Nat : j # o.i => ChunkData(t, j) = ChunkData(s, j),
           ChunkData(t, o.i) = chunk, NEW q, OpOK(q), q.i = o.i + 1, q.data = o.data,
           q.off = o.off, q.n = o.n
    PROVE  /\ o.i < LastTouched(o) => PatchPart(t, q, f)
           /\ ~(o.i < LastTouched(o)) => Within(t, o.n) /\ Holds(t, f)
  <1> DEFINE l == LastTouched(o)
             L == Len(o.data)
             off == o.off
             x == off + L - 1
  <1>9. o.i \in Nat /\ o.data \in Seq(Nat)
    BY DEF OpOK
  <1>1. /\ o.i \in Nat /\ off \in Nat /\ L \in Nat /\ ChunkSize \in Nat /\ ChunkSize >= 1
    BY <1>9, Sizes DEF OpOK
  <1>2. x \in Nat /\ x + 1 = off + L
    <2>1. L # 0
      BY <1>9, EmptyFile DEF PatchPart
    <2> HIDE DEF L, off
    <2> QED
      BY <1>1, <2>1
  <1>3. l = x \div ChunkSize
    BY DEF LastTouched
  <1> HIDE DEF x, l, L, off
  <1>4. l \in Nat /\ l * ChunkSize \in Nat /\ l * ChunkSize <= x /\ x < (l + 1) * ChunkSize
    BY <1>2, <1>3, DivFacts
  <1>5. PatchPart(t, o, f)
    BY PatchStays
  <1>6. ASSUME NEW i \in Nat, NEW b \in 1 .. ChunkSize,
               i < o.i + 1 \/ Outside(o, i * ChunkSize + b)
        PROVE  Cell(t, i, b) = At(f, i * ChunkSize + b)
    <2>1. CASE i = o.i
      BY <2>1 DEF Cell, ChunkFits
    <2>2. CASE i # o.i
      <3>1. i < o.i \/ Outside(o, i * ChunkSize + b)
        BY <1>1, <1>6, <2>2
      <3> QED
        BY <1>5, <3>1 DEF PatchPart
    <2> QED
      BY <2>1, <2>2
  <1>7. ASSUME o.i < l PROVE PatchPart(t, q, f)
    <2>1. o.i + 1 \in Nat /\ o.i + 2 \in Nat /\ (o.i + 1) + 1 = o.i + 2
      BY <1>1
    <2>2. (o.i + 1) * ChunkSize <= l * ChunkSize
      BY <1>1, <1>4, <1>7, ChunkOrder
    <2>3. /\ (o.i + 1) * ChunkSize \in Nat
          /\ (o.i + 2) * ChunkSize = (o.i + 1) * ChunkSize + ChunkSize
      BY <2>1, ChunkOrder
    <2>4. (o.i + 1) * ChunkSize < off + L
      BY <1>1, <1>2, <1>4, <2>2, <2>3
    <2>5. off < (o.i + 1) * ChunkSize
      BY DEF PatchPart, off
    <2>6. off < (o.i + 2) * ChunkSize
      <3> DEFINE p == (o.i + 1) * ChunkSize
      <3>1. p \in Nat /\ off < p /\ (o.i + 2) * ChunkSize = p + ChunkSize
        BY <2>3, <2>5
      <3> HIDE DEF p
      <3> QED
        BY <1>1, <3>1
    <2>7. /\ q.i * ChunkSize < q.off + Len(q.data) /\ q.off < (q.i + 1) * ChunkSize
          /\ \A p : Outside(q, p) <=> Outside(o, p)
      BY <2>1, <2>4, <2>6 DEF Outside, off, L
    <2> QED
      BY <1>5, <1>6, <2>7 DEF PatchPart
  <1>8. ASSUME ~(o.i < l) PROVE Holds(t, f)
    <2> SUFFICES ASSUME NEW i \in Nat, NEW b \in 1 .. ChunkSize
                 PROVE  Cell(t, i, b) = At(f, i * ChunkSize + b)
      BY DEF Holds
    <2>1. CASE i < o.i + 1
      BY <1>6, <2>1
    <2>2. CASE ~(i < o.i + 1)
      <3>1. l < i
        BY <1>1, <1>4, <1>8, <2>2
      <3>2. i * ChunkSize \in Nat /\ l * ChunkSize + ChunkSize <= i * ChunkSize
            /\ (l + 1) * ChunkSize = l * ChunkSize + ChunkSize
        BY <1>4, <3>1, ChunkOrder
      <3>3. b \in Nat /\ b >= 1
        BY Place
      <3>4. i * ChunkSize + b > x + 1
        <4> DEFINE p == i * ChunkSize
                   r == l * ChunkSize
        <4>1. p \in Nat /\ r \in Nat /\ r + ChunkSize <= p /\ x < r + ChunkSize
          BY <1>4, <3>2
        <4> HIDE DEF p, r
        <4>2. p + b > x + 1
          BY <1>1, <1>2, <3>3, <4>1
        <4> QED
          BY <4>2 DEF p
      <3>5. Outside(o, i * ChunkSize + b)
        BY <1>2, <3>4 DEF Outside, off, L
      <3> QED
        BY <1>6, <3>5
    <2> QED
      BY <2>1, <2>2
  <1> QED
    BY <1>5, <1>7, <1>8 DEF PatchPart, l

\* Keeping the versions' blocks is transitive.
LEMMA KeptTrans ==
    ASSUME NEW c, NEW s, NEW t, NEW u, Kept(c, s, t), Kept(c, t, u)
    PROVE  Kept(c, s, u)
  BY DEF Kept, SameBlocks

\* The block of chunk i may have been patched in place.
InPlace(c, s, i, chunk, t) ==
    /\ StoreOK(c, t) /\ t.mode = s.mode /\ t.inline = s.inline /\ t.size = s.size
    /\ t.chunks = s.chunks /\ t.buf = s.buf /\ t.fresh = s.fresh
    /\ Kept(c, s, t)
    /\ \A j \in DOMAIN s.chunks : j # i => t.blocks[s.chunks[j]] = s.blocks[s.chunks[j]]
    /\ \A j \in Nat : j # i => ChunkData(t, j) = ChunkData(s, j)
    /\ ChunkData(t, i) = ChunkData(s, i) \/ ChunkData(t, i) = chunk
    /\ \A more : NoLeak(c, s, more) => NoLeak(c, t, more)

\* A block changed in place by an aliasing store holds the patched chunk.
LEMMA PatchBlockOK ==
    ASSUME NEW s, StoreOK(cfg, s), BufferOK(s), NEW i \in Nat, NEW chunk, IsBlock(chunk),
           NEW t, t = PatchBlock(s, i, chunk)
    PROVE  /\ InPlace(cfg, s, i, chunk, t)
           /\ PatchesBlock(s, i, chunk) =>
                i \in DOMAIN s.chunks /\ t.blocks[s.chunks[i]] = chunk
  <1>1. CASE ~PatchesBlock(s, i, chunk)
    <2>1. t = s
      BY <1>1 DEF PatchBlock
    <2>2. Kept(cfg, s, t)
      BY <2>1, KeptSame
    <2> QED
      BY <1>1, <2>1, <2>2 DEF InPlace
  <1>2. CASE PatchesBlock(s, i, chunk)
    <2> DEFINE k == s.chunks[i]
    <2>1. /\ t = SetBlock(s, k, chunk)
          /\ cfg.aliasing /\ i \in DOMAIN s.chunks /\ Len(ChunkData(s, i)) = Len(chunk)
          /\ (i \in DOMAIN s.buf.dirty => i \in s.buf.shared)
      BY <1>2 DEF PatchesBlock, PatchBlock
    <2>2. /\ Shape(s) /\ DOMAIN s.chunks \subseteq Nat
          /\ \A j \in DOMAIN s.chunks : s.chunks[j] \in DOMAIN s.blocks
                                         /\ KeyFor(cfg, s.chunks[j], j)
      BY DEF StoreOK
    <2>3. \A j \in DOMAIN s.chunks : j # i => s.chunks[j] # k
      <3> SUFFICES ASSUME NEW j \in DOMAIN s.chunks, s.chunks[j] = k PROVE j = i
        OBVIOUS
      <3>1. KeyFor(cfg, k, j) /\ KeyFor(cfg, k, i)
        BY <2>1, <2>2
      <3> QED
        BY <3>1 DEF KeyFor
    <2>4. k \in DOMAIN s.blocks
      BY <2>1, <2>2
    <2> HIDE DEF k
    <2>5. /\ Shape(t) /\ t.mode = s.mode /\ t.inline = s.inline /\ t.size = s.size
          /\ t.chunks = s.chunks /\ t.blocks = With(s.blocks, k, chunk)
          /\ t.fresh = s.fresh /\ t.buf = s.buf
      BY <2>1, <2>2, SetBlockFields
    <2>6. /\ DOMAIN t.blocks = DOMAIN s.blocks /\ t.blocks[k] = chunk
          /\ \A x \in DOMAIN s.blocks : x # k => t.blocks[x] = s.blocks[x]
      <3>1. /\ DOMAIN t.blocks = DOMAIN s.blocks \cup {k} /\ t.blocks[k] = chunk
            /\ \A x \in DOMAIN s.blocks : x # k => t.blocks[x] = s.blocks[x]
        BY <2>5 DEF With
      <3> QED
        BY <2>4, <3>1
    <2>7. StoreOK(cfg, t)
      <3>1. ASSUME NEW x \in DOMAIN t.blocks
            PROVE  IsBlock(t.blocks[x]) /\ x[2] \in Nat /\ (cfg.versioning => x[2] < t.fresh)
        <4>1. IsBlock(s.blocks[x]) /\ x[2] \in Nat /\ (cfg.versioning => x[2] < s.fresh)
          BY <2>6 DEF StoreOK
        <4> QED
          BY <2>5, <2>6, <4>1
      <3> QED
        BY <2>5, <2>6, <3>1 DEF StoreOK
    <2>8. s.blocks[k] = ChunkData(s, i)
      BY <2>1 DEF ChunkData, BufferOK, SharedOK, k
    <2>9. Kept(cfg, s, t)
      BY <2>1, <2>6, <2>8 DEF Kept, SameBlocks
    <2>10. \A j \in DOMAIN s.chunks : j # i => t.blocks[s.chunks[j]] = s.blocks[s.chunks[j]]
      BY <2>2, <2>3, <2>6
    <2>11. \A j \in Nat : j # i => ChunkData(t, j) = ChunkData(s, j)
      BY <2>5, <2>10 DEF ChunkData
    <2>12. ChunkData(t, i) = ChunkData(s, i) \/ ChunkData(t, i) = chunk
      BY <2>1, <2>5, <2>6 DEF ChunkData, k
    <2>13. \A more : NoLeak(cfg, s, more) => NoLeak(cfg, t, more)
      BY <2>5, <2>6 DEF NoLeak
    <2>14. InPlace(cfg, s, i, chunk, t)
      BY <2>5, <2>7, <2>9, <2>10, <2>11, <2>12, <2>13 DEF InPlace
    <2> QED
      BY <2>1, <2>6, <2>14 DEF k
  <1> QED
    BY <1>1, <1>2

\* The bytes of a write that fall into a chunk.
LEMMA InPatchPart ==
    ASSUME NEW c, NEW s, NEW o, NEW f, InPatch(c, s, o, f)
    PROVE  PatchPart(s, o, f)
  BY DEF InPatch, PatchPart

LEMMA PartInPatch ==
    ASSUME NEW c, NEW s, NEW o, NEW f, PatchPart(s, o, f), s.mode = "chunked", s.size <= o.n,
           o.do = "pwrite", NoLeak(c, s, {}),
           \/ o.at = "direct" /\ ~c.buffering
           \/ o.at = "buffer" /\ c.buffering /\ s.buf.on
    PROVE  InPatch(c, s, o, f)
  BY DEF InPatch, PatchPart

LEMMA DirectChunkOK ==
    ASSUME IInv, DirectChunk
    PROVE  IInv'
  <1> DEFINE i == op.i
             chunk == Patched(st, i, op.off, op.data)
             k == makeBlockKey(st, i)
             u == PatchBlock(st, i, chunk)
             t == PutBlock(u, k, chunk)
             q == AtKey(op, "directKey", k)
  <1>1. op.at = "direct" /\ Goes(t, q)
    BY DEF DirectChunk, AtKey
  <1>2. /\ StoreOK(cfg, st) /\ OpOK(op) /\ CfgOK(cfg) /\ file \in Seq(Nat) /\ BufferOK(st)
        /\ i \in Nat
    BY DEF IInv, CfgOK, OpOK
  <1>3. InPatch(cfg, st, op, file)
    BY <1>1, PhaseAt DEF IInv
  <1>4. /\ PatchPart(st, op, file) /\ NoLeak(cfg, st, {}) /\ ~cfg.buffering /\ op.do = "pwrite"
        /\ st.mode = "chunked" /\ st.size <= op.n
    BY <1>1, <1>3, InPatchPart DEF InPatch
  <1>5. ~st.buf.on /\ DOMAIN st.buf.dirty = {}
    BY <1>2, <1>4 DEF StoreOK
  <1>6. chunk = Patched(st, op.i, op.off, op.data)
    OBVIOUS
  <1>7. OpIs(q, op.do, "directKey", op.data, op.off, op.n, op.i, k, op.keys, op.left, op.content)
    <2> HIDE DEF k
    <2> QED
      BY <1>2, OpAtKey
  <1>8. u = PatchBlock(st, i, chunk) /\ t = PutBlock(u, k, chunk) /\ k = makeBlockKey(st, i)
    OBVIOUS
  <1> HIDE DEF chunk, k, u, t, q
  <1>9. ChunkFits(op, file, chunk)
    BY <1>2, <1>4, <1>6, PatchedFacts
  <1> HIDE DEF i
  <1>10. IsBlock(chunk)
    BY <1>9 DEF ChunkFits
  <1>11. InPlace(cfg, st, i, chunk, u)
    BY <1>2, <1>8, <1>10, PatchBlockOK
  <1>12. StoreOK(cfg, u) /\ k = makeBlockKey(u, i)
    BY <1>8, <1>11 DEF InPlace, makeBlockKey
  <1>13. NewBlock(cfg, u, i, chunk, k, t)
    BY <1>2, <1>8, <1>10, <1>12, PutOK
  <1>14. /\ StoreOK(cfg, t) /\ KeyFor(cfg, k, i) /\ k \in DOMAIN t.blocks /\ t.blocks[k] = chunk
         /\ t.mode = "chunked" /\ t.size = st.size /\ ~t.buf.on
         /\ NoLeak(cfg, t, {k})
    BY <1>4, <1>5, <1>11, <1>13 DEF InPlace, NewBlock
  <1>15. cfg.versioning => Kept(cfg, st, t)
    BY <1>11, <1>13, KeptTrans DEF InPlace, NewBlock
  <1>16. \A j \in Nat : j # i => ChunkData(t, j) = ChunkData(st, j)
    BY <1>11, <1>13 DEF InPlace, NewBlock
  <1>17. ChunkData(t, i) = ChunkData(st, i) \/ ChunkData(t, i) = chunk
    BY <1>11, <1>13 DEF InPlace, NewBlock
  <1>18. PatchPart(t, op, file)
    BY <1>2, <1>4, <1>9, <1>16, <1>17, PatchStays DEF i
  <1>19. q.at = "directKey" /\ q.i = i /\ q.key = k /\ OpOK(q) /\ q.do = op.do
         /\ q.data = op.data /\ q.off = op.off /\ q.n = op.n
    BY <1>7 DEF OpIs, i
  <1>20. InPatch(cfg, t, q, file)
    <2>1. KeyReady(cfg, t, q)
      BY <1>14, <1>19 DEF KeyReady
    <2>2. /\ i * ChunkSize + Len(chunk) <= op.n
          /\ \A b \in 1 .. ChunkSize : At(chunk, b) = At(file, i * ChunkSize + b)
      BY <1>9 DEF ChunkFits, i
    <2>3. \A p : Outside(q, p) <=> Outside(op, p)
      BY <1>19 DEF Outside
    <2>4. PatchPart(t, q, file)
      BY <1>18, <1>19, <2>3 DEF PatchPart, i
    <2> QED
      BY <1>4, <1>14, <1>19, <2>1, <2>2, <2>4 DEF InPatch, PatchPart
  <1>21. Ready(cfg, t, q, file) /\ BufferOK(t) /\ op.at # "idle"
    BY <1>1, <1>14, <1>19, <1>20, NoShare DEF Ready, PhaseOK
  <1> QED
    BY <1>1, <1>14, <1>15, <1>21, StepsOK

LEMMA SetDirectKeyOK ==
    ASSUME IInv, SetDirectKey
    PROVE  IInv'
  <1> DEFINE i == op.i
             k == op.key
             t == setChunkKey(st, i, k)
             a == IF i < LastTouched(op) THEN "direct" ELSE "size"
             q == AtI(op, a, i + 1)
             u == SetSize(t, op.n)
  <1>1. op.at = "directKey" /\ Goes(t, q)
    BY DEF SetDirectKey, AtI
  <1>2. /\ StoreOK(cfg, st) /\ OpOK(op) /\ CfgOK(cfg) /\ file \in Seq(Nat) /\ BufferOK(st)
        /\ i \in Nat /\ op.n \in Nat
    BY DEF IInv, CfgOK, OpOK
  <1>3. InPatch(cfg, st, op, file)
    BY <1>1, PhaseAt DEF IInv
  <1>4. /\ PatchPart(st, op, file) /\ KeyReady(cfg, st, op) /\ ~cfg.buffering
        /\ op.do = "pwrite" /\ st.mode = "chunked" /\ st.size <= op.n /\ Len(file) = op.n
        /\ i * ChunkSize + Len(st.blocks[k]) <= op.n
        /\ \A b \in 1 .. ChunkSize : At(st.blocks[k], b) = At(file, i * ChunkSize + b)
    BY <1>1, <1>3, InPatchPart DEF InPatch
  <1>5. ~st.buf.on /\ DOMAIN st.buf.dirty = {}
    BY <1>2, <1>4 DEF StoreOK
  <1>6. OpIs(q, op.do, a, op.data, op.off, op.n, i + 1, op.key, op.keys, op.left, op.content)
    <2>1. i + 1 \in Nat
      BY <1>2
    <2> HIDE DEF i, a
    <2> QED
      BY <1>2, <2>1, OpAtI
  <1>7. k \in DOMAIN st.blocks /\ KeyFor(cfg, k, i) /\ NoLeak(cfg, st, {k})
    BY <1>4 DEF KeyReady
  <1>8. t = setChunkKey(st, i, k) /\ u = SetSize(t, op.n)
    OBVIOUS
  <1>9. /\ i < LastTouched(op) => a = "direct"
        /\ ~(i < LastTouched(op)) => a = "size"
    OBVIOUS
  <1>10. ChunkFits(op, file, st.blocks[k])
    BY <1>2, <1>4, <1>7 DEF ChunkFits, StoreOK
  <1> HIDE DEF i, k, t, a, q, u
  <1>11. NewKey(cfg, st, i, k, t)
    BY <1>2, <1>7, <1>8, KeyedOK
  <1>12. /\ StoreOK(cfg, t) /\ NoLeak(cfg, t, {}) /\ ~t.buf.on /\ Kept(cfg, st, t)
         /\ t.mode = "chunked" /\ t.size = st.size
         /\ ChunkData(t, i) = st.blocks[k]
         /\ \A j \in Nat : j # i => ChunkData(t, j) = ChunkData(st, j)
    BY <1>4, <1>5, <1>7, <1>11 DEF NewKey
  <1>13. /\ q.at = a /\ q.i = i + 1 /\ OpOK(q) /\ q.do = op.do
         /\ q.data = op.data /\ q.off = op.off /\ q.n = op.n
    BY <1>6 DEF OpIs
  <1>14. /\ i < LastTouched(op) => PatchPart(t, q, file)
         /\ ~(i < LastTouched(op)) => Within(t, op.n) /\ Holds(t, file)
    BY <1>2, <1>4, <1>10, <1>12, <1>13, PatchGoesOn DEF i
  <1>15. BufferOK(t) /\ op.at # "idle"
    BY <1>1, <1>12, NoShare
  <1>16. CASE i < LastTouched(op)
    <2>1. InPatch(cfg, t, q, file)
      BY <1>4, <1>9, <1>12, <1>13, <1>14, <1>16, PartInPatch
    <2>2. Ready(cfg, t, q, file)
      BY <1>9, <1>13, <1>16, <2>1 DEF Ready, PhaseOK
    <2> QED
      BY <1>1, <1>12, <1>15, <2>2, StepsOK
  <1>17. CASE ~(i < LastTouched(op))
    <2>1. NewInode(cfg, t, t.mode, t.inline, op.n, u)
      BY <1>2, <1>8, <1>12, SetSizeOK
    <2>2. u.mode = "chunked" /\ u.size = op.n /\ \A j \in Nat : ChunkData(u, j) = ChunkData(t, j)
      BY <1>12, <2>1 DEF NewInode
    <2>3. Within(u, op.n) /\ Holds(u, file)
      BY <1>14, <1>17, <2>2, SameData
    <2>4. Exact(u, file)
      BY <1>4, <2>2, <2>3 DEF Exact, AtRest
    <2>5. InSize(cfg, t, q, file)
      BY <1>8, <1>9, <1>12, <1>13, <1>17, <2>4 DEF InSize
    <2>6. Ready(cfg, t, q, file)
      BY <1>9, <1>13, <1>17, <2>5 DEF Ready, PhaseOK
    <2> QED
      BY <1>1, <1>12, <1>15, <2>6, StepsOK
  <1> QED
    BY <1>16, <1>17

----------------------------------------------------------------------------
(* Chunks are patched in the buffer *)

LEMMA OpenedOK ==
    ASSUME NEW c, NEW s, StoreOK(c, s), BufferOK(s), s.mode = "chunked", c.buffering,
           s.buf.on \/ Within(s, s.size), NEW t, t = Opened(s)
    PROVE  /\ StoreOK(c, t) /\ BufferOK(t) /\ t.buf.on
           /\ t.mode = s.mode /\ t.inline = s.inline /\ t.size = s.size
           /\ t.chunks = s.chunks /\ t.blocks = s.blocks
           /\ \A i \in Nat : ChunkData(t, i) = ChunkData(s, i)
           /\ NoLeak(c, s, {}) => NoLeak(c, t, {})
  <1>1. CASE s.buf.on
    <2>1. t = s
      BY <1>1 DEF Opened
    <2> QED
      BY <1>1, <2>1
  <1>2. CASE ~s.buf.on
    <2>1. /\ Shape(t) /\ t.mode = s.mode /\ t.inline = s.inline /\ t.size = s.size
          /\ t.chunks = s.chunks /\ t.blocks = s.blocks /\ t.fresh = s.fresh
          /\ t.buf.on = TRUE
          /\ DOMAIN t.buf.dirty = {} /\ t.buf.size = s.size /\ t.buf.shared = {}
      BY <1>2, OpenedFields DEF StoreOK
    <2>2. DOMAIN s.buf.dirty = {}
      BY <1>2 DEF StoreOK
    <2>3. StoreOK(c, t)
      BY <2>1 DEF StoreOK
    <2>4. BufferOK(t)
      <3>1. ASSUME NEW i \in DOMAIN s.chunks
            PROVE  i * ChunkSize + Len(s.blocks[s.chunks[i]]) <= s.size
        <4>1. i \in Nat
          BY DEF StoreOK
        <4>2. ChunkData(s, i) = s.blocks[s.chunks[i]] /\ ChunkData(s, i) # <<>>
          BY <2>2, <4>1, DataFacts
        <4> QED
          BY <1>2, <4>1, <4>2 DEF Within
      <3>2. SharedOK(t)
        BY <2>1 DEF SharedOK
      <3>3. UnderOK(t)
        BY <2>1, <3>1 DEF UnderOK
      <3> QED
        BY <3>2, <3>3 DEF BufferOK
    <2>5. \A i \in Nat : ChunkData(t, i) = ChunkData(s, i)
      BY <2>1, <2>2 DEF ChunkData
    <2>6. NoLeak(c, s, {}) => NoLeak(c, t, {})
      BY <2>1 DEF NoLeak
    <2> QED
      BY <2>1, <2>3, <2>4, <2>5, <2>6
  <1> QED
    BY <1>1, <1>2

Redirtied(s, dirty, shared) == [s EXCEPT !.buf.dirty = dirty, !.buf.shared = shared]

LEMMA RedirtiedFields ==
    ASSUME NEW s, Shape(s), NEW dirty, NEW shared
    PROVE  NewBuffer(s, s.buf.on, dirty, s.buf.size, shared, Redirtied(s, dirty, shared))
  <1> DEFINE a == [s EXCEPT !.buf.dirty = dirty]
             b == [a EXCEPT !.buf.shared = shared]
  <1>1. a = [mode |-> s.mode, inline |-> s.inline, size |-> s.size, chunks |-> s.chunks,
             blocks |-> s.blocks, fresh |-> s.fresh,
             buf |-> [on |-> s.buf.on, dirty |-> dirty, size |-> s.buf.size,
                      shared |-> s.buf.shared]]
    BY DEF Shape
  <1> HIDE DEF a
  <1>2. b = [mode |-> s.mode, inline |-> s.inline, size |-> s.size, chunks |-> s.chunks,
             blocks |-> s.blocks, fresh |-> s.fresh,
             buf |-> [on |-> s.buf.on, dirty |-> dirty, size |-> s.buf.size,
                      shared |-> shared]]
    BY <1>1
  <1>3. Redirtied(s, dirty, shared) = b
    BY DEF Redirtied, a
  <1> HIDE DEF b
  <1>4. b.buf.on = s.buf.on /\ b.buf.size = s.buf.size /\ b.buf.dirty = dirty
        /\ b.buf.shared = shared
    BY <1>2
  <1>5. Shape(b) /\ b.mode = s.mode /\ b.inline = s.inline /\ b.size = s.size
        /\ b.chunks = s.chunks /\ b.blocks = s.blocks /\ b.fresh = s.fresh
    BY <1>2 DEF Shape
  <1> QED
    BY <1>3, <1>4, <1>5 DEF NewBuffer

BothSizes(s, n) == [SetSize(s, n) EXCEPT !.buf.size = n]

NewSizes(s, n, t) ==
    /\ Shape(t) /\ t.mode = s.mode /\ t.inline = s.inline /\ t.size = n
    /\ t.chunks = s.chunks /\ t.blocks = s.blocks /\ t.fresh = s.fresh
    /\ t.buf.on = s.buf.on /\ t.buf.dirty = s.buf.dirty /\ t.buf.size = n
    /\ t.buf.shared = s.buf.shared

LEMMA BothSizesFields ==
    ASSUME NEW s, Shape(s), NEW n, NEW t, t = BothSizes(s, n)
    PROVE  NewSizes(s, n, t)
  <1> DEFINE a == SetSize(s, n)
  <1>1. a = [mode |-> s.mode, inline |-> s.inline, size |-> n, chunks |-> s.chunks,
             blocks |-> s.blocks, fresh |-> s.fresh, buf |-> s.buf]
    BY DEF Shape, SetSize
  <1>2. t = [a EXCEPT !.buf.size = n]
    BY DEF BothSizes
  <1> HIDE DEF a
  <1>3. t = [mode |-> s.mode, inline |-> s.inline, size |-> n, chunks |-> s.chunks,
             blocks |-> s.blocks, fresh |-> s.fresh,
             buf |-> [on |-> s.buf.on, dirty |-> s.buf.dirty, size |-> n,
                      shared |-> s.buf.shared]]
    BY <1>1, <1>2 DEF Shape
  <1>4. t.buf.on = s.buf.on /\ t.buf.size = n /\ t.buf.dirty = s.buf.dirty
        /\ t.buf.shared = s.buf.shared
    BY <1>3
  <1> QED
    BY <1>3, <1>4 DEF Shape, NewSizes

\* Chunk i is dirty, and is what was patched.
Dirtied(c, s, i, chunk, t) ==
    /\ StoreOK(c, t) /\ BufferOK(t) /\ t.buf.on
    /\ t.mode = s.mode /\ t.size = s.size
    /\ Kept(c, s, t)
    /\ \A j \in Nat : j # i => ChunkData(t, j) = ChunkData(s, j)
    /\ ChunkData(t, i) = chunk
    /\ NoLeak(c, s, {}) => NoLeak(c, t, {})

LEMMA BufferedOK ==
    ASSUME NEW s, StoreOK(cfg, s), BufferOK(s), s.buf.on, NEW i \in Nat, NEW off, NEW data,
           NEW chunk, chunk = Patched(s, i, off, data), IsBlock(chunk),
           NEW t, t = Buffered(s, i, off, data)
    PROVE  Dirtied(cfg, s, i, chunk, t)
  <1> DEFINE v == PatchBlock(s, i, chunk)
             dirty == With(v.buf.dirty, i, chunk)
             shared == IF PatchesBlock(s, i, chunk) THEN v.buf.shared \cup {i}
                       ELSE v.buf.shared \ {i}
  <1>1. t = Redirtied(v, dirty, shared)
    BY DEF Buffered, Redirtied
  <1>2. /\ InPlace(cfg, s, i, chunk, v)
        /\ PatchesBlock(s, i, chunk) =>
             i \in DOMAIN s.chunks /\ v.blocks[s.chunks[i]] = chunk
    BY PatchBlockOK
  <1> HIDE DEF v
  <1>3. DOMAIN dirty = DOMAIN v.buf.dirty \cup {i} /\ dirty[i] = chunk
        /\ \A j \in DOMAIN v.buf.dirty : j # i => dirty[j] = v.buf.dirty[j]
    BY DEF With
  <1>4. /\ i \in shared => PatchesBlock(s, i, chunk)
        /\ \A j \in shared : j # i => j \in v.buf.shared
        /\ shared \subseteq v.buf.shared \cup {i}
    OBVIOUS
  <1> HIDE DEF dirty, shared
  <1>5. /\ StoreOK(cfg, v) /\ v.mode = s.mode /\ v.inline = s.inline /\ v.size = s.size
        /\ v.chunks = s.chunks /\ v.buf = s.buf /\ Kept(cfg, s, v)
        /\ \A j \in DOMAIN s.chunks : j # i => v.blocks[s.chunks[j]] = s.blocks[s.chunks[j]]
        /\ \A j \in Nat : j # i => ChunkData(v, j) = ChunkData(s, j)
        /\ NoLeak(cfg, s, {}) => NoLeak(cfg, v, {})
    BY <1>2 DEF InPlace
  <1>6. NewBuffer(v, v.buf.on, dirty, v.buf.size, shared, t)
    BY <1>1, <1>5, RedirtiedFields DEF StoreOK
  <1>7. /\ Shape(t) /\ t.mode = v.mode /\ t.inline = v.inline /\ t.size = v.size
        /\ t.chunks = v.chunks /\ t.blocks = v.blocks /\ t.fresh = v.fresh
        /\ t.buf.on = v.buf.on /\ t.buf.dirty = dirty /\ t.buf.size = v.buf.size
        /\ t.buf.shared = shared
    BY <1>6 DEF NewBuffer
  <1>8. StoreOK(cfg, t)
    <2>1. /\ DOMAIN v.buf.dirty \subseteq Nat /\ v.buf.shared \subseteq DOMAIN v.buf.dirty
          /\ \A j \in DOMAIN v.buf.dirty : IsBlock(v.buf.dirty[j])
      BY <1>5 DEF StoreOK
    <2>2. /\ DOMAIN dirty \subseteq Nat /\ shared \subseteq DOMAIN dirty
          /\ \A j \in DOMAIN dirty : IsBlock(dirty[j])
      BY <1>3, <1>4, <2>1
    <2>3. v.buf.on
      BY <1>5
    <2> QED
      BY <1>5, <1>7, <2>2, <2>3 DEF StoreOK
  <1>14. UnderOK(t)
    <2>1. ASSUME NEW j \in DOMAIN s.chunks
          PROVE  j * ChunkSize + Len(v.blocks[s.chunks[j]]) <= s.size
      <3>1. s.chunks[j] \in DOMAIN s.blocks
        BY DEF StoreOK
      <3>2. Len(v.blocks[s.chunks[j]]) = Len(s.blocks[s.chunks[j]])
        BY <1>5, <3>1 DEF Kept, SameBlocks
      <3>3. j * ChunkSize + Len(s.blocks[s.chunks[j]]) <= s.size
        BY DEF BufferOK, UnderOK
      <3> QED
        BY <3>2, <3>3
    <2> QED
      BY <1>5, <1>7, <2>1 DEF UnderOK
  <1>9. SharedOK(t)
    <2> SUFFICES ASSUME NEW j \in shared
                 PROVE  j \in DOMAIN v.chunks /\ v.blocks[v.chunks[j]] = dirty[j]
      BY <1>7 DEF SharedOK
    <2>1. CASE j = i
      BY <1>2, <1>3, <1>4, <1>5, <2>1
    <2>2. CASE j # i
      <3>1. j \in s.buf.shared
        BY <1>4, <1>5, <2>2
      <3>2. j \in DOMAIN s.chunks /\ s.blocks[s.chunks[j]] = s.buf.dirty[j]
        BY <3>1 DEF BufferOK, SharedOK, UnderOK
      <3>3. j \in DOMAIN s.buf.dirty
        BY <3>1 DEF StoreOK
      <3> QED
        BY <1>3, <1>5, <2>2, <3>2, <3>3
    <2> QED
      BY <2>1, <2>2
  <1>10. \A j \in Nat : j # i => ChunkData(t, j) = ChunkData(s, j)
    <2>1. \A j \in Nat : j # i => ChunkData(t, j) = ChunkData(v, j)
      BY <1>3, <1>7 DEF ChunkData
    <2> QED
      BY <1>5, <2>1
  <1>11. ChunkData(t, i) = chunk
    BY <1>3, <1>7 DEF ChunkData
  <1>12. Kept(cfg, s, t)
    BY <1>5, <1>7, KeptSame, KeptTrans
  <1>13. NoLeak(cfg, s, {}) => NoLeak(cfg, t, {})
    BY <1>5, <1>7 DEF NoLeak
  <1> QED
    BY <1>5, <1>7, <1>8, <1>9, <1>10, <1>11, <1>12, <1>13, <1>14 DEF Dirtied, BufferOK

LEMMA BufferChunkOK ==
    ASSUME IInv, BufferChunk
    PROVE  IInv'
  <1> DEFINE i == op.i
             u == Opened(st)
             chunk == Patched(u, i, op.off, op.data)
             t == Buffered(u, i, op.off, op.data)
             w == BothSizes(t, op.n)
             q == [op EXCEPT !.i = i + 1]
             last == i >= LastTouched(op)
  <1>1. op.at = "buffer" /\ Goes(IF last THEN w ELSE t, IF last THEN NoOp ELSE q)
    BY DEF BufferChunk, BothSizes
  <1>2. /\ StoreOK(cfg, st) /\ OpOK(op) /\ CfgOK(cfg) /\ file \in Seq(Nat) /\ BufferOK(st)
        /\ i \in Nat /\ op.n \in Nat
    BY DEF IInv, CfgOK, OpOK
  <1>3. InPatch(cfg, st, op, file)
    BY <1>1, PhaseAt DEF IInv
  <1>4. /\ PatchPart(st, op, file) /\ NoLeak(cfg, st, {}) /\ cfg.buffering /\ op.do = "pwrite"
        /\ st.mode = "chunked" /\ st.size <= op.n /\ Len(file) = op.n
    BY <1>1, <1>3, InPatchPart DEF InPatch
  <1>5. OpIs(q, op.do, op.at, op.data, op.off, op.n, i + 1, op.key, op.keys, op.left, op.content)
    <2>1. i + 1 \in Nat
      BY <1>2
    <2> HIDE DEF i
    <2> QED
      BY <1>2, <2>1, OpI
  <1>6. /\ u = Opened(st) /\ chunk = Patched(u, i, op.off, op.data)
        /\ t = Buffered(u, i, op.off, op.data) /\ w = BothSizes(t, op.n)
    OBVIOUS
  <1>7. last <=> ~(i < LastTouched(op))
    <2>1. LastTouched(op) \in Nat
      <3> DEFINE x == op.off + Len(op.data) - 1
      <3>1. op.data \in Seq(Nat) /\ op.data # <<>> /\ op.off \in Nat
        BY <1>2, <1>4 DEF OpOK, PatchPart
      <3>2. Len(op.data) \in Nat /\ Len(op.data) # 0
        BY <3>1, EmptyFile
      <3>3. x \in Nat
        BY <3>1, <3>2
      <3>4. LastTouched(op) = x \div ChunkSize
        BY DEF LastTouched
      <3> HIDE DEF x
      <3> QED
        BY <3>3, <3>4, DivFacts
    <2> QED
      BY <1>2, <2>1
  <1> HIDE DEF u, chunk, t, w, q, last
  <1>8. /\ StoreOK(cfg, u) /\ BufferOK(u) /\ u.buf.on
        /\ u.mode = "chunked" /\ u.size = st.size /\ u.blocks = st.blocks
        /\ \A j \in Nat : ChunkData(u, j) = ChunkData(st, j)
        /\ NoLeak(cfg, u, {})
    <2>1. st.buf.on \/ Within(st, st.size)
      BY <1>1, <1>3 DEF InPatch
    <2> QED
      BY <1>2, <1>4, <1>6, <2>1, OpenedOK
  <1>9. PatchPart(u, op, file)
    <2>1. \A j \in Nat : \A b : Cell(u, j, b) = Cell(st, j, b)
      BY <1>8, SameData
    <2>2. Within(u, op.n)
      BY <1>4, <1>8, SameData DEF PatchPart
    <2> QED
      BY <1>4, <2>1, <2>2 DEF PatchPart
  <1>10. ChunkFits(op, file, chunk)
    BY <1>2, <1>6, <1>8, <1>9, PatchedFacts
  <1> HIDE DEF i
  <1>11. Dirtied(cfg, u, i, chunk, t)
    <2>1. IsBlock(chunk)
      BY <1>10 DEF ChunkFits
    <2> QED
      BY <1>2, <1>6, <1>8, <2>1, BufferedOK
  <1>12. /\ StoreOK(cfg, t) /\ BufferOK(t) /\ t.buf.on /\ t.mode = "chunked"
         /\ t.size = st.size /\ NoLeak(cfg, t, {}) /\ ChunkData(t, i) = chunk
         /\ \A j \in Nat : j # i => ChunkData(t, j) = ChunkData(u, j)
    BY <1>8, <1>11 DEF Dirtied
  <1>13. Kept(cfg, st, t)
    <2>1. Kept(cfg, st, u)
      BY <1>8, KeptSame
    <2>2. Kept(cfg, u, t)
      BY <1>11 DEF Dirtied
    <2> QED
      BY <2>1, <2>2, KeptTrans
  <1>14. /\ q.at = "buffer" /\ q.i = i + 1 /\ OpOK(q) /\ q.do = op.do
         /\ q.data = op.data /\ q.off = op.off /\ q.n = op.n
    BY <1>1, <1>5 DEF OpIs
  <1>15. /\ i < LastTouched(op) => PatchPart(t, q, file)
         /\ ~(i < LastTouched(op)) => Within(t, op.n) /\ Holds(t, file)
    BY <1>2, <1>9, <1>10, <1>12, <1>14, PatchGoesOn DEF i
  <1>16. op.at # "idle"
    BY <1>1
  <1>17. CASE ~last
    <2>1. i < LastTouched(op) /\ Goes(t, q)
      BY <1>1, <1>7, <1>17
    <2>2. InPatch(cfg, t, q, file)
      BY <1>4, <1>12, <1>14, <1>15, <2>1, PartInPatch
    <2>3. Ready(cfg, t, q, file)
      BY <1>14, <2>2 DEF Ready, PhaseOK
    <2> QED
      BY <1>12, <1>13, <1>16, <2>1, <2>3, StepsOK
  <1>18. CASE last
    <2>1. Within(t, op.n) /\ Holds(t, file) /\ Goes(w, NoOp)
      BY <1>1, <1>7, <1>15, <1>18
    <2>2. /\ Shape(w) /\ w.mode = t.mode /\ w.inline = t.inline /\ w.size = op.n
          /\ w.chunks = t.chunks /\ w.blocks = t.blocks /\ w.fresh = t.fresh
          /\ w.buf.on = t.buf.on /\ w.buf.dirty = t.buf.dirty /\ w.buf.size = op.n
          /\ w.buf.shared = t.buf.shared
      <3>1. Shape(t) /\ w = BothSizes(t, op.n)
        BY <1>6, <1>12 DEF StoreOK
      <3>2. NewSizes(t, op.n, w)
        BY <3>1, BothSizesFields
      <3> QED
        BY <3>2 DEF NewSizes
    <2>3. StoreOK(cfg, w)
      BY <1>2, <1>12, <2>2 DEF StoreOK
    <2>4. BufferOK(w)
      <3>1. SharedOK(w)
        BY <1>12, <2>2 DEF BufferOK, SharedOK
      <3>2. ASSUME NEW j \in DOMAIN t.chunks
            PROVE  j * ChunkSize + Len(t.blocks[t.chunks[j]]) <= op.n
        <4> DEFINE e == j * ChunkSize + Len(t.blocks[t.chunks[j]])
        <4>1. j \in Nat /\ IsBlock(t.blocks[t.chunks[j]]) /\ st.size \in Nat
          BY <1>2, <1>12 DEF StoreOK
        <4>2. e \in Nat
          <5>1. j * ChunkSize \in Nat
            BY ONLY <4>1, ChunkOrder
          <5>2. Len(t.blocks[t.chunks[j]]) \in Nat
            BY ONLY <4>1 DEF IsBlock
          <5> QED
            BY ONLY <5>1, <5>2
        <4>3. e <= st.size
          BY <1>12 DEF BufferOK, UnderOK
        <4> HIDE DEF e
        <4>4. e <= op.n
          BY <1>2, <1>4, <4>1, <4>2, <4>3
        <4> QED
          BY <4>4 DEF e
      <3>3. UnderOK(w)
        BY <2>2, <3>2 DEF UnderOK
      <3> QED
        BY <3>1, <3>3 DEF BufferOK
    <2>5. \A j \in Nat : ChunkData(w, j) = ChunkData(t, j)
      BY <2>2 DEF ChunkData
    <2>6. Within(w, op.n) /\ Holds(w, file)
      BY <2>1, <2>5, SameData
    <2>7. Exact(w, file)
      BY <1>4, <1>12, <2>2, <2>6 DEF Exact, AtRest
    <2>8. NoLeak(cfg, w, {})
      BY <1>12, <2>2 DEF NoLeak
    <2>9. Ready(cfg, w, NoOp, file)
      BY <2>7, <2>8, ReadyIdle
    <2>10. Kept(cfg, st, w)
      BY <1>13, <2>2, KeptSame, KeptTrans
    <2> QED
      BY <1>16, <2>1, <2>3, <2>4, <2>9, <2>10, StepsOK
  <1> QED
    BY <1>17, <1>18

----------------------------------------------------------------------------
(* The last chunk is cut *)

LEMMA CutLastOK ==
    ASSUME IInv, CutLast
    PROVE  IInv'
  <1> DEFINE i == op.i
             n == op.n
             r == n % ChunkSize
             b == st.blocks[st.chunks[i]]
             d == SubSeq(b, 1, r)
             k == makeBlockKey(st, i)
             t == PutBlock(st, k, d)
             q == AtKey(op, "cutKey", k)
  <1>1. op.at = "cut" /\ Goes(t, q)
    <2>1. op.at = "cut"
      BY DEF CutLast
    <2>2. op.data = d
      BY <2>1, PhaseAt DEF IInv, InCut
    <2> QED
      BY <2>2 DEF CutLast, AtKey
  <1>2. /\ StoreOK(cfg, st) /\ OpOK(op) /\ CfgOK(cfg) /\ file \in Seq(Nat) /\ BufferOK(st)
        /\ i \in Nat /\ n \in Nat
    BY DEF IInv, CfgOK, OpOK
  <1>3. InCut(cfg, st, op, file)
    BY <1>1, PhaseAt DEF IInv
  <1>4. /\ ~st.buf.on /\ Shrunk(st, op, file) /\ Len(file) = n /\ n > 0
        /\ i = (n - 1) \div ChunkSize /\ r > 0 /\ NoLeak(cfg, st, {}) /\ i \in DOMAIN st.chunks
        /\ Len(b) > r
    BY <1>1, <1>3 DEF InCut
  <1>5. /\ r \in Nat /\ r < ChunkSize /\ i * ChunkSize \in Nat /\ n = i * ChunkSize + r
    BY <1>2, <1>4, LastByte
  <1>6. /\ op.do = "shrink" /\ n < st.size /\ st.mode = "chunked" /\ Upto(st, file, n)
        /\ \A j \in DOMAIN st.chunks : j * ChunkSize < n
    BY <1>4 DEF Shrunk
  <1>7. OpIs(q, op.do, "cutKey", op.data, op.off, op.n, op.i, k, op.keys, op.left, op.content)
    <2> HIDE DEF k
    <2> QED
      BY <1>2, OpAtKey
  <1>8. /\ k = makeBlockKey(st, i) /\ t = PutBlock(st, k, d) /\ d = SubSeq(b, 1, r)
        /\ r = n % ChunkSize
    OBVIOUS
  <1>9. DOMAIN st.buf.dirty = {} /\ IsBlock(b)
    BY <1>2, <1>4 DEF StoreOK
  <1>10. ChunkData(st, i) = b
    BY <1>4, <1>9 DEF ChunkData
  <1> HIDE DEF r, b, d, k, t, q
  <1>11. d \in Seq(Nat) /\ Len(d) = r /\ \A p \in 1 .. r : d[p] = b[p]
    <2>1. b \in Seq(Nat) /\ r <= Len(b) /\ 0 <= r /\ 0 \in Nat
      BY <1>4, <1>5, <1>9 DEF IsBlock
    <2>2. /\ SubSeq(b, 0 + 1, r) \in Seq(Nat) /\ Len(SubSeq(b, 0 + 1, r)) = r - 0
          /\ \A p \in 1 .. r - 0 : SubSeq(b, 0 + 1, r)[p] = b[0 + p]
      BY <1>5, <2>1, PieceFacts
    <2>3. 0 + 1 = 1 /\ r - 0 = r /\ \A p \in 1 .. r : 0 + p = p
      BY <1>5
    <2> QED
      BY <1>8, <2>2, <2>3
  <1>12. IsBlock(d)
    BY <1>4, <1>5, <1>11, Sizes DEF IsBlock
  <1>13. NewBlock(cfg, st, i, d, k, t)
    BY <1>2, <1>8, <1>12, PutOK
  <1>14. /\ StoreOK(cfg, t) /\ KeyFor(cfg, k, i) /\ k \in DOMAIN t.blocks /\ t.blocks[k] = d
         /\ t.mode = "chunked" /\ t.size = st.size /\ t.chunks = st.chunks /\ ~t.buf.on
         /\ NoLeak(cfg, t, {k}) /\ (cfg.versioning => Kept(cfg, st, t))
         /\ \A j \in Nat : j # i => ChunkData(t, j) = ChunkData(st, j)
         /\ ChunkData(t, i) = b \/ ChunkData(t, i) = d
    BY <1>4, <1>6, <1>10, <1>13 DEF NewBlock
  <1>15. \A p \in 1 .. r : At(d, p) = At(b, p)
    <2>1. \A p \in 1 .. r : p <= Len(d) /\ p <= Len(b)
      BY <1>4, <1>5, <1>9, <1>11 DEF IsBlock
    <2> QED
      BY <1>11, <2>1 DEF At
  <1>16. \A p \in 1 .. r : At(b, p) = At(file, i * ChunkSize + p)
    <2> SUFFICES ASSUME NEW p \in 1 .. r PROVE At(b, p) = At(file, i * ChunkSize + p)
      OBVIOUS
    <2>1. p \in 1 .. ChunkSize
      BY <1>5, Sizes
    <2>2. i * ChunkSize + p <= n
      <3> DEFINE m == i * ChunkSize
      <3>1. m \in Nat /\ n = m + r
        BY <1>5
      <3> HIDE DEF m
      <3>2. m + p <= n
        BY <1>5, <3>1
      <3> QED
        BY <3>2 DEF m
    <2>3. Cell(st, i, p) = At(file, i * ChunkSize + p)
      BY <1>2, <1>6, <2>1, <2>2 DEF Upto
    <2> QED
      BY <1>10, <2>3 DEF Cell
  <1>17. Upto(t, file, n)
    <2> SUFFICES ASSUME NEW j \in Nat, NEW p \in 1 .. ChunkSize, j * ChunkSize + p <= n
                 PROVE  Cell(t, j, p) = At(file, j * ChunkSize + p)
      BY DEF Upto
    <2>1. Cell(st, j, p) = At(file, j * ChunkSize + p)
      BY <1>6 DEF Upto
    <2>2. CASE ChunkData(t, j) = ChunkData(st, j)
      BY <2>1, <2>2 DEF Cell
    <2>3. CASE j = i /\ ChunkData(t, j) = d
      <3> DEFINE m == i * ChunkSize
      <3>1. m \in Nat /\ n = m + r /\ m + p <= n
        BY <1>5, <2>3
      <3> HIDE DEF m
      <3>2. p \in 1 .. r
        BY <1>5, <3>1, Sizes
      <3> QED
        BY <1>15, <1>16, <2>3, <3>2 DEF Cell
    <2> QED
      BY <1>10, <1>14, <2>2, <2>3
  <1>18. q.at = "cutKey" /\ q.i = i /\ q.key = k /\ OpOK(q) /\ q.do = op.do /\ q.n = n
    BY <1>7 DEF OpIs
  <1>19. Shrunk(t, q, file)
    BY <1>6, <1>14, <1>17, <1>18 DEF Shrunk
  <1>20. KeyReady(cfg, t, q)
    BY <1>14, <1>18 DEF KeyReady
  <1>21. \A p \in 1 .. r : d[p] = At(file, i * ChunkSize + p)
    <2>1. \A p \in 1 .. r : At(d, p) = d[p]
      BY <1>5, <1>11 DEF At
    <2> QED
      BY <1>15, <1>16, <2>1
  <1>22. InCut(cfg, t, q, file)
    <2>1. q.n % ChunkSize = r
      BY <1>8, <1>18
    <2>2. /\ Len(t.blocks[q.key]) = q.n % ChunkSize
          /\ \A p \in 1 .. q.n % ChunkSize : t.blocks[q.key][p] = At(file, q.i * ChunkSize + p)
      BY <1>11, <1>14, <1>18, <1>21, <2>1
    <2>3. q.n > 0 /\ q.i = (q.n - 1) \div ChunkSize /\ q.n % ChunkSize > 0 /\ Len(file) = q.n
      BY <1>4, <1>18, <2>1
    <2>4. ~t.buf.on /\ q.at = "cutKey"
      BY <1>14, <1>18
    <2> QED
      BY <1>19, <1>20, <2>2, <2>3, <2>4 DEF InCut
  <1>23. Ready(cfg, t, q, file) /\ BufferOK(t) /\ op.at # "idle"
    BY <1>1, <1>14, <1>18, <1>22, NoShare DEF Ready, PhaseOK
  <1> QED
    BY <1>1, <1>14, <1>23, StepsOK

LEMMA SetCutKeyOK ==
    ASSUME IInv, SetCutKey
    PROVE  IInv'
  <1> DEFINE i == op.i
             n == op.n
             r == n % ChunkSize
             k == op.key
             b == st.blocks[k]
             t == setChunkKey(st, i, k)
  <1>1. op.at = "cutKey" /\ Goes(t, Trimmed(t, op))
    <2>1. op.at = "cutKey"
      BY DEF SetCutKey
    <2>2. /\ StoreOK(cfg, st) /\ CfgOK(cfg) /\ i \in Nat /\ k \in DOMAIN st.blocks
          /\ KeyFor(cfg, k, i)
      BY <2>1, PhaseAt DEF IInv, CfgOK, OpOK, InCut, KeyReady
    <2>3. t = setChunkKey(st, i, k)
      OBVIOUS
    <2> HIDE DEF i, k, t
    <2>4. NewKey(cfg, st, i, k, t)
      BY <2>2, <2>3, KeyedOK
    <2>5. Keys(t.chunks) \subseteq DOMAIN t.blocks
      BY <2>4 DEF NewKey, StoreOK, Keys
    <2> QED
      BY <2>5 DEF SetCutKey, i, k, t
  <1>2. /\ StoreOK(cfg, st) /\ OpOK(op) /\ CfgOK(cfg) /\ file \in Seq(Nat)
        /\ i \in Nat /\ n \in Nat
    BY DEF IInv, CfgOK, OpOK
  <1>3. InCut(cfg, st, op, file)
    BY <1>1, PhaseAt DEF IInv
  <1>4. /\ ~st.buf.on /\ Shrunk(st, op, file) /\ Len(file) = n /\ n > 0
        /\ i = (n - 1) \div ChunkSize /\ r > 0 /\ KeyReady(cfg, st, op)
        /\ Len(b) = r /\ \A p \in 1 .. r : b[p] = At(file, i * ChunkSize + p)
    BY <1>1, <1>3 DEF InCut
  <1>5. /\ r \in Nat /\ r < ChunkSize /\ i * ChunkSize \in Nat /\ n = i * ChunkSize + r
        /\ i * ChunkSize < n
    BY <1>2, <1>4, LastByte
  <1>6. /\ op.do = "shrink" /\ n < st.size /\ st.mode = "chunked" /\ Upto(st, file, n)
        /\ \A j \in DOMAIN st.chunks : j * ChunkSize < n
    BY <1>4 DEF Shrunk
  <1>7. /\ k \in DOMAIN st.blocks /\ KeyFor(cfg, k, i) /\ NoLeak(cfg, st, {k})
        /\ t = setChunkKey(st, i, k) /\ r = n % ChunkSize
    BY <1>4 DEF KeyReady
  <1>8. DOMAIN st.buf.dirty = {}
    BY <1>2, <1>4 DEF StoreOK
  <1> HIDE DEF t, r
  <1>9. NewKey(cfg, st, i, k, t)
    BY <1>2, <1>7, KeyedOK
  <1>10. /\ StoreOK(cfg, t) /\ ~t.buf.on /\ t.mode = "chunked" /\ t.size = st.size
         /\ NoLeak(cfg, t, {}) /\ Kept(cfg, st, t) /\ t.blocks = st.blocks
         /\ DOMAIN t.chunks = DOMAIN st.chunks \cup {i} /\ t.chunks[i] = k
         /\ \A j \in Nat : j # i => ChunkData(t, j) = ChunkData(st, j)
         /\ ChunkData(t, i) = b
    BY <1>4, <1>6, <1>7, <1>8, <1>9 DEF NewKey
  <1> HIDE DEF b
  <1>11. Upto(t, file, n)
    <2> SUFFICES ASSUME NEW j \in Nat, NEW p \in 1 .. ChunkSize, j * ChunkSize + p <= n
                 PROVE  Cell(t, j, p) = At(file, j * ChunkSize + p)
      BY DEF Upto
    <2>1. CASE j # i
      <3>1. Cell(st, j, p) = At(file, j * ChunkSize + p)
        BY <1>6 DEF Upto
      <3> QED
        BY <1>10, <2>1, <3>1 DEF Cell
    <2>2. CASE j = i
      <3> DEFINE m == i * ChunkSize
      <3>1. m \in Nat /\ n = m + r /\ m + p <= n
        BY <1>5, <2>2
      <3> HIDE DEF m
      <3>2. p \in 1 .. r
        BY <1>5, <3>1, Sizes
      <3>3. At(b, p) = b[p]
        BY <1>4, <1>5, <3>2 DEF At
      <3> QED
        BY <1>4, <1>10, <2>2, <3>2, <3>3 DEF Cell
    <2> QED
      BY <2>1, <2>2
  <1>12. Shrunk(t, op, file)
    <2>1. \A j \in DOMAIN t.chunks : j * ChunkSize < n
      BY <1>5, <1>6, <1>10
    <2> QED
      BY <1>6, <1>10, <1>11, <2>1 DEF Shrunk
  <1>13. ~NeedsCut(t, n)
    <2>1. Len(t.blocks[t.chunks[i]]) = r
      BY <1>4, <1>10 DEF b
    <2>2. ~(r > r)
      BY <1>5
    <2> QED
      BY <1>4, <1>7, <2>1, <2>2 DEF NeedsCut
  <1>14. Ready(cfg, t, Trimmed(t, op), file)
    BY <1>2, <1>4, <1>10, <1>12, <1>13, TrimmedOK
  <1>15. BufferOK(t) /\ op.at # "idle"
    BY <1>1, <1>10, NoShare
  <1> QED
    BY <1>1, <1>10, <1>14, <1>15, StepsOK

----------------------------------------------------------------------------
(* Dirty chunks are flushed *)

\* What is due of a flush depends on the bytes only.
FlushPart(c, s, o, f) ==
    /\ s.buf.on /\ Within(s, s.size) /\ Len(f) = o.n
    /\ \/ o.do \in {"fsync", "version"} /\ o.n = s.size /\ Holds(s, f)
       \/ o.do = "shrink" /\ o.n < s.size /\ Upto(s, f, o.n)
       \/ o.do = "grow" /\ o.n > s.size /\ Holds(s, f)
    /\ o.do = "version" => c.versioning

\* A flush goes on while every chunk reads as before.
LEMMA SameFlush ==
    ASSUME NEW c, NEW s, NEW o, NEW f, FlushPart(c, s, o, f), NEW t, NEW q,
           \A j \in Nat : ChunkData(t, j) = ChunkData(s, j),
           t.buf = s.buf, t.size = s.size, q.do = o.do, q.n = o.n
    PROVE  FlushPart(c, t, q, f)
  <1>1. /\ \A n : Within(s, n) => Within(t, n)
        /\ \A g : Holds(s, g) => Holds(t, g)
        /\ \A g, n : Upto(s, g, n) => Upto(t, g, n)
    BY SameData
  <1> QED
    BY <1>1 DEF FlushPart

FlushedBut(s, left) ==
    \A j \in DOMAIN s.buf.dirty \ left :
        j \in DOMAIN s.chunks /\ s.blocks[s.chunks[j]] = s.buf.dirty[j]

LEMMA FlushChunkOK ==
    ASSUME IInv, NEW i \in op.left, FlushChunk(i)
    PROVE  IInv'
  <1> DEFINE d == st.buf.dirty[i]
             k == makeBlockKey(st, i)
             t == PutBlock(st, k, d)
             q == AtIKey(op, "flushKey", i, k)
  <1>1. op.at = "flush" /\ Goes(t, q)
    BY DEF FlushChunk, AtIKey
  <1>2. StoreOK(cfg, st) /\ OpOK(op) /\ CfgOK(cfg) /\ file \in Seq(Nat) /\ BufferOK(st)
    BY DEF IInv, CfgOK
  <1>3. InFlush(cfg, st, op, file)
    BY <1>1, PhaseAt DEF IInv
  <1>4. /\ FlushPart(cfg, st, op, file) /\ op.left \subseteq DOMAIN st.buf.dirty
        /\ FlushedBut(st, op.left) /\ NoLeak(cfg, st, {})
    BY <1>1, <1>3 DEF InFlush, FlushPart, FlushedBut
  <1>5. i \in DOMAIN st.buf.dirty /\ i \in Nat /\ IsBlock(d)
    BY <1>2, <1>4 DEF StoreOK
  <1>6. OpIs(q, op.do, "flushKey", op.data, op.off, op.n, i, k, op.keys, op.left, op.content)
    <2> HIDE DEF k
    <2> QED
      BY <1>2, <1>5, OpAtIKey
  <1>7. k = makeBlockKey(st, i) /\ t = PutBlock(st, k, d) /\ d = st.buf.dirty[i]
    OBVIOUS
  <1> HIDE DEF d, k, t, q
  <1>8. NewBlock(cfg, st, i, d, k, t)
    BY <1>2, <1>5, <1>7, PutOK
  <1>9. /\ StoreOK(cfg, t) /\ KeyFor(cfg, k, i) /\ k \in DOMAIN t.blocks /\ t.blocks[k] = d
        /\ t.size = st.size /\ t.chunks = st.chunks /\ t.buf = st.buf
        /\ NoLeak(cfg, t, {k}) /\ (cfg.versioning => Kept(cfg, st, t))
        /\ \A j \in DOMAIN st.chunks : j # i => t.blocks[st.chunks[j]] = st.blocks[st.chunks[j]]
        /\ BufferOK(t)
    <2>1. FitsUnder(st, i, d)
      <3>1. Within(st, st.size)
        BY <1>4 DEF FlushPart
      <3>2. ChunkData(st, i) = d /\ ChunkData(st, i) # <<>>
        BY <1>2, <1>5, <1>7, DataFacts
      <3> QED
        BY <1>5, <3>1, <3>2 DEF FitsUnder, Within
    <2> QED
      BY <1>2, <1>4, <1>7, <1>8, <2>1 DEF NewBlock
  <1>10. \A j \in Nat : ChunkData(t, j) = ChunkData(st, j)
    BY <1>5, <1>8 DEF NewBlock
  <1>11. /\ q.at = "flushKey" /\ q.i = i /\ q.key = k /\ OpOK(q) /\ q.do = op.do
         /\ q.n = op.n /\ q.left = op.left
    BY <1>6 DEF OpIs
  <1>12. FlushPart(cfg, t, q, file)
    BY <1>4, <1>9, <1>10, <1>11, SameFlush
  <1>13. FlushedBut(t, q.left)
    BY <1>4, <1>9, <1>11 DEF FlushedBut
  <1>14. KeyReady(cfg, t, q)
    BY <1>9, <1>11 DEF KeyReady
  <1>15. InFlush(cfg, t, q, file)
    <2>1. /\ q.i \in q.left /\ q.left \subseteq DOMAIN t.buf.dirty
          /\ t.blocks[q.key] = t.buf.dirty[q.i] /\ q.at = "flushKey"
      BY <1>4, <1>7, <1>9, <1>11
    <2> QED
      BY <1>12, <1>13, <1>14, <2>1 DEF InFlush, FlushPart, FlushedBut
  <1>16. Ready(cfg, t, q, file) /\ op.at # "idle"
    BY <1>1, <1>11, <1>15 DEF Ready, PhaseOK
  <1> QED
    BY <1>1, <1>9, <1>16, StepsOK

LEMMA SetFlushKeyOK ==
    ASSUME IInv, SetFlushKey
    PROVE  IInv'
  <1> DEFINE i == op.i
             k == op.key
             left == op.left \ {i}
             a == IF op.left = {i} THEN "flushed" ELSE "flush"
             t == setChunkKey(st, i, k)
             q == AtLeft(op, a, left)
  <1>1. op.at = "flushKey" /\ Goes(t, q)
    BY DEF SetFlushKey, AtLeft
  <1>2. /\ StoreOK(cfg, st) /\ OpOK(op) /\ CfgOK(cfg) /\ file \in Seq(Nat) /\ BufferOK(st)
        /\ i \in Nat
    BY DEF IInv, CfgOK, OpOK
  <1>3. InFlush(cfg, st, op, file)
    BY <1>1, PhaseAt DEF IInv
  <1>4. /\ FlushPart(cfg, st, op, file) /\ op.left \subseteq DOMAIN st.buf.dirty
        /\ FlushedBut(st, op.left) /\ i \in op.left /\ KeyReady(cfg, st, op)
        /\ st.blocks[k] = st.buf.dirty[i]
    BY <1>1, <1>3 DEF InFlush, FlushPart, FlushedBut
  <1>5. OpIs(q, op.do, a, op.data, op.off, op.n, op.i, op.key, op.keys, left, op.content)
    <2> HIDE DEF a, left
    <2> QED
      BY <1>2, OpAtLeft
  <1>6. /\ k \in DOMAIN st.blocks /\ KeyFor(cfg, k, i) /\ NoLeak(cfg, st, {k})
        /\ t = setChunkKey(st, i, k)
    BY <1>4 DEF KeyReady
  <1>7. a \in {"flush", "flushed"} /\ (a = "flushed" => left = {}) /\ left = op.left \ {i}
    OBVIOUS
  <1> HIDE DEF i, k, left, a, t, q
  <1>8. NewKey(cfg, st, i, k, t)
    BY <1>2, <1>6, KeyedOK
  <1>9. /\ StoreOK(cfg, t) /\ t.size = st.size /\ t.buf = st.buf /\ t.blocks = st.blocks
        /\ NoLeak(cfg, t, {}) /\ Kept(cfg, st, t) /\ BufferOK(t)
        /\ DOMAIN t.chunks = DOMAIN st.chunks \cup {i} /\ t.chunks[i] = k
        /\ \A j \in DOMAIN st.chunks : j # i => t.chunks[j] = st.chunks[j]
    <2>1. FitsUnder(st, i, st.blocks[k])
      <3>1. Within(st, st.size) /\ i \in DOMAIN st.buf.dirty
        BY <1>4 DEF FlushPart
      <3>2. ChunkData(st, i) = st.blocks[k] /\ ChunkData(st, i) # <<>>
        BY <1>2, <1>4, <3>1, DataFacts
      <3> QED
        BY <1>2, <3>1, <3>2 DEF FitsUnder, Within
    <2> QED
      BY <1>2, <1>4, <1>6, <1>8, <2>1 DEF NewKey
  <1>10. \A j \in Nat : ChunkData(t, j) = ChunkData(st, j)
    BY <1>4, <1>8 DEF NewKey
  <1>11. q.at = a /\ OpOK(q) /\ q.do = op.do /\ q.n = op.n /\ q.left = left
    BY <1>5 DEF OpIs
  <1>12. FlushPart(cfg, t, q, file)
    BY <1>4, <1>9, <1>10, <1>11, SameFlush
  <1>13. FlushedBut(t, left)
    <2> SUFFICES ASSUME NEW j \in DOMAIN st.buf.dirty \ left
                 PROVE  j \in DOMAIN t.chunks /\ t.blocks[t.chunks[j]] = t.buf.dirty[j]
      BY <1>9 DEF FlushedBut
    <2>1. CASE j = i
      BY <1>4, <1>9, <2>1
    <2>2. CASE j # i
      <3>1. j \in DOMAIN st.buf.dirty \ op.left
        BY <1>7, <2>2
      <3>2. j \in DOMAIN st.chunks /\ st.blocks[st.chunks[j]] = st.buf.dirty[j]
        BY <1>4, <3>1 DEF FlushedBut
      <3> QED
        BY <1>9, <2>2, <3>2
    <2> QED
      BY <2>1, <2>2
  <1>14. InFlush(cfg, t, q, file)
    <2>1. left \subseteq DOMAIN t.buf.dirty
      BY <1>4, <1>7, <1>9
    <2> QED
      BY <1>7, <1>9, <1>11, <1>12, <1>13, <2>1 DEF InFlush, FlushPart, FlushedBut
  <1>15. Ready(cfg, t, q, file) /\ op.at # "idle"
    BY <1>1, <1>7, <1>11, <1>14 DEF Ready, PhaseOK
  <1> QED
    BY <1>1, <1>9, <1>15, StepsOK

\* The buffer is clean: its chunks are in their blocks.
LEMMA CleanBufferOK ==
    ASSUME NEW c, NEW s, StoreOK(c, s), BufferOK(s), FlushedBut(s, {}),
           NEW t, t = CleanBuffer(s)
    PROVE  /\ StoreOK(c, t) /\ BufferOK(t) /\ t.mode = s.mode /\ t.size = s.size
           /\ t.chunks = s.chunks /\ t.blocks = s.blocks /\ DOMAIN t.buf.dirty = {}
           /\ \A j \in Nat : ChunkData(t, j) = ChunkData(s, j)
  <1>1. /\ Shape(t) /\ t.mode = s.mode /\ t.inline = s.inline /\ t.size = s.size
        /\ t.chunks = s.chunks /\ t.blocks = s.blocks /\ t.fresh = s.fresh
        /\ t.buf.on = s.buf.on /\ DOMAIN t.buf.dirty = {} /\ t.buf.size = s.buf.size
        /\ t.buf.shared = {}
    BY CleanBufferFields DEF StoreOK
  <1>2. StoreOK(c, t)
    BY <1>1 DEF StoreOK
  <1>3. BufferOK(t)
    BY <1>1 DEF BufferOK, SharedOK, UnderOK
  <1>4. \A j \in Nat : ChunkData(t, j) = ChunkData(s, j)
    BY <1>1 DEF ChunkData, FlushedBut
  <1> QED
    BY <1>1, <1>2, <1>3, <1>4

\* A file that has been flushed holds what it should.
LEMMA FlushedHolds ==
    ASSUME NEW s, NEW o, NEW f, FlushPart(cfg, s, o, f), o.do \in {"fsync", "version"},
           StoreOK(cfg, s), BufferOK(s), FlushedBut(s, {}), NoLeak(cfg, s, {}),
           NEW t, t = CleanBuffer(s)
    PROVE  /\ StoreOK(cfg, t) /\ BufferOK(t) /\ Exact(t, f) /\ NoLeak(cfg, t, {})
           /\ DOMAIN t.buf.dirty = {} /\ t.blocks = s.blocks
  <1>1. /\ StoreOK(cfg, t) /\ BufferOK(t) /\ t.mode = s.mode /\ t.size = s.size
        /\ t.chunks = s.chunks /\ t.blocks = s.blocks /\ DOMAIN t.buf.dirty = {}
        /\ \A j \in Nat : ChunkData(t, j) = ChunkData(s, j)
    BY CleanBufferOK
  <1>2. Len(f) = s.size /\ Within(s, s.size) /\ Holds(s, f) /\ s.buf.on
    BY DEF FlushPart
  <1>3. s.mode = "chunked"
    BY <1>2 DEF StoreOK
  <1>4. Within(t, s.size) /\ Holds(t, f)
    BY <1>1, <1>2, SameData
  <1>5. Exact(t, f)
    BY <1>1, <1>2, <1>3, <1>4 DEF Exact, AtRest
  <1>6. NoLeak(cfg, t, {})
    BY <1>1 DEF NoLeak
  <1> QED
    BY <1>1, <1>5, <1>6

\* Once all is flushed, the blocks alone hold the file.
LEMMA FlushedFacts ==
    ASSUME IInv, op.at = "flushed"
    PROVE  FlushPart(cfg, st, op, file) /\ FlushedBut(st, {}) /\ NoLeak(cfg, st, {})
  <1>1. InFlush(cfg, st, op, file)
    BY PhaseAt DEF IInv
  <1> QED
    BY <1>1 DEF InFlush, FlushPart, FlushedBut

LEMMA FlushedOK ==
    ASSUME IInv, Flushed
    PROVE  IInv'
  <1>1. op.at = "flushed" /\ op.do # "version" /\ op.at # "idle"
    BY DEF Flushed
  <1>2. StoreOK(cfg, st) /\ OpOK(op) /\ CfgOK(cfg) /\ file \in Seq(Nat) /\ BufferOK(st)
    BY DEF IInv, CfgOK
  <1>3. FlushPart(cfg, st, op, file) /\ FlushedBut(st, {}) /\ NoLeak(cfg, st, {})
    BY <1>1, FlushedFacts
  <1>4. CASE op.do = "fsync"
    <2> DEFINE t == CleanBuffer(st)
    <2>1. Goes(t, NoOp)
      BY <1>4 DEF Flushed
    <2>2. /\ StoreOK(cfg, t) /\ BufferOK(t) /\ Exact(t, file) /\ NoLeak(cfg, t, {})
          /\ t.blocks = st.blocks
      BY <1>2, <1>3, <1>4, FlushedHolds
    <2> HIDE DEF t
    <2>3. Ready(cfg, t, NoOp, file) /\ Kept(cfg, st, t)
      BY <2>2, ReadyIdle, KeptSame
    <2> QED
      BY <1>1, <2>1, <2>2, <2>3, StepsOK
  <1>5. CASE op.do # "fsync"
    <2> DEFINE t == Unbuffered(st)
    <2>1. Goes(t, Resizing(t, op))
      BY <1>5 DEF Flushed
    <2>2. /\ StoreOK(cfg, t) /\ BufferOK(t) /\ ~t.buf.on
          /\ t.mode = st.mode /\ t.inline = st.inline /\ t.size = st.size
          /\ t.chunks = st.chunks /\ t.blocks = st.blocks
      BY <1>2, UnbufferedOK
    <2>3. NoLeak(cfg, t, {})
      BY <1>3, <2>2 DEF NoLeak
    <2> HIDE DEF t
    <2>4. \A j \in Nat : ChunkData(t, j) = ChunkData(st, j)
      <3>1. DOMAIN t.buf.dirty = {}
        BY <2>2 DEF StoreOK
      <3> QED
        BY <1>3, <2>2, <3>1 DEF ChunkData, FlushedBut
    <2>5. /\ \A n : Within(st, n) => Within(t, n)
          /\ \A g : Holds(st, g) => Holds(t, g)
          /\ \A g, n : Upto(st, g, n) => Upto(t, g, n)
      BY <2>4, SameData
    <2>6. st.mode = "chunked"
      BY <1>2, <1>3 DEF FlushPart, StoreOK
    <2>7. ResizeDue(t, op, file)
      BY <1>1, <1>3, <1>5, <2>2, <2>5, <2>6 DEF ResizeDue, AtRest, FlushPart
    <2>8. Ready(cfg, t, Resizing(t, op), file)
      BY <1>2, <2>2, <2>3, <2>7, ResizingOK
    <2>9. Kept(cfg, st, t)
      BY <2>2, KeptSame
    <2> QED
      BY <1>1, <2>1, <2>2, <2>8, <2>9, StepsOK
  <1> QED
    BY <1>4, <1>5

LEMMA FlushedVersionOK ==
    ASSUME IInv, FlushedVersion
    PROVE  IInv'
  <1> DEFINE t == CleanBuffer(st)
  <1>1. /\ op.at = "flushed" /\ op.do = "version" /\ op.at # "idle" /\ st' = t /\ op' = NoOp
        /\ cfg' = cfg /\ ops' = ops /\ file' = file /\ read' = read
    BY DEF FlushedVersion
  <1>2. /\ StoreOK(cfg, st) /\ OpOK(op) /\ CfgOK(cfg) /\ file \in Seq(Nat) /\ ops \in Nat
        /\ BufferOK(st) /\ VersionsOK(cfg, st, op, versions) /\ ReadOK(cfg, st, op, file, read)
    BY DEF IInv, CfgOK
  <1>3. /\ FlushPart(cfg, st, op, file) /\ FlushedBut(st, {}) /\ NoLeak(cfg, st, {})
        /\ cfg.versioning
    <2>1. FlushPart(cfg, st, op, file) /\ FlushedBut(st, {}) /\ NoLeak(cfg, st, {})
      BY <1>1, FlushedFacts
    <2> QED
      BY <1>1, <2>1 DEF FlushPart
  <1>4. versions' = Append(versions, Snapshot(t))
    BY <1>1 DEF FlushedVersion, Snapshot
  <1>5. /\ StoreOK(cfg, t) /\ BufferOK(t) /\ Exact(t, file) /\ NoLeak(cfg, t, {})
        /\ DOMAIN t.buf.dirty = {} /\ t.blocks = st.blocks
    BY <1>1, <1>2, <1>3, FlushedHolds
  <1> HIDE DEF t
  <1>6. OpOK(NoOp) /\ PhaseOK(cfg, t, NoOp, file)
    BY <1>5, ReadyIdle DEF Ready
  <1>7. VersionsOK(cfg, t, NoOp, versions')
    <2>1. VersionsOK(cfg, t, NoOp, versions)
      <3>1. Kept(cfg, st, t) /\ NoOp.at # "delete"
        BY <1>5, KeptSame, NoOpFacts
      <3> QED
        BY <1>2, <1>5, <3>1, VersionsStay
    <2>2. VersionOK(cfg, t, NoOp, Snapshot(t))
      BY <1>2, <1>5, SnapshotOK
    <2> QED
      BY <1>3, <1>4, <2>1, <2>2, VersionsAppend
  <1>8. ReadOK(cfg, t, NoOp, file, read)
    BY <1>1, <1>2 DEF ReadOK
  <1> QED
    BY <1>1, <1>2, <1>5, <1>6, <1>7, <1>8 DEF IInv, CfgOK

----------------------------------------------------------------------------
(* Reads *)

\* A step of the reader leaves all else alone.
LEMMA ReadStep ==
    ASSUME IInv, UNCHANGED <<cfg, st, op, versions, ops, file>>,
           ReadOK(cfg, st, op, file, read')
    PROVE  IInv'
  BY DEF IInv

\* A set of naturals that is not empty has a least element.
LEMMA LeastNatural ==
    ASSUME NEW S \in SUBSET Nat, S # {}
    PROVE  \E x \in S : \A y \in S : x <= y
  <1> DEFINE less == {e \in Nat \X Nat : e[1] < e[2]}
  <1>1. IsWellFoundedOn(less, Nat)
    BY NatLessThanWellFounded DEF OpToRel
  <1> HIDE DEF less
  <1>2. PICK x \in S : \A y \in S : ~(<<y, x>> \in less)
    BY <1>1, WFMin, Zenon
  <1>3. ASSUME NEW y \in S PROVE x <= y
    <2>1. x \in Nat /\ y \in Nat /\ ~(y < x)
      BY <1>2 DEF less
    <2> QED
      BY <2>1
  <1> QED
    BY <1>3

LEMMA ReadInodeOK ==
    ASSUME IInv, ReadInode
    PROVE  IInv'
  <1>1. /\ UNCHANGED <<cfg, st, op, versions, ops, file>> /\ ~cfg.buffering
        /\ read' = [at |-> IF st.mode = "inline" \/ st.size = 0 THEN "done" ELSE "keys",
                    meta |-> [mode |-> st.mode, inline |-> st.inline, size |-> st.size],
                    keys |-> Empty, data |-> Empty, due |-> file,
                    quiet |-> op.at = "idle", failed |-> FALSE]
    BY DEF ReadInode, Idle
  <1>2. st.mode \in {"inline", "chunked"} /\ DOMAIN Empty = {}
    BY DEF IInv, StoreOK, Empty
  <1>3. ReadOK(cfg, st, op, file, read')
    BY <1>1, <1>2 DEF ReadOK
  <1> QED
    BY <1>1, <1>3, ReadStep

LEMMA ReadKeysOK ==
    ASSUME IInv, ReadKeys
    PROVE  IInv'
  <1>1. ReadOK(cfg, st, op, file, read)
    BY DEF IInv
  <1>2. /\ UNCHANGED <<cfg, st, op, versions, ops, file>> /\ read.at = "keys"
        /\ read' = [at |-> "blocks", meta |-> read.meta, keys |-> st.chunks,
                    data |-> read.data, due |-> read.due, quiet |-> read.quiet,
                    failed |-> read.failed]
    BY <1>1 DEF ReadKeys, ReadOK
  <1>3. ReadOK(cfg, st, op, file, read')
    BY <1>1, <1>2 DEF ReadOK
  <1> QED
    BY <1>2, <1>3, ReadStep

\* The blocks of a file that nothing has disturbed are where they are expected.
LEMMA QuietBlock ==
    ASSUME IInv, op.at = "idle", ~cfg.buffering, st.mode = "chunked", NEW i \in DOMAIN st.chunks
    PROVE  /\ i \in Nat /\ st.chunks[i] \in DOMAIN st.blocks
           /\ i * ChunkSize + Len(st.blocks[st.chunks[i]]) <= st.size
           /\ ~(i * ChunkSize + Len(st.blocks[st.chunks[i]]) > st.size)
  <1>1. StoreOK(cfg, st) /\ Exact(st, file)
    BY IdleFacts DEF IInv
  <1>2. /\ i \in Nat /\ st.chunks[i] \in DOMAIN st.blocks /\ DOMAIN st.buf.dirty = {}
        /\ st.size \in Nat /\ IsBlock(st.blocks[st.chunks[i]])
    BY <1>1 DEF StoreOK
  <1>3. ChunkData(st, i) = st.blocks[st.chunks[i]] /\ ChunkData(st, i) # <<>>
    BY <1>1, <1>2, DataFacts
  <1>4. i * ChunkSize + Len(st.blocks[st.chunks[i]]) <= st.size
    BY <1>1, <1>2, <1>3 DEF Exact, AtRest, Within
  <1>5. i * ChunkSize \in Nat
    BY <1>2, ChunkOrder
  <1>6. Len(st.blocks[st.chunks[i]]) \in Nat
    BY <1>2 DEF IsBlock
  <1> QED
    BY <1>2, <1>4, <1>5, <1>6

LEMMA ReadBlockOK ==
    ASSUME IInv, ReadBlock
    PROVE  IInv'
  <1> DEFINE left == DOMAIN read.keys \ DOMAIN read.data
             i    == CHOOSE c \in left : \A d \in left : c <= d
             k    == read.keys[i]
             bad  == \/ k \notin DOMAIN st.blocks
                     \/ i * ChunkSize + Len(st.blocks[k]) > read.meta.size
             data == With(read.data, i, st.blocks[k])
  <1>1. ReadOK(cfg, st, op, file, read)
    BY DEF IInv
  <1>2. /\ UNCHANGED <<cfg, st, op, versions, ops, file>> /\ read.at = "blocks"
        /\ left = {} => read' = [read EXCEPT !.at = "done"]
        /\ left # {} /\ bad => read' = [read EXCEPT !.at = "done", !.failed = TRUE]
        /\ left # {} /\ ~bad => read' = [read EXCEPT !.data = data]
    BY DEF ReadBlock
  <1>3. read.quiet =>
          /\ op.at = "idle" /\ ~cfg.buffering /\ read.due = file /\ ~read.failed
          /\ read.meta = [mode |-> st.mode, inline |-> st.inline, size |-> st.size]
          /\ st.mode = "chunked" /\ st.size # 0
          /\ read.keys = st.chunks /\ DOMAIN read.data \subseteq DOMAIN st.chunks
          /\ \A j \in DOMAIN read.data : read.data[j] = st.blocks[st.chunks[j]]
    BY <1>1, <1>2 DEF ReadOK
  <1>4. ASSUME read.quiet, left # {}
        PROVE  i \in DOMAIN st.chunks /\ ~bad /\ k = st.chunks[i]
    <2>1. left \subseteq DOMAIN st.chunks /\ DOMAIN st.chunks \subseteq Nat
      BY <1>3, <1>4 DEF IInv, StoreOK
    <2>2. \E c \in left : \A d \in left : c <= d
      <3> HIDE DEF left
      <3> QED
        BY <1>4, <2>1, LeastNatural
    <2>3. i \in left
      BY <2>2
    <2>4. i \in DOMAIN st.chunks /\ k = st.chunks[i] /\ read.meta.size = st.size
      <3>1. read.keys = st.chunks
            /\ read.meta = [mode |-> st.mode, inline |-> st.inline, size |-> st.size]
        BY <1>3, <1>4
      <3>2. k = st.chunks[i] /\ read.meta.size = st.size
        BY <3>1
      <3> HIDE DEF i, k, left
      <3> QED
        BY <2>1, <2>3, <3>2
    <2> HIDE DEF i, k, left
    <2>5. k \in DOMAIN st.blocks /\ ~(i * ChunkSize + Len(st.blocks[k]) > st.size)
      BY <1>3, <1>4, <2>4, QuietBlock
    <2> QED
      BY <2>4, <2>5
  <1>5. DOMAIN data = DOMAIN read.data \cup {i} /\ data[i] = st.blocks[k]
        /\ \A j \in DOMAIN read.data : j # i => data[j] = read.data[j]
    <2> HIDE DEF i, k
    <2> QED
      BY DEF With
  <1>6. left = {} => DOMAIN read.keys \subseteq DOMAIN read.data
    OBVIOUS
  <1> HIDE DEF left, i, k, bad, data
  <1>7. CASE left = {}
    <2>1. read' = [at |-> "done", meta |-> read.meta, keys |-> read.keys,
                   data |-> read.data, due |-> read.due, quiet |-> read.quiet,
                   failed |-> read.failed]
      BY <1>1, <1>2, <1>7 DEF ReadOK
    <2>2. ReadOK(cfg, st, op, file, read')
      BY <1>3, <1>6, <1>7, <2>1 DEF ReadOK
    <2> QED
      BY <1>2, <2>2, ReadStep
  <1>8. CASE left # {} /\ bad
    <2>1. read' = [at |-> "done", meta |-> read.meta, keys |-> read.keys,
                   data |-> read.data, due |-> read.due, quiet |-> read.quiet,
                   failed |-> TRUE]
      BY <1>1, <1>2, <1>8 DEF ReadOK
    <2>2. ~read.quiet
      BY <1>4, <1>8
    <2>3. ReadOK(cfg, st, op, file, read')
      BY <2>1, <2>2 DEF ReadOK
    <2> QED
      BY <1>2, <2>3, ReadStep
  <1>9. CASE left # {} /\ ~bad
    <2>1. read' = [at |-> "blocks", meta |-> read.meta, keys |-> read.keys,
                   data |-> data, due |-> read.due, quiet |-> read.quiet,
                   failed |-> read.failed]
      BY <1>1, <1>2, <1>9 DEF ReadOK
    <2>2. read.quiet => /\ DOMAIN data \subseteq DOMAIN st.chunks
                        /\ \A j \in DOMAIN data : data[j] = st.blocks[st.chunks[j]]
      BY <1>3, <1>4, <1>5, <1>9
    <2>3. ReadOK(cfg, st, op, file, read')
      BY <1>3, <2>1, <2>2 DEF ReadOK
    <2> QED
      BY <1>2, <2>3, ReadStep
  <1> QED
    BY <1>7, <1>8, <1>9

LEMMA ReadEndsOK ==
    ASSUME IInv, ReadEnds
    PROVE  IInv'
  <1>1. UNCHANGED <<cfg, st, op, versions, ops, file>> /\ read' = Idle
    BY DEF ReadEnds
  <1>2. ReadOK(cfg, st, op, file, Idle)
    BY DEF ReadOK, Idle
  <1> QED
    BY <1>1, <1>2, ReadStep

----------------------------------------------------------------------------
(* Initial states *)

\* An inode that has just been created.
LEMMA EmptyInode ==
    ASSUME NEW c, NEW s,
           s = [mode |-> "inline", inline |-> <<>>, size |-> 0, chunks |-> Empty,
                blocks |-> Empty, fresh |-> 1, buf |-> NoBuffer]
    PROVE  StoreOK(c, s) /\ Exact(s, <<>>) /\ Bare(c, s)
  <1>1. DOMAIN Empty = {} /\ Keys(Empty) = {} /\ <<>> \in Seq(Nat) /\ Len(<<>>) = 0
    BY DEF Empty, Keys
  <1>2. /\ NoBuffer = [on |-> NoBuffer.on, dirty |-> NoBuffer.dirty,
                       size |-> NoBuffer.size, shared |-> NoBuffer.shared]
        /\ NoBuffer.on = FALSE /\ DOMAIN NoBuffer.dirty = {} /\ NoBuffer.shared = {}
    BY DEF NoBuffer, Empty
  <1>3. /\ s.mode = "inline" /\ s.inline = <<>> /\ s.size = 0 /\ s.chunks = Empty
        /\ s.blocks = Empty /\ s.fresh = 1 /\ s.buf = NoBuffer
    OBVIOUS
  <1>4. Shape(s)
    BY <1>2, <1>3 DEF Shape
  <1>5. StoreOK(c, s)
    BY <1>1, <1>2, <1>3, <1>4 DEF StoreOK
  <1>6. Exact(s, <<>>)
    BY <1>1, <1>3 DEF Exact, AtRest
  <1>7. Bare(c, s)
    BY <1>1, <1>2, <1>3 DEF Bare, NoLeak
  <1> QED
    BY <1>5, <1>6, <1>7

\* A file that has been created, or whose creation has begun, satisfies the invariant.
LEMMA InitOK ==
    ASSUME Init
    PROVE  IInv
  <1>1. CfgOK(cfg)
    BY ChunkedFileAssumption DEF Init, CfgOK
  <1>2. /\ st = [mode |-> "inline", inline |-> <<>>, size |-> 0, chunks |-> Empty,
                 blocks |-> Empty, fresh |-> 1, buf |-> NoBuffer]
        /\ creating \in BOOLEAN
        /\ op = IF creating THEN Rewriting(Operation("writeFile", 0, file, Len(file)))
                ELSE NoOp
        /\ versions = <<>> /\ ops = 0 /\ read = Idle
    BY DEF Init
  <1>3. file \in Seq(Nat) /\ (~creating => file = <<>>)
    <2>1. CASE creating
      <3>1. PICK n \in 0 .. MaxSize : file = Bytes(MaxOps + 1, n)
        BY <2>1 DEF Init
      <3>2. n \in Nat /\ MaxOps + 1 \in Nat
        BY Sizes
      <3> QED
        BY <2>1, <3>1, <3>2, BytesFacts
    <2>2. CASE ~creating
      <3>1. file = <<>>
        BY <2>2 DEF Init
      <3>2. <<>> \in Seq(Nat)
        OBVIOUS
      <3> QED
        BY <3>1, <3>2
    <2> QED
      BY <2>1, <2>2
  <1>4. StoreOK(cfg, st) /\ Exact(st, <<>>) /\ Bare(cfg, st)
    BY <1>2, EmptyInode
  <1>5. BufferOK(st)
    BY <1>4, NoShare DEF Bare
  <1>6. OpOK(op) /\ PhaseOK(cfg, st, op, file)
    <2>1. CASE creating
      <3> DEFINE o == Operation("writeFile", 0, file, Len(file))
      <3>1. Len(file) \in Nat /\ 0 \in Nat
        BY <1>3
      <3>2. OpIs(o, "writeFile", "idle", file, 0, Len(file), 0, <<0, 0>>, {}, {}, <<>>)
        BY <1>3, <3>1, OperationFacts
      <3>3. op = Rewriting(o)
        BY <1>2, <2>1
      <3> HIDE DEF o
      <3>4. OpOK(o) /\ WriteDue(o, file)
        BY <3>2 DEF OpIs, WriteDue
      <3>5. Ready(cfg, st, Rewriting(o), file)
        BY <1>4, <3>4, RewritingOK
      <3> QED
        BY <3>3, <3>5 DEF Ready
    <2>2. CASE ~creating
      <3>1. Ready(cfg, st, NoOp, <<>>)
        BY <1>4, ReadyIdle DEF Bare
      <3> QED
        BY <1>2, <1>3, <2>2, <3>1 DEF Ready
    <2> QED
      BY <2>1, <2>2
  <1>7. VersionsOK(cfg, st, op, versions)
    <2>1. <<>> \in Seq(Range(<<>>)) /\ DOMAIN <<>> = {}
      OBVIOUS
    <2> QED
      BY <1>2, <2>1 DEF VersionsOK
  <1>8. ReadOK(cfg, st, op, file, read)
    BY <1>2 DEF ReadOK, Idle
  <1> QED
    BY <1>1, <1>2, <1>3, <1>4, <1>5, <1>6, <1>7, <1>8 DEF IInv, CfgOK

----------------------------------------------------------------------------
(* The invariant, and what it says *)

\* Until two operations have overlapped, the invariant holds and no operation waits
\* beside the one in progress; from then on nothing is read.
SafeInv == IF overlapped THEN read.at = "idle" ELSE IInv /\ other = NoOp

\* Two operations overlap from now on.
Overlaps == overlapped' /\ read.at = "idle" /\ read' = read

\* No other operation has come in.
Alone == overlapped' = overlapped /\ other' = other

\* What begins finds the file at rest, or overlaps with what is in progress.
LEMMA ChangesOverlap ==
    ASSUME NEW s, NEW f, Changes(s, f)
    PROVE  ~overlapped /\ (IF op.at = "idle" THEN ~overlapped' ELSE Overlaps)
  BY DEF Changes, Overlaps

LEMMA BeginOverlaps ==
    ASSUME NEW s, NEW o, NEW f, Begin(s, o, f)
    PROVE  ~overlapped /\ (IF op.at = "idle" THEN ~overlapped' /\ other' = other ELSE Overlaps)
  <1>1. Changes(s, f) /\ other' = IF op.at = "idle" THEN other ELSE op
    BY DEF Begin
  <1> QED
    BY <1>1, ChangesOverlap

\* The operations that begin.
Begins ==
    \/ \E data \in Payloads : WriteFile(data) \/ \E off \in 0 .. MaxSize : Pwrite(off, data)
    \/ \E n \in 0 .. MaxSize : Truncate(n)
    \/ Fsync \/ CreateVersion
    \/ (\E v \in DOMAIN versions : RestoreVersion(v)) \/ RestoreFails \/ OpenTrunc
    \/ \E keep \in 0 .. Len(versions), deferred \in BOOLEAN :
          PruneVersions(keep, deferred)

\* They leave the invariant true, or overlap with the one in progress.
LEMMA BeginsStay ==
    ASSUME SafeInv, Begins
    PROVE  SafeInv'
  <1>1. ~overlapped /\ (IF op.at = "idle" THEN ~overlapped' /\ other' = other ELSE Overlaps)
    <2>1. ASSUME NEW data \in Payloads, WriteFile(data)
          PROVE  ~overlapped /\ (IF op.at = "idle" THEN ~overlapped' /\ other' = other ELSE Overlaps)
      BY <2>1, BeginOverlaps DEF WriteFile
    <2>2. ASSUME NEW data \in Payloads, NEW off \in 0 .. MaxSize, Pwrite(off, data)
          PROVE  ~overlapped /\ (IF op.at = "idle" THEN ~overlapped' /\ other' = other ELSE Overlaps)
      BY <2>2, BeginOverlaps DEF Pwrite
    <2>3. ASSUME NEW n \in 0 .. MaxSize, Truncate(n)
          PROVE  ~overlapped /\ (IF op.at = "idle" THEN ~overlapped' /\ other' = other ELSE Overlaps)
      BY <2>3, BeginOverlaps DEF Truncate
    <2>4. ASSUME Fsync \/ CreateVersion \/ RestoreFails
          PROVE  ~overlapped /\ (IF op.at = "idle" THEN ~overlapped' /\ other' = other ELSE Overlaps)
      BY <2>4, BeginOverlaps DEF Fsync, CreateVersion, RestoreFails
    <2>5. ASSUME NEW v \in DOMAIN versions, RestoreVersion(v)
          PROVE  ~overlapped /\ (IF op.at = "idle" THEN ~overlapped' /\ other' = other ELSE Overlaps)
      BY <2>5, BeginOverlaps DEF RestoreVersion
    <2>6. ASSUME OpenTrunc
          PROVE  ~overlapped /\ (IF op.at = "idle" THEN ~overlapped' /\ other' = other ELSE Overlaps)
      BY <2>6, ChangesOverlap DEF OpenTrunc
    <2>7. ASSUME NEW keep \in 0 .. Len(versions), NEW deferred \in BOOLEAN,
                 PruneVersions(keep, deferred)
          PROVE  ~overlapped /\ (IF op.at = "idle" THEN ~overlapped' /\ other' = other ELSE Overlaps)
      BY <2>7, BeginOverlaps DEF PruneVersions
    <2> QED
      BY <2>1, <2>2, <2>3, <2>4, <2>5, <2>6, <2>7 DEF Begins
  <1>2. IInv /\ other = NoOp
    BY <1>1 DEF SafeInv
  <1>3. CASE op.at = "idle"
    <2>1. IInv'
      BY <1>2, <1>3, WriteFileOK, PwriteOK, TruncateOK, FsyncOK, CreateVersionOK,
         RestoreVersionOK, RestoreFailsOK, OpenTruncOK, PruneVersionsOK DEF Begins
    <2> QED
      BY <1>1, <1>2, <1>3, <2>1 DEF SafeInv
  <1>4. CASE op.at # "idle"
    BY <1>1, <1>4 DEF SafeInv, Overlaps
  <1> QED
    BY <1>3, <1>4

\* The steps of the operation in progress, and of a reader.
Proceeds ==
    \/ DropChunks \/ DeleteBlocks \/ StoreInline \/ UpdateInline
    \/ PutChunk \/ SetKey \/ MakeChunked
    \/ DirectChunk \/ SetDirectKey \/ UpdateSize
    \/ PromoteBuffered \/ BufferChunk
    \/ CutLast \/ SetCutKey \/ demoteToInline
    \/ (\E i \in op.left : FlushChunk(i)) \/ SetFlushKey \/ Flushed \/ FlushedVersion

Reads == ReadInode \/ ReadKeys \/ ReadBlock \/ ReadEnds

LEMMA GoesAlone ==
    ASSUME NEW s, NEW o, Goes(s, o)
    PROVE  Alone /\ read' = read
  BY DEF Goes, Alone, overlap

\* They let no other operation in, and leave the invariant true.
LEMMA ProceedsAlone ==
    ASSUME Proceeds
    PROVE  Alone /\ read' = read
  <1>1. CASE DropChunks \/ DeleteBlocks \/ StoreInline \/ UpdateInline
    BY <1>1, GoesAlone DEF DropChunks, DeleteBlocks, StoreInline, UpdateInline
  <1>2. CASE PutChunk \/ SetKey \/ MakeChunked
    BY <1>2, GoesAlone DEF PutChunk, SetKey, MakeChunked
  <1>3. CASE DirectChunk \/ SetDirectKey \/ UpdateSize
    BY <1>3, GoesAlone DEF DirectChunk, SetDirectKey, UpdateSize
  <1>4. CASE PromoteBuffered \/ BufferChunk
    BY <1>4, GoesAlone DEF PromoteBuffered, BufferChunk
  <1>5. CASE CutLast \/ SetCutKey \/ demoteToInline
    BY <1>5, GoesAlone DEF CutLast, SetCutKey, demoteToInline
  <1>6. CASE (\E i \in op.left : FlushChunk(i)) \/ SetFlushKey \/ Flushed
    BY <1>6, GoesAlone DEF FlushChunk, SetFlushKey, Flushed
  <1>7. CASE FlushedVersion
    BY <1>7 DEF FlushedVersion, Alone, overlap
  <1> QED
    BY <1>1, <1>2, <1>3, <1>4, <1>5, <1>6, <1>7 DEF Proceeds

LEMMA ProceedsOK ==
    ASSUME IInv, Proceeds
    PROVE  IInv'
  <1>1. CASE DropChunks \/ DeleteBlocks \/ StoreInline \/ UpdateInline
    BY <1>1, DropChunksOK, DeleteBlocksOK, StoreInlineOK
  <1>2. CASE PutChunk \/ SetKey \/ MakeChunked
    BY <1>2, PutChunkOK, SetKeyOK, MakeChunkedOK
  <1>3. CASE DirectChunk \/ SetDirectKey \/ UpdateSize
    BY <1>3, DirectChunkOK, SetDirectKeyOK, UpdateSizeOK
  <1>4. CASE PromoteBuffered \/ BufferChunk
    BY <1>4, PromoteBufferedOK, BufferChunkOK
  <1>5. CASE CutLast \/ SetCutKey \/ demoteToInline
    BY <1>5, CutLastOK, SetCutKeyOK, demoteToInlineOK
  <1>6. CASE (\E i \in op.left : FlushChunk(i)) \/ SetFlushKey
    BY <1>6, FlushChunkOK, SetFlushKeyOK
  <1>7. CASE Flushed \/ FlushedVersion
    BY <1>7, FlushedOK, FlushedVersionOK
  <1> QED
    BY <1>1, <1>2, <1>3, <1>4, <1>5, <1>6, <1>7 DEF Proceeds

\* Every step preserves the invariant.
LEMMA NextOK ==
    ASSUME SafeInv, [Next]_vars
    PROVE  SafeInv'
  <1>1. CASE Begins
    BY <1>1, BeginsStay
  <1>2. CASE Proceeds
    <2>1. Alone /\ read' = read
      BY <1>2, ProceedsAlone
    <2>2. IInv => IInv'
      BY <1>2, ProceedsOK
    <2> QED
      BY <2>1, <2>2 DEF SafeInv, Alone
  <1>3. CASE Switch
    <2>1. other # NoOp /\ overlapped' = overlapped /\ read' = read
      BY <1>3, NoOpFacts DEF Switch
    <2> QED
      BY <2>1 DEF SafeInv
  <1>4. CASE Reads
    <2>1. Alone /\ (read.at = "idle" => ~overlapped)
      BY <1>4 DEF Reads, ReadInode, ReadKeys, ReadBlock, ReadEnds, Alone, overlap
    <2>2. IInv => IInv'
      BY <1>4, ReadInodeOK, ReadKeysOK, ReadBlockOK, ReadEndsOK DEF Reads
    <2> QED
      BY <2>1, <2>2 DEF SafeInv, Alone
  <1>5. CASE UNCHANGED vars
    <2>1. UNCHANGED <<cfg, st, op, other, creating, overlapped, versions, ops, file, read>>
      BY <1>5 DEF vars, overlap
    <2>2. IInv => IInv'
      BY <2>1 DEF IInv
    <2> QED
      BY <2>1, <2>2 DEF SafeInv
  <1>6. Next => Begins \/ Proceeds \/ Switch \/ Reads
    BY DEF Next, Begins, Proceeds, Reads
  <1> QED
    BY <1>1, <1>2, <1>3, <1>4, <1>5, <1>6

\* The invariant of the chunked file holds at every await of every operation, until an
\* operation begins during the file's creation, or an open with O_TRUNC meets one.
THEOREM ChunkedFileInvariant == Spec => []SafeInv
  <1>1. Init => SafeInv
    BY InitOK DEF Init, SafeInv
  <1>2. SafeInv /\ [Next]_vars => SafeInv'
    BY NextOK
  <1> QED
    BY <1>1, <1>2, PTL DEF Spec

\* What the invariant says between operations, property by property.
LEMMA ReadsFile ==
    ASSUME SafeInv
    PROVE  ContentMatches
  <1> SUFFICES ASSUME IInv, op.at = "idle" PROVE readInodeContent(st) = file
    BY DEF ContentMatches, OneAtATime, SafeInv
  <1>1. StoreOK(cfg, st) /\ file \in Seq(Nat)
    BY DEF IInv
  <1>2. Exact(st, file)
    BY IdleFacts
  <1> QED
    BY <1>1, <1>2, ExactReads

\* Between operations readInodeContent gives exactly the bytes that the operations so
\* far have written, until an operation begins during the file's creation, which takes
\* no mutex, or an open with O_TRUNC meets an operation in progress.
THEOREM ContentIsKept == Spec => []ContentMatches
  BY ChunkedFileInvariant, ReadsFile, PTL

LEMMA ChunksFit ==
    ASSUME SafeInv
    PROVE  ChunksWithinSize
  <1> SUFFICES ASSUME IInv, op.at = "idle", st.mode = "chunked", NEW i \in DOMAIN st.chunks
               PROVE  i * ChunkSize + Len(ChunkData(st, i)) <= effectiveSize(st)
    BY DEF ChunksWithinSize, Fits, OneAtATime, SafeInv
  <1>1. StoreOK(cfg, st) /\ Exact(st, file)
    BY IdleFacts DEF IInv
  <1>2. i \in Nat
    BY <1>1 DEF StoreOK
  <1>3. ChunkData(st, i) # <<>>
    BY <1>1, <1>2, DataFacts
  <1>4. i * ChunkSize + Len(ChunkData(st, i)) <= st.size
    BY <1>1, <1>2, <1>3 DEF Exact, AtRest, Within
  <1>5. effectiveSize(st) = st.size
    BY <1>1, SizeFacts
  <1> QED
    BY <1>4, <1>5

\* Between operations no chunk reaches past the end of the file, until operations
\* overlap.
THEOREM ChunksStayWithin == Spec => []ChunksWithinSize
  BY ChunkedFileInvariant, ChunksFit, PTL

LEMMA KeysThere ==
    ASSUME SafeInv
    PROVE  KeysResolve
  <1> SUFFICES ASSUME IInv
               PROVE  /\ Resolves(st.chunks)
                      /\ \A v \in DOMAIN versions : Resolves(versions[v].chunks)
    BY DEF KeysResolve, OneAtATime, SafeInv
  <1>1. StoreOK(cfg, st) /\ VersionsOK(cfg, st, op, versions)
    BY DEF IInv
  <1>2. Keys(st.chunks) \subseteq DOMAIN st.blocks
    BY <1>1 DEF StoreOK, Keys
  <1>3. ASSUME NEW v \in DOMAIN versions
        PROVE  Keys(versions[v].chunks) \subseteq DOMAIN st.blocks
    <2>1. VersionOK(cfg, st, op, versions[v]) /\ Shape(st)
      BY <1>1 DEF VersionsOK, StoreOK
    <2> QED
      BY <2>1, VersionKeys
  <1> QED
    BY <1>2, <1>3 DEF Resolves

\* At every await of an operation that overlaps with no other, the chunk map and the
\* versions refer to blocks that are in the block store.
THEOREM KeysAlwaysResolve == Spec => []KeysResolve
  BY ChunkedFileInvariant, KeysThere, PTL

LEMMA NoneLeaks ==
    ASSUME SafeInv
    PROVE  NoBlockLeak
  <1> SUFFICES ASSUME IInv, op.at = "idle", ~cfg.versioning
               PROVE  DOMAIN st.blocks = Keys(st.chunks)
    BY DEF NoBlockLeak, OneAtATime, SafeInv
  <1>1. NoLeak(cfg, st, {})
    BY IdleFacts
  <1> QED
    BY <1>1 DEF NoLeak

\* Without versions, an operation that has ended has left no block behind, until
\* operations overlap.
THEOREM NoBlockLeaks == Spec => []NoBlockLeak
  BY ChunkedFileInvariant, NoneLeaks, PTL

\* A version that is true reads, restored, as the file it was made of.
LEMMA VersionsRead ==
    ASSUME SafeInv
    PROVE  VersionsKept
  <1> SUFFICES ASSUME IInv, ~cfg.aliasing, NEW v \in DOMAIN versions
               PROVE  readInodeContent(Restored(st, versions[v])) = versions[v].was
    BY DEF VersionsKept, VersionTrue, OneAtATime, SafeInv
  <1> DEFINE r == versions[v]
             s == Restored(st, r)
  <1>1. VersionOK(cfg, st, op, r)
    BY DEF IInv, VersionsOK
  <1>2. StoreOK(cfg, s) /\ r.was \in Seq(Nat) /\ Exact(s, r.was)
    BY <1>1 DEF VersionOK
  <1> HIDE DEF s
  <1>3. readInodeContent(s) = r.was
    BY <1>2, ExactReads
  <1> QED
    BY <1>3 DEF s

\* Over a block store that returns copies, restoring a version gives back what the
\* file held when it was made, until operations overlap.
THEOREM VersionsStayTrue == Spec => []VersionsKept
  BY ChunkedFileInvariant, VersionsRead, PTL

\* What a read assembles of the blocks of an undisturbed file.
LEMMA QuietResult ==
    ASSUME IInv, read.at = "done", read.quiet
    PROVE  ~read.failed /\ Result = read.due
  <1>1. StoreOK(cfg, st) /\ file \in Seq(Nat) /\ ReadOK(cfg, st, op, file, read)
    BY DEF IInv
  <1>2. /\ op.at = "idle" /\ ~cfg.buffering /\ read.due = file /\ ~read.failed
        /\ read.meta = [mode |-> st.mode, inline |-> st.inline, size |-> st.size]
        /\ st.mode = "chunked" /\ st.size # 0 =>
             /\ DOMAIN read.data = DOMAIN st.chunks
             /\ \A i \in DOMAIN read.data : read.data[i] = st.blocks[st.chunks[i]]
    BY <1>1 DEF ReadOK
  <1>3. Exact(st, file)
    BY <1>2, IdleFacts
  <1>4. /\ st.size \in Nat /\ Len(file) = st.size /\ DOMAIN st.buf.dirty = {}
        /\ st.mode \in {"inline", "chunked"}
    BY <1>1, <1>2, <1>3 DEF StoreOK, Exact
  <1>5. read.meta.mode = st.mode /\ read.meta.inline = st.inline /\ read.meta.size = st.size
    BY <1>2
  <1>6. Result = file
    <2>1. CASE st.size = 0
      <3>1. Result = <<>>
        <4>1. \A j : j \notin 1 .. st.size
          BY <2>1
        <4> QED
          BY <1>5, <2>1, <4>1 DEF Result
      <3> QED
        BY <1>1, <1>4, <2>1, <3>1, EmptyFile
    <2>2. CASE st.size # 0 /\ st.mode = "inline"
      <3>1. st.inline = file
        BY <1>3, <2>2 DEF Exact
      <3> QED
        BY <1>4, <1>5, <2>2, <3>1 DEF Result
    <2>3. CASE st.size # 0 /\ st.mode = "chunked"
      <3> DEFINE I(j) == (j - 1) \div ChunkSize
                 O(j) == 1 + ((j - 1) % ChunkSize)
      <3>1. Result = [j \in 1 .. st.size |->
                        IF I(j) \in DOMAIN read.data THEN At(read.data[I(j)], O(j)) ELSE 0]
        BY <1>5, <2>3 DEF Result
      <3>2. Assembled(st, st.size) = [j \in 1 .. st.size |-> At(ChunkData(st, I(j)), O(j))]
        BY DEF Assembled
      <3>3. ASSUME NEW j \in 1 .. st.size
            PROVE  (IF I(j) \in DOMAIN read.data THEN At(read.data[I(j)], O(j)) ELSE 0)
                     = At(ChunkData(st, I(j)), O(j))
        <4>1. O(j) \in 1 .. ChunkSize
          BY <1>4, PlaceOf
        <4>2. O(j) \in Nat /\ O(j) >= 1
          BY <4>1, Sizes
        <4> HIDE DEF I, O
        <4>3. At(<<>>, O(j)) = 0
          BY <4>2 DEF At
        <4> QED
          BY <1>2, <1>4, <2>3, <4>3 DEF ChunkData
      <3> HIDE DEF I, O
      <3>4. Result = Assembled(st, st.size)
        BY <3>1, <3>2, <3>3
      <3>5. Upto(st, file, st.size)
        BY <1>3, <2>3 DEF Exact, Holds, Upto
      <3>6. Assembled(st, st.size) = file
        BY <1>1, <1>4, <3>5, AssembledFacts
      <3> QED
        BY <3>4, <3>6
    <2> QED
      BY <1>4, <2>1, <2>2, <2>3
  <1> QED
    BY <1>2, <1>6

\* A reader that has seen no change has assembled the file.
LEMMA QuietReads ==
    ASSUME SafeInv
    PROVE  QuietReadsExact
  BY QuietResult DEF QuietReadsExact, SafeInv

\* A readFile that no operation overlaps returns the file, although it takes no lock
\* and reads the inode, the chunk map and each block at an await of its own.
THEOREM QuietReadsAreExact == Spec => []QuietReadsExact
  BY ChunkedFileInvariant, QuietReads, PTL
=============================================================================
