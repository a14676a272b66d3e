----------------------------- MODULE ChunkedFile -----------------------------
(***************************************************************************)
(* The content of one file of the chunked file system                      *)
(* (core/src/vfs/chunked-vfs.ts): inline in the inode while it is small,   *)
(* in fixed-size blocks once it is not, with or without a write buffer and *)
(* with or without versions; over the in-memory metadata store             *)
(* (memory-metadata.ts) and a block store that returns copies              *)
(* (host-block-store.ts) or its own arrays (memory-block-store.ts).        *)
(*                                                                         *)
(* An operation that changes the file takes one step per await that writes *)
(* to a store.  It holds the inode's mutex, with two exceptions: the       *)
(* writeFile that creates the file, which takes none, and an open with     *)
(* O_TRUNC, which does not wait (shared/in-memory-fs.ts).  Until one of    *)
(* them overlaps an operation in progress, an operation begins when no     *)
(* other is under way.  Reads take no mutex and see the states in between. *)
(*                                                                         *)
(* Bounds: one overlap, in which nothing else begins and nothing is read.  *)
(***************************************************************************)
EXTENDS Naturals, Sequences, FiniteSets, Functions

CONSTANTS ChunkSize, InlineThreshold,
          MaxSize,      \* bound: bytes of the file
          MaxOps,       \* bound: operations that change the file
          MaxReadOps,   \* bound: operations that reads may overlap with or follow
          Configs       \* the options used: [buffering, versioning, aliasing]

ASSUME ChunkedFileAssumption ==
    /\ {ChunkSize, MaxSize, MaxOps} \subseteq Nat \ {0}
    /\ {InlineThreshold, MaxReadOps} \subseteq Nat
    /\ Configs \subseteq
         [buffering : BOOLEAN, versioning : BOOLEAN, aliasing : BOOLEAN]

VARIABLES
    cfg,       \* the options; aliasing: the block store returns its own arrays
    st,        \* the stores and the write buffer
    op,        \* the operation in progress, see NoOp
    other,     \* the one it overlaps with
    creating,  \* the file is being created: nothing has begun since writeFile did
    overlapped, \* history: an operation met another in progress
    versions,  \* the snapshots, oldest first
    ops,       \* operations begun
    file,      \* history: what the file should hold after the operation in progress
    read       \* a readFile in progress

overlap == <<other, creating, overlapped>>
vars == <<cfg, st, op, overlap, versions, ops, file, read>>

Maximum(a, b) == IF a > b THEN a ELSE b
Minimum(a, b) == IF a < b THEN a ELSE b
Empty == [i \in {} |-> 0]

With(f, x, v) == [y \in DOMAIN f \cup {x} |-> IF y = x THEN v ELSE f[y]]

At(s, i) == IF i <= Len(s) THEN s[i] ELSE 0
Sized(s, n) == [i \in 1 .. n |-> At(s, i)]      \* cut, or filled up with zeros
Bytes(b, n) == [i \in 1 .. n |-> b]

\* What pwrite means: data at offset off, zeros in between.
Overwrite(s, off, data) ==
    [i \in 1 .. Maximum(Len(s), off + Len(data)) |->
        IF i > off /\ i <= off + Len(data) THEN data[i - off] ELSE At(s, i)]

----------------------------------------------------------------------------
(* The stores: the inode's mode ("inline" or "chunked"), inline content and  *)
(* size; the chunk map; the blocks, and a counter for their random ids; and  *)
(* the write buffer, whose chunks in "shared" are the arrays of the blocks   *)
(* they were read from.                                                      *)

NoBuffer == [on |-> FALSE, dirty |-> Empty, size |-> 0, shared |-> {}]

SetInode(s, m, content, n) ==
    [s EXCEPT !.mode = m, !.inline = content, !.size = n]
SetSize(s, n) == [s EXCEPT !.size = n]
SetBlock(s, k, data) == [s EXCEPT !.blocks = With(@, k, data)]
setChunkKey(s, i, k) == [s EXCEPT !.chunks = With(@, i, k)]
Unbuffered(s) == [s EXCEPT !.buf = NoBuffer]
CleanBuffer(s) == [s EXCEPT !.buf.dirty = Empty, !.buf.shared = {}]

deleteChunksFrom(s, from) ==
    [s EXCEPT !.chunks = Restrict(@, {i \in DOMAIN @ : i < from})]

deleteMany(s, keys) ==
    [s EXCEPT !.blocks = Restrict(@, DOMAIN @ \ keys)]

Keys(chunks) == {chunks[i] : i \in DOMAIN chunks}

\* Block keys are the chunk's own, or fresh ones when there are versions.
makeBlockKey(s, i) == <<i, IF cfg.versioning THEN s.fresh ELSE 0>>

\* A block under a key that was just made.
PutBlock(s, k, data) ==
    [SetBlock(s, k, data) EXCEPT !.fresh = IF cfg.versioning THEN @ + 1 ELSE @]

ChunkOf(content, i) ==
    SubSeq(content, i * ChunkSize + 1, Minimum((i + 1) * ChunkSize, Len(content)))

\* The indices of the chunks of n bytes.
Indices(n) == {i \in 0 .. n : i * ChunkSize < n}

----------------------------------------------------------------------------
(* Reading *)

effectiveSize(s) == IF s.buf.on THEN s.buf.size ELSE s.size

ChunkData(s, i) ==
    IF i \in DOMAIN s.buf.dirty THEN s.buf.dirty[i]
    ELSE IF i \in DOMAIN s.chunks THEN s.blocks[s.chunks[i]]
    ELSE <<>>

\* The first n bytes, as the chunks have them.
Assembled(s, n) ==
    [j \in 1 .. n |->
        At(ChunkData(s, (j - 1) \div ChunkSize), 1 + ((j - 1) % ChunkSize))]

\* Slip: dirty chunks are not laid over the blocks.
MutreadInodeContent(s) ==
    IF s.mode = "inline" THEN s.inline ELSE Assembled(Unbuffered(s), s.size)

\* Inline content, under the dirty chunks.
Overlaid(s) ==
    [j \in 1 .. effectiveSize(s) |->
        LET i == (j - 1) \div ChunkSize
            o == 1 + ((j - 1) % ChunkSize)
        IN IF i \in DOMAIN s.buf.dirty /\ o <= Len(s.buf.dirty[i])
           THEN s.buf.dirty[i][o] ELSE At(s.inline, j)]

readInodeContent(s) ==
    IF effectiveSize(s) = 0 THEN <<>>
    ELSE IF s.mode = "chunked" THEN Assembled(s, effectiveSize(s))
    ELSE IF s.buf.on THEN Overlaid(s) ELSE s.inline

----------------------------------------------------------------------------
(* The operation in progress: what it does, where it is, and what it has in  *)
(* hand: bytes, offset and due size; the content it splits into chunks; a    *)
(* chunk, the key of its new block; blocks to delete; dirty chunks left to   *)
(* flush.                                                                    *)

Operation(what, off, data, n) ==
    [do |-> what, at |-> "idle", data |-> data, off |-> off, n |-> n,
     content |-> <<>>, i |-> 0, key |-> <<0, 0>>, keys |-> {}, left |-> {}]

NoOp == Operation("none", 0, <<>>, 0)

\* Each chunk of the content is written to a block, if there is any.
Chunking(o, content) ==
    [o EXCEPT !.at = IF content = <<>> THEN "chunked" ELSE "put", !.i = 0,
              !.content = content]

\* writeInodeContent, once the old chunks are gone.
Rewriting(o) ==
    IF Len(o.data) <= InlineThreshold THEN [o EXCEPT !.at = "inline"]
    ELSE Chunking(o, o.data)

\* pwrite of a chunked file, from the first chunk it touches.
Patching(o) ==
    [o EXCEPT !.at = IF cfg.buffering THEN "buffer" ELSE "direct",
              !.i = o.off \div ChunkSize]

LastTouched(o) == (o.off + Len(o.data) - 1) \div ChunkSize

\* truncate, once the buffer has been given up: what is inline stays so if it
\* can, of what is chunked the chunks beyond the new end go.
Resizing(s, o) ==
    IF s.mode = "inline" /\ (o.do = "shrink" \/ o.n <= InlineThreshold)
    THEN [o EXCEPT !.at = "update", !.data = Sized(s.inline, o.n)]
    ELSE IF s.mode = "inline" THEN Chunking(o, s.inline)
    ELSE IF o.do = "grow" THEN [o EXCEPT !.at = "size"]
    ELSE [o EXCEPT !.at = "drop",
                   !.i = IF o.n = 0 THEN 0 ELSE 1 + ((o.n - 1) \div ChunkSize)]

\* A file that has become small moves into its inode.
Trimmed(s, o) ==
    IF o.n <= InlineThreshold
    THEN [o EXCEPT !.do = "demote", !.at = "drop", !.i = 0,
                   !.data = Assembled(s, o.n)]
    ELSE [o EXCEPT !.at = "size"]

\* Slip: the last chunk keeps the bytes beyond the new end.
MutNeedsCut(s, n) == FALSE

\* The new end lies inside the last chunk.
NeedsCut(s, n) ==
    LET last == (n - 1) \div ChunkSize IN
    /\ n % ChunkSize > 0 /\ last \in DOMAIN s.chunks
    /\ Len(s.blocks[s.chunks[last]]) > n % ChunkSize

\* What comes after the chunks were dropped.
Dropped(s, o) ==
    CASE o.do = "writeFile" -> Rewriting(o)
      [] o.do = "demote"    -> [o EXCEPT !.at = "demoted"]
      [] o.do = "prune"     -> NoOp
      [] o.do = "shrink"    ->
            IF o.n = 0 THEN [o EXCEPT !.at = "inline", !.data = <<>>]
            ELSE IF NeedsCut(s, o.n)
            THEN LET last == (o.n - 1) \div ChunkSize IN
                 [o EXCEPT !.at = "cut", !.i = last,
                           !.data = SubSeq(s.blocks[s.chunks[last]], 1, o.n % ChunkSize)]
            ELSE Trimmed(s, o)

----------------------------------------------------------------------------
(* Operations begin *)

\* The file changes, and is from now on due to hold content.
Changes(s, content) ==
    /\ ops < MaxOps /\ ~overlapped
    /\ ops >= MaxReadOps \/ op.at # "idle" => read.at = "idle"
    /\ ops' = ops + 1
    /\ st' = s /\ file' = content
    /\ overlapped' = (op.at # "idle")
    /\ read' = IF read.at = "idle" THEN read
               ELSE [read EXCEPT !.quiet = FALSE]
    /\ UNCHANGED cfg

\* The mutex is free, though the file may be in the middle of its creation.
Begin(s, o, content) ==
    /\ op.at = "idle" \/ creating
    /\ Changes(s, content)
    /\ op' = o
    /\ other' = IF op.at = "idle" THEN other ELSE op
    /\ creating' = FALSE

\* Every operation writes a byte of its own.
Payloads == {Bytes(ops + 1, n) : n \in 0 .. MaxSize}

\* The buffer is given up, and the old chunks go first.
WriteFile(data) ==
    LET o == Operation("writeFile", 0, data, Len(data)) IN
    /\ Begin(Unbuffered(st),
             IF st.mode = "chunked" THEN [o EXCEPT !.at = "drop"] ELSE Rewriting(o),
             data)
    /\ UNCHANGED versions

Pwrite(off, data) ==
    LET n == Maximum(effectiveSize(st), off + Len(data))
        o == Operation("pwrite", off, data, n)
    IN /\ data # <<>> /\ off + Len(data) <= MaxSize
       /\ Begin(st,
                IF st.mode = "chunked" THEN Patching(o)
                ELSE IF n <= InlineThreshold
                THEN [o EXCEPT !.at = "update", !.data = Overwrite(st.inline, off, data)]
                ELSE IF cfg.buffering
                THEN [o EXCEPT !.at = "promote", !.content = st.inline]
                ELSE Chunking(o, st.inline),
                Overwrite(file, off, data))
       /\ UNCHANGED versions

\* Dirty chunks are flushed first.
Truncate(n) ==
    LET o == Operation(IF n < effectiveSize(st) THEN "shrink" ELSE "grow", 0, <<>>, n)
        dirty == DOMAIN st.buf.dirty
    IN /\ n # effectiveSize(st)
       /\ IF dirty = {}
          THEN Begin(Unbuffered(st), Resizing(Unbuffered(st), o), Sized(file, n))
          ELSE Begin(st, [o EXCEPT !.at = "flush", !.left = dirty], Sized(file, n))
       /\ UNCHANGED versions

Flushing(what) ==
    [Operation(what, 0, <<>>, effectiveSize(st)) EXCEPT
        !.at = "flush", !.left = DOMAIN st.buf.dirty]

\* fsync, the last close of the file, or the auto-flush timer.
Fsync ==
    /\ cfg.buffering /\ DOMAIN st.buf.dirty # {}
    /\ Begin(st, Flushing("fsync"), file)
    /\ UNCHANGED versions

Snapshot(s) == [mode |-> s.mode, inline |-> s.inline, size |-> s.size,
                chunks |-> s.chunks, was |-> file]

\* The inode and the chunk map are recorded; dirty chunks are flushed first.
CreateVersion ==
    /\ cfg.versioning
    /\ IF DOMAIN st.buf.dirty = {}
       THEN Begin(st, NoOp, file) /\ versions' = Append(versions, Snapshot(st))
       ELSE Begin(st, Flushing("version"), file) /\ UNCHANGED versions

Restored(s, r) ==
    [SetInode(Unbuffered(s), r.mode, r.inline, r.size) EXCEPT !.chunks = r.chunks]

\* The buffer is given up, unflushed, and the version's blocks are taken as they
\* are.
RestoreVersion(v) ==
    /\ LET s == Restored(st, versions[v]) IN Begin(s, NoOp, readInodeContent(s))
    /\ UNCHANGED versions

\* There is no such version (ENOENT), but the buffer has been given up.
RestoreFails ==
    /\ cfg.versioning
    /\ LET s == Unbuffered(st) IN Begin(s, NoOp, readInodeContent(s))
    /\ UNCHANGED versions

\* An open with O_TRUNC, of the file system without a buffer and versions: all at
\* once and without the mutex.
OpenTrunc ==
    LET cut == deleteChunksFrom(st, 0) IN
    /\ ~cfg.buffering /\ ~cfg.versioning
    /\ Changes(deleteMany(SetInode(cut, "inline", <<>>, 0), Keys(st.chunks)), <<>>)
    /\ UNCHANGED <<op, other, creating, versions>>

\* Slip: the keys of the current chunk map are not counted as referenced.
MutOrphans(gone, kept) ==
    (UNION {Keys(r.chunks) : r \in gone}) \ (UNION {Keys(r.chunks) : r \in kept})

\* deleteVersions: the keys nothing refers to any more.
Orphans(gone, kept) ==
    (UNION {Keys(r.chunks) : r \in gone})
        \ ((UNION {Keys(r.chunks) : r \in kept}) \cup Keys(st.chunks))

\* The oldest versions are pruned, by count or by age, and then their orphans;
\* the deferred policy prunes them all and leaves the blocks.
PruneVersions(keep, deferred) ==
    LET gone == SubSeq(versions, 1, Len(versions) - keep)
        kept == SubSeq(versions, Len(versions) - keep + 1, Len(versions))
        keys == Orphans(Range(gone), Range(kept))
    IN /\ keep < Len(versions) /\ (deferred => keep = 0)
       /\ versions' = kept
       /\ Begin(st, IF deferred \/ keys = {} THEN NoOp
                    ELSE [Operation("prune", 0, <<>>, 0) EXCEPT !.at = "delete", !.keys = keys],
                file)

----------------------------------------------------------------------------
(* Steps of the operation in progress, from one await to the next *)

Goes(s, o) ==
    /\ st' = s /\ op' = o
    /\ UNCHANGED <<cfg, overlap, versions, ops, file, read>>

\* Slip: the blocks stay.
MutDropChunks ==
    /\ op.at = "drop"
    /\ Goes(deleteChunksFrom(st, op.i), Dropped(deleteChunksFrom(st, op.i), op))

\* The chunk map loses its entries from some chunk on; then the blocks go,
\* unless versions may refer to them.
DropChunks ==
    LET cut  == deleteChunksFrom(st, op.i)
        keys == {st.chunks[i] : i \in DOMAIN st.chunks \ DOMAIN cut.chunks}
    IN /\ op.at = "drop"
       /\ Goes(cut, IF cfg.versioning \/ keys = {} THEN Dropped(cut, op)
                    ELSE [op EXCEPT !.at = "delete", !.keys = keys])

DeleteBlocks ==
    LET s == deleteMany(st, op.keys) IN
    /\ op.at = "delete"
    /\ Goes(s, Dropped(s, op))

\* The inode gets new inline content, and the operation ends.
StoreInline ==
    /\ op.at = "inline"
    /\ Goes(SetInode(st, "inline", op.data, op.n), NoOp)

\* The same for a file that was read as inline: the mode is not written.
UpdateInline ==
    /\ op.at = "update"
    /\ Goes(SetInode(st, st.mode, op.data, op.n), NoOp)

\* The next chunk of the content: the block is written, then its key.
PutChunk ==
    LET k == makeBlockKey(st, op.i) IN
    /\ op.at = "put"
    /\ Goes(PutBlock(st, k, ChunkOf(op.content, op.i)), [op EXCEPT !.at = "key", !.key = k])

SetKey ==
    /\ op.at = "key"
    /\ Goes(setChunkKey(st, op.i, op.key),
            [op EXCEPT !.at = IF (op.i + 1) * ChunkSize < Len(op.content)
                              THEN "put" ELSE "chunked",
                       !.i = @ + 1])

\* The inode changes last; a promoted file is then written or grown.
MakeChunked ==
    /\ op.at = "chunked"
    /\ Goes(SetInode(st, "chunked", <<>>, IF op.do = "writeFile" THEN op.n ELSE st.size),
            CASE op.do = "writeFile" -> NoOp
              [] op.do = "pwrite"    -> Patching(op)
              [] op.do = "grow"      -> [op EXCEPT !.at = "size"])

\* The inline content becomes dirty chunks, and leaves the inode at once.
PromoteBuffered ==
    LET dirty == [i \in Indices(Len(op.content)) |-> ChunkOf(op.content, i)] IN
    /\ op.at = "promote"
    /\ Goes([SetInode(st, "chunked", <<>>, st.size) EXCEPT
                !.buf = [on |-> TRUE, dirty |-> dirty, size |-> effectiveSize(st),
                         shared |-> {}]],
            Patching(op))

\* The part of a write that falls into chunk i, laid over what is there.
Patched(s, i, off, data) ==
    LET start == i * ChunkSize
        from  == Maximum(off, start)
        to    == Minimum(off + Len(data), start + ChunkSize)
    IN Overwrite(ChunkData(s, i), from - start, SubSeq(data, from - off + 1, to - off))

\* A chunk that need not grow is patched in place, in the array it was read into:
\* the block's own, if the store returns that.
PatchesBlock(s, i, chunk) ==
    /\ cfg.aliasing /\ i \in DOMAIN s.chunks /\ Len(ChunkData(s, i)) = Len(chunk)
    /\ i \in DOMAIN s.buf.dirty => i \in s.buf.shared

PatchBlock(s, i, chunk) ==
    IF PatchesBlock(s, i, chunk) THEN SetBlock(s, s.chunks[i], chunk) ELSE s

\* Slip: the version's block is written again under its own key.
MutDirectChunk ==
    LET chunk == Patched(st, op.i, op.off, op.data)
        k     == IF op.i \in DOMAIN st.chunks THEN st.chunks[op.i]
                 ELSE makeBlockKey(st, op.i)
    IN /\ op.at = "direct"
       /\ Goes(PutBlock(st, k, chunk), [op EXCEPT !.at = "directKey", !.key = k])

\* The next chunk of a write without a buffer: read, patched, written under a
\* key of its own.
DirectChunk ==
    LET chunk == Patched(st, op.i, op.off, op.data)
        k     == makeBlockKey(st, op.i)
    IN /\ op.at = "direct"
       /\ Goes(PutBlock(PatchBlock(st, op.i, chunk), k, chunk),
               [op EXCEPT !.at = "directKey", !.key = k])

SetDirectKey ==
    /\ op.at = "directKey"
    /\ Goes(setChunkKey(st, op.i, op.key),
            [op EXCEPT !.at = IF op.i < LastTouched(op) THEN "direct" ELSE "size",
                       !.i = @ + 1])

UpdateSize ==
    /\ op.at = "size"
    /\ Goes(SetSize(st, op.n), NoOp)

Opened(s) ==
    IF s.buf.on THEN s ELSE [s EXCEPT !.buf = [NoBuffer EXCEPT !.on = TRUE, !.size = s.size]]

\* In the buffer.  A chunk that is not in it yet is read from its block.
Buffered(s, i, off, data) ==
    LET chunk == Patched(s, i, off, data) IN
    [PatchBlock(s, i, chunk) EXCEPT
        !.buf.dirty = With(@, i, chunk),
        !.buf.shared = IF PatchesBlock(s, i, chunk) THEN @ \cup {i} ELSE @ \ {i}]

\* The next chunk of a buffered write; the sizes change with the last one.
BufferChunk ==
    LET s    == Buffered(Opened(st), op.i, op.off, op.data)
        last == op.i >= LastTouched(op)
    IN /\ op.at = "buffer"
       /\ Goes(IF last THEN [SetSize(s, op.n) EXCEPT !.buf.size = op.n] ELSE s,
               IF last THEN NoOp ELSE [op EXCEPT !.i = @ + 1])

\* The last chunk is cut.
CutLast ==
    LET k == makeBlockKey(st, op.i) IN
    /\ op.at = "cut"
    /\ Goes(PutBlock(st, k, op.data),
            [op EXCEPT !.at = "cutKey", !.key = k])

\* The blocks are read if the file is to move into its inode, which fails if one
\* of them is gone.
SetCutKey ==
    LET s == setChunkKey(st, op.i, op.key) IN
    /\ op.at = "cutKey"
    /\ Goes(s, IF op.n > InlineThreshold \/ Keys(s.chunks) \subseteq DOMAIN s.blocks
               THEN Trimmed(s, op) ELSE NoOp)

\* The blocks' content moves into the inode, whose size is set afterwards.
demoteToInline ==
    /\ op.at = "demoted"
    /\ Goes(SetInode(st, "inline", op.data, st.size), [op EXCEPT !.at = "size"])

\* flushInode, in any order: the dirty chunk goes to its block, then its key.
FlushChunk(i) ==
    LET k == makeBlockKey(st, i) IN
    /\ op.at = "flush"
    /\ Goes(PutBlock(st, k, st.buf.dirty[i]),
            [op EXCEPT !.at = "flushKey", !.i = i, !.key = k])

SetFlushKey ==
    /\ op.at = "flushKey"
    /\ Goes(setChunkKey(st, op.i, op.key),
            [op EXCEPT !.at = IF op.left = {op.i} THEN "flushed" ELSE "flush",
                       !.left = @ \ {op.i}])

\* The buffer is clean; what it was flushed for goes on.
Flushed ==
    /\ op.at = "flushed" /\ op.do # "version"
    /\ IF op.do = "fsync" THEN Goes(CleanBuffer(st), NoOp)
       ELSE Goes(Unbuffered(st), Resizing(Unbuffered(st), op))

FlushedVersion ==
    /\ op.at = "flushed" /\ op.do = "version"
    /\ st' = CleanBuffer(st) /\ op' = NoOp
    /\ versions' = Append(versions, Snapshot(st'))
    /\ UNCHANGED <<cfg, overlap, ops, file, read>>

\* Of two operations in progress, either may go on.
Switch ==
    /\ other.at # "idle"
    /\ op' = other /\ other' = op
    /\ UNCHANGED <<cfg, st, creating, overlapped, versions, ops, file, read>>

----------------------------------------------------------------------------
(* readFile, without the mutex (and without a write buffer: a buffered file *)
(* is read between operations only, see ContentMatches)                     *)

Idle == [at |-> "idle", meta |-> <<>>, keys |-> Empty, data |-> Empty,
         due |-> <<>>, quiet |-> TRUE, failed |-> FALSE]

\* The inode is read; inline content comes with it, and an empty file is done.
ReadInode ==
    /\ ~cfg.buffering /\ read.at = "idle" /\ ops <= MaxReadOps /\ ~overlapped
    /\ read' = [Idle EXCEPT !.at = IF st.mode = "inline" \/ st.size = 0
                                   THEN "done" ELSE "keys",
                            !.meta = [mode |-> st.mode, inline |-> st.inline,
                                      size |-> st.size],
                            !.due = file, !.quiet = op.at = "idle"]
    /\ UNCHANGED <<cfg, st, op, overlap, versions, ops, file>>

ReadKeys ==
    /\ read.at = "keys"
    /\ read' = [read EXCEPT !.at = "blocks", !.keys = st.chunks]
    /\ UNCHANGED <<cfg, st, op, overlap, versions, ops, file>>

\* The next block; one that is gone, or that does not fit into the file, fails.
ReadBlock ==
    /\ read.at = "blocks"
    /\ LET left == DOMAIN read.keys \ DOMAIN read.data
           i    == CHOOSE c \in left : \A d \in left : c <= d
           k    == read.keys[i]
       IN IF left = {} THEN read' = [read EXCEPT !.at = "done"]
          ELSE IF \/ k \notin DOMAIN st.blocks
                  \/ i * ChunkSize + Len(st.blocks[k]) > read.meta.size
          THEN read' = [read EXCEPT !.at = "done", !.failed = TRUE]
          ELSE read' = [read EXCEPT !.data = With(@, i, st.blocks[k])]
    /\ UNCHANGED <<cfg, st, op, overlap, versions, ops, file>>

\* The caller has the result.
ReadEnds ==
    /\ read.at = "done"
    /\ read' = Idle
    /\ UNCHANGED <<cfg, st, op, overlap, versions, ops, file>>

\* Slip: the blocks follow one another, whatever holes there are.
MutResult ==
    IF read.meta.mode = "inline" /\ read.meta.size > 0 THEN read.meta.inline
    ELSE [j \in 1 .. read.meta.size |->
            LET got == DOMAIN read.data
                nth == {i \in got : Cardinality({d \in got : d < i})
                                       = (j - 1) \div ChunkSize}
            IN IF nth = {} THEN 0
               ELSE At(read.data[CHOOSE i \in nth : TRUE], 1 + ((j - 1) % ChunkSize))]

Result ==
    IF read.meta.mode = "inline" /\ read.meta.size > 0 THEN read.meta.inline
    ELSE [j \in 1 .. read.meta.size |->
            LET i == (j - 1) \div ChunkSize IN
            IF i \in DOMAIN read.data
            THEN At(read.data[i], 1 + ((j - 1) % ChunkSize)) ELSE 0]

----------------------------------------------------------------------------
\* A file that an open has created, or that writeFile is creating: the inode is
\* empty and already visible.
Init ==
    /\ cfg \in Configs
    /\ st = [mode |-> "inline", inline |-> <<>>, size |-> 0, chunks |-> Empty,
             blocks |-> Empty, fresh |-> 1, buf |-> NoBuffer]
    /\ creating \in BOOLEAN
    /\ file \in IF creating THEN {Bytes(MaxOps + 1, n) : n \in 0 .. MaxSize} ELSE {<<>>}
    /\ op = IF creating THEN Rewriting(Operation("writeFile", 0, file, Len(file)))
            ELSE NoOp
    /\ other = NoOp /\ overlapped = FALSE
    /\ versions = <<>> /\ ops = 0 /\ read = Idle

Next ==
    \/ \E data \in Payloads : WriteFile(data) \/ \E off \in 0 .. MaxSize : Pwrite(off, data)
    \/ \E n \in 0 .. MaxSize : Truncate(n)
    \/ Fsync \/ CreateVersion
    \/ (\E v \in DOMAIN versions : RestoreVersion(v)) \/ RestoreFails \/ OpenTrunc
    \/ \E keep \in 0 .. Len(versions), deferred \in BOOLEAN :
          PruneVersions(keep, deferred)
    \/ DropChunks \/ DeleteBlocks \/ StoreInline \/ UpdateInline
    \/ PutChunk \/ SetKey \/ MakeChunked
    \/ DirectChunk \/ SetDirectKey \/ UpdateSize
    \/ PromoteBuffered \/ BufferChunk
    \/ CutLast \/ SetCutKey \/ demoteToInline
    \/ (\E i \in op.left : FlushChunk(i)) \/ SetFlushKey \/ Flushed \/ FlushedVersion
    \/ Switch
    \/ ReadInode \/ ReadKeys \/ ReadBlock \/ ReadEnds

Spec == Init /\ [][Next]_vars

----------------------------------------------------------------------------
(* Properties *)

\* The ones that rest on one operation at a time hold until an operation meets the
\* file's creation in progress, or an open with O_TRUNC an operation; what may
\* happen then, MutexPreventsCorruption shows.
OneAtATime(P) == overlapped \/ P

\* Between operations the stores hold what was written: through inline storage
\* and blocks, promotion and demotion, the buffer, holes and versions, and what a
\* failed restore leaves (see FailedRestoreKeeps).
ContentMatches == OneAtATime(op.at = "idle" => readInodeContent(st) = file)

\* Between operations no block reaches past the end of the file, where readFile
\* would fail to place it.
Fits ==
    st.mode = "chunked" =>
        \A i \in DOMAIN st.chunks :
            i * ChunkSize + Len(ChunkData(st, i)) <= effectiveSize(st)

ChunksWithinSize == OneAtATime(op.at = "idle" => Fits)

\* At every await between two writes of an operation, the chunk map refers to blocks
\* that exist, and so do the versions.
Resolves(chunks) == Keys(chunks) \subseteq DOMAIN st.blocks

KeysResolve ==
    OneAtATime(/\ Resolves(st.chunks)
               /\ \A v \in DOMAIN versions : Resolves(versions[v].chunks))

\* Without versions, no block is left behind by an operation that has ended.
NoBlockLeak ==
    OneAtATime(op.at = "idle" /\ ~cfg.versioning => DOMAIN st.blocks = Keys(st.chunks))

VersionTrue(r) == readInodeContent(Restored(st, r)) = r.was

\* A version keeps the content it was made of, whatever is written, truncated,
\* restored or pruned after it, when the block store returns copies.
VersionsKept ==
    OneAtATime(~cfg.aliasing => \A v \in DOMAIN versions : VersionTrue(versions[v]))

\* "old blocks are never overwritten": the same for every block store.
VersionsImmutable == OneAtATime(\A v \in DOMAIN versions : VersionTrue(versions[v]))

\* A readFile during which nothing changes the file (quiet) returns its content; one
\* that overlaps a change may fail, or return a mixture.
QuietReadsExact ==
    read.at = "done" /\ read.quiet => ~read.failed /\ Result = read.due

\* "Per-inode async mutex prevents interleaved read-modify-write corruption": once
\* all operations have ended, the file can be read.  This fails: two operations
\* that overlap may leave a dangling key, or a chunk past the size.
MutexPreventsCorruption ==
    op.at = "idle" /\ other.at = "idle" => Resolves(st.chunks) /\ Fits

\* "Reads always see buffered data": a restore that fails takes nothing away.
\* This fails: the buffer is dropped before the version is looked for.
FailedRestoreKeeps ==
    [][RestoreFails => readInodeContent(st') = readInodeContent(st)]_vars
==============================================================================
