--------------------------- MODULE DynamicBuffers ---------------------------
(***************************************************************************)
(* DynamicBufferManager (hg-ctx2d, base/buffer.rs): growable buffers on    *)
(* the gpu that are written through staging chunks.  A chunk holds the     *)
(* cells of one buffer from a multiple of its size on; flush records the   *)
(* copies out of the chunks, and the belt gets them back when the gpu is   *)
(* done with them.  A cell is one instance or one uniform block.           *)
(*                                                                         *)
(* m is a manager: buffers maps handles to DynamicBuffers, whose chunks    *)
(* are keyed by their base; the belt is free, free_chunk_recv,             *)
(* reclaim_queue and total_buffers; pending are the chunks that wgpu maps; *)
(* memory is what the chunks hold, mapped or not.                          *)
(***************************************************************************)
EXTENDS Integers, Sequences, FiniteSets, SequencesExt

CONSTANT ChunkSize \* cells of a staging chunk

ASSUME ChunkSizeAssumption == ChunkSize \in Nat \ {0}

None == 0
Blank == "blank"

LeastOf(S) == CHOOSE x \in S : \A y \in S : x <= y
GreatestOf(S) == CHOOSE x \in S : \A y \in S : x >= y

Sorted(S) ==
  IF S = {} THEN <<>>
  ELSE SelectSeq([i \in 1..(GreatestOf(S) + 1) |-> i - 1], LAMBDA i : i \in S)

NewBuffer == [target_len |-> 0, buffer_len |-> 0, buffer |-> None, size |-> 0,
              chunks |-> [b \in {} |-> None]]

NewManager == [buffers |-> [h \in {} |-> None], created |-> 0, made |-> 0,
               free |-> <<>>, free_chunk_recv |-> <<>>, reclaim_queue |-> <<>>,
               pending |-> {}, total_buffers |-> 0, memory |-> <<>>]

\* Handles are never used again, as the generations of the arena see to.
Created(m) ==
  [m EXCEPT !.buffers = (m.created + 1 :> NewBuffer) @@ @, !.created = @ + 1]

BaseOf(offset) == (offset \div ChunkSize) * ChunkSize

----------------------------------------------------------------------------
(* ChunkStagingBelt *)

\* The last of the free chunks, with what it held before, or a new one.
Acquired(m) ==
  LET free == m.free \o m.free_chunk_recv
      rest == [m EXCEPT !.free_chunk_recv = <<>>,
                        !.free = IF free = <<>> THEN free ELSE Front(free)]
  IN IF free # <<>> THEN [manager |-> rest, chunk |-> Last(free)]
     ELSE [manager |-> [rest EXCEPT !.total_buffers = @ + 1,
                                    !.memory = Append(@, [i \in 0..(ChunkSize - 1) |-> Blank])],
           chunk |-> m.total_buffers + 1]

\* Mutation: the chunks are free without waiting for the gpu.
ReclaimedAtOnce(m) ==
  [m EXCEPT !.reclaim_queue = <<>>, !.free = @ \o m.reclaim_queue]
Reclaimed(m) ==
  [m EXCEPT !.reclaim_queue = <<>>, !.pending = @ \cup ToSet(m.reclaim_queue)]

\* The callbacks of map_async.
Remapped(m, C) ==
  [m EXCEPT !.pending = @ \ C, !.free_chunk_recv = @ \o Sorted(C)]

----------------------------------------------------------------------------
(* ChunkBufferWriter *)

\* Intervals that are apart in this sense do not exist: every write joins them all.
Apart(a, b) == a.start > b.end /\ b.start > a.end

WithInterval(intervals, new) ==
  LET joined == {o \in intervals : ~Apart(o, new)} \cup {new}
  IN (intervals \ joined)
     \cup {[start |-> LeastOf({o.start : o \in joined}), end |-> GreatestOf({o.end : o \in joined})]}

\* write of one cell, by the loop over the chunks; last_chunk is the entry of chunk_map.
WriterWrite(m, h, offset, cell) ==
  LET base == BaseOf(offset)
      rel == offset - base
      known == base \in DOMAIN m.buffers[h].chunks
      got == IF known THEN [manager |-> m, chunk |-> m.buffers[h].chunks[base].chunk]
             ELSE Acquired(m)
      before == IF known THEN m.buffers[h].chunks[base].intervals ELSE {}
      entry == [chunk |-> got.chunk,
                intervals |-> WithInterval(before, [start |-> rel, end |-> rel + 1])]
  IN [got.manager EXCEPT !.memory[got.chunk][rel] = cell,
                         !.buffers[h].chunks = (base :> entry) @@ @]

\* extend: what is written starts at target_len, and moves it.
Extended(m, h, cells) ==
  FoldLeft(LAMBDA s, c : [WriterWrite(s, h, s.buffers[h].target_len, c)
                            EXCEPT !.buffers[h].target_len = @ + 1],
           m, cells)

\* Mutation: buffer_len keeps what is not in the buffer any more.
ClearedLen(m, h) == [m EXCEPT !.buffers[h].target_len = 0]
Cleared(m, h) ==
  [m EXCEPT !.buffers[h].target_len = 0, !.buffers[h].buffer_len = 0]

\* What flush leaves of a chunk's intervals; a chunk below target_len keeps them all.
Trimmed(base, intervals, target_len) ==
  LET max_rel == base - target_len
      Cut(x) == IF x < max_rel THEN x ELSE max_rel
  IN IF max_rel < 0 THEN intervals
     ELSE IF max_rel >= ChunkSize THEN {}
     ELSE {r \in {[start |-> Cut(i.start), end |-> Cut(i.end)] : i \in intervals} :
             r.end > r.start}

Copy(from, src, to, dst, len) ==
  [kind |-> "copy", from |-> from, src |-> src, to |-> to, dst |-> dst, len |-> len]
Chunk(c) == [kind |-> "chunk", id |-> c]
Gpu(b) == [kind |-> "gpu", id |-> b]

\* The chunks of a buffer in the order of their bases, as extend fills them.
Uploads(buf) ==
  LET Bases == Sorted(DOMAIN buf.chunks)
      Of(base) ==
        LET kept == Trimmed(base, buf.chunks[base].intervals, buf.target_len)
            Ordered == SetToSortSeq(kept, LAMBDA a, b : a.start < b.start)
        IN [i \in DOMAIN Ordered |->
             Copy(Chunk(buf.chunks[base].chunk), Ordered[i].start, Gpu(buf.buffer),
                  base + Ordered[i].start, Ordered[i].end - Ordered[i].start)]
  IN FlattenSeq([i \in DOMAIN Bases |-> Of(Bases[i])])

\* A buffer that is too small is replaced, and what was uploaded is kept.
\* Mutation: a buffer that exists is taken as it is.
FitsOnce(buf) == buf.buffer # None
Fits(buf) == buf.buffer # None /\ buf.size >= buf.target_len

Grown(m, h) ==
  LET buf == m.buffers[h] IN
    IF Fits(buf) THEN [manager |-> m, copies |-> <<>>]
    ELSE [manager |-> [m EXCEPT !.made = @ + 1, !.buffers[h].buffer = m.made + 1,
                                !.buffers[h].size = buf.target_len],
          copies |-> IF buf.buffer = None \/ buf.buffer_len = 0 THEN <<>>
                     ELSE <<Copy(Gpu(buf.buffer), 0, Gpu(m.made + 1), 0, buf.buffer_len)>>]

ChunksOf(buf) ==
  LET Bases == Sorted(DOMAIN buf.chunks) IN [i \in DOMAIN Bases |-> buf.chunks[Bases[i]].chunk]

\* release, and the end of flush.
Released(m, h) ==
  [m EXCEPT !.reclaim_queue = @ \o ChunksOf(m.buffers[h]), !.buffers[h].chunks = NewBuffer.chunks]

\* flush: the manager afterwards, and the copies that it has recorded.
FlushedOne(acc, h) ==
  LET grown == Grown(acc.manager, h)
      buf == grown.manager.buffers[h]
  IN [manager |-> [Released(grown.manager, h) EXCEPT !.buffers[h].buffer_len = buf.target_len],
      copies |-> acc.copies \o grown.copies \o Uploads(buf)]
FlushedAll(m) ==
  FoldLeft(FlushedOne, [manager |-> m, copies |-> <<>>], Sorted(DOMAIN m.buffers))

\* destroy, also of a handle that is gone already.
Destroyed(m, h) ==
  IF h \notin DOMAIN m.buffers THEN m
  ELSE LET r == Released(m, h)
       IN [r EXCEPT !.buffers = [g \in DOMAIN @ \ {h} |-> @[g]]]
=============================================================================
