-------------------------------- MODULE ThRing --------------------------------
(***************************************************************************)
(* The send buffer of a WebSocket, th_ring.c: a byte queue in a list of    *)
(* ring-buffer chunks.  Whole messages go into the last chunk, or into a   *)
(* new one if it has no room; bytes leave from the first, which a send in  *)
(* flight points into.  An iov is a sequence of runs of cells of chunks.   *)
(***************************************************************************)
EXTENDS Integers, Sequences, SequencesExt, FiniteSetsExt

CONSTANTS
  InitialCapacity,  \* size of the first chunk
  MaxLen,           \* a write that would make the ring longer is refused
  Unwritten         \* what a cell holds that nothing was written to

(* th_ring_init                                                            *)
EmptyRing == [chunks |-> <<>>, len |-> 0]

(* A chunk is known by its address, which the allocator may use again.     *)
FreshId(ring) ==
  Min(0 .. Len(ring.chunks) \ {ring.chunks[i].id : i \in DOMAIN ring.chunks})

NewChunk(id, capacity) ==
  [id |-> id, capacity |-> capacity, head |-> 0, tail |-> 0,
   data |-> [i \in 0 .. capacity - 1 |-> Unwritten]]

ChunkLen(chunk) == chunk.tail - chunk.head

FreeSpace(chunk) == chunk.capacity - ChunkLen(chunk)

(* th_ring_chunk_write: up to the end of the buffer, the rest at its start.*)
ChunkWrite(chunk, bytes) ==
  [chunk EXCEPT
    !.tail = @ + Len(bytes),
    !.data = [i \in DOMAIN @ |->
                LET k == (i - chunk.tail) % chunk.capacity
                IN IF k < Len(bytes) THEN bytes[k + 1] ELSE @[i]]]

Refused(ring, n) == ring.len + n > MaxLen

(* Mutant: one byte too few is enough.                                     *)
NeedsChunkLate(ring, n) ==
  ring.chunks # <<>> => FreeSpace(Last(ring.chunks)) + 1 < n

NeedsChunk(ring, n) == ring.chunks # <<>> => FreeSpace(Last(ring.chunks)) < n

(* The chunk a message of n bytes is put into when the last has no room.   *)
ChunkFor(ring, n) ==
  NewChunk(FreshId(ring),
           Max({n, IF ring.chunks = <<>> THEN InitialCapacity
                   ELSE 2 * Last(ring.chunks).capacity}))

(* An empty last chunk, which is then the only one, goes.                  *)
Retired(ring) ==
  IF ring.chunks # <<>> /\ ChunkLen(Last(ring.chunks)) = 0 THEN Tail(ring.chunks)
  ELSE ring.chunks

(* th_ring_write of one message of several parts, with memory available.   *)
Write(ring, bytes) ==
  LET chunks == IF NeedsChunk(ring, Len(bytes))
                THEN Append(Retired(ring), ChunkFor(ring, Len(bytes)))
                ELSE ring.chunks
  IN [chunks |-> Append(Front(chunks), ChunkWrite(Last(chunks), bytes)),
      len |-> ring.len + Len(bytes)]

(***************************************************************************)
(* th_ring_peek: the bytes of the first chunk, as one run of cells, or two *)
(* if they go past the end of its buffer.                                  *)
(***************************************************************************)
Peek(ring) ==
  IF ring.chunks = <<>> \/ ChunkLen(Head(ring.chunks)) = 0 THEN <<>>
  ELSE LET chunk == Head(ring.chunks)
           offset == chunk.head % chunk.capacity
           first == Min({chunk.capacity - offset, ChunkLen(chunk)})
           run == [id |-> chunk.id, at |-> offset, len |-> first]
       IN IF first = ChunkLen(chunk) THEN <<run>>
          ELSE <<run, [run EXCEPT !.at = 0, !.len = ChunkLen(chunk) - first]>>

(* Mutant: a drained chunk is always kept, also with another behind it.    *)
ConsumeKeeps(ring, n) ==
  [chunks |-> <<[Head(ring.chunks) EXCEPT !.head = @ + n]>> \o Tail(ring.chunks),
   len |-> ring.len - n]

(* th_ring_consume: a drained first chunk is freed unless it is the only   *)
(* one and of the initial size.                                            *)
Consume(ring, n) ==
  LET first == [Head(ring.chunks) EXCEPT !.head = @ + n]
      keep == \/ ChunkLen(first) > 0
              \/ Len(ring.chunks) = 1 /\ first.capacity <= InitialCapacity
  IN [chunks |-> (IF keep THEN <<first>> ELSE <<>>) \o Tail(ring.chunks),
      len |-> ring.len - n]

(* What the cell of a chunk holds when it is read, now that the chunk may  *)
(* have been freed.                                                        *)
CellAt(ring, id, at) ==
  LET found == SelectInSeq(ring.chunks, LAMBDA chunk : chunk.id = id)
  IN IF found = 0 \/ at \notin DOMAIN ring.chunks[found].data THEN Unwritten
     ELSE ring.chunks[found].data[at]
=============================================================================
