------------------------------ MODULE Chunking ------------------------------
(***************************************************************************)
(* The arithmetic of FetchRequestBuilder: how a planned date range is cut  *)
(* into chunks.  A date is an integer day number.  The loop that computes  *)
(* the chunks is in module RequestBuilder, which shows that it yields      *)
(* exactly these ones.                                                     *)
(***************************************************************************)
EXTENDS Integers

\* Load types whose chunks are backfill_chunk_days long; all others use
\* batch_size_days (_BACKFILL_LOAD_TYPES).
BackfillTypes == {"INITIAL_LOAD", "HISTORY_EXTENSION", "FORCE_RELOAD"}

Earlier(a, b) == IF a <= b THEN a ELSE b
Later(a, b)   == IF a >= b THEN a ELSE b

\* Chunk number s (from 1) of the range first..last cut every `size` days.
ChunkStart(first, size, s)     == first + (s - 1) * size
ChunkEnd(first, last, size, s) ==
    Earlier(ChunkStart(first, size, s) + size - 1, last)

\* Mutant of ChunkCount: the last, shorter chunk is forgotten.
WholeChunks(first, last, size) == (last - first) \div size

ChunkCount(first, last, size) == ((last - first) \div size) + 1
=============================================================================
