--------------------------- MODULE RequestBuilder ---------------------------
(***************************************************************************)
(* FetchRequestBuilder.build as the loop it is, one chunk per turn.  The   *)
(* control plane modules use the closed form of module Chunking instead;   *)
(* here it is shown that the loop computes it.                             *)
(***************************************************************************)
EXTENDS Chunking, Sequences

CONSTANTS
    Dates,             \* day numbers build() may be called with
    BatchSizes,        \* values of batch_size_days, illegal ones included
    BackfillChunkDays  \* ingestion.backfill_chunk_days; build() does not check it

ASSUME BuilderAssumption ==
    Dates \subseteq Int /\ BatchSizes \subseteq Int /\ BackfillChunkDays \in Nat \ {0}

VARIABLES
    call,         \* the arguments: start_date, end_date, batch_size_days, backfill?
    pc,           \* where build() is
    chunk_start,  \* first day of the next chunk
    requests      \* the chunks so far; `seq` is their number

builderVars == <<call, pc, chunk_start, requests>>

Chunk == [start : Int, end : Int]

chunk_days == IF call.backfill THEN BackfillChunkDays ELSE call.size

BuilderInit ==
    /\ call \in [first : Dates, last : Dates, size : BatchSizes, backfill : BOOLEAN]
    /\ pc = "called"
    /\ chunk_start = call.first
    /\ requests = <<>>

\* The two checks of the arguments.
Validate ==
    /\ pc = "called"
    /\ pc' = IF call.last < call.first \/ call.size < 1 THEN "raised" ELSE "loop"
    /\ UNCHANGED <<call, chunk_start, requests>>

\* Mutant of AddChunk: an end date one too late.
EndTooLate ==
    /\ pc = "loop" /\ chunk_start <= call.last
    /\ requests' = Append(requests, [start |-> chunk_start,
                                     end |-> Earlier(chunk_start + chunk_days, call.last)])
    /\ chunk_start' = chunk_start + chunk_days
    /\ UNCHANGED <<call, pc>>

AddChunk ==
    /\ pc = "loop" /\ chunk_start <= call.last
    /\ LET chunk_end == Earlier(chunk_start + chunk_days - 1, call.last)
       IN  /\ requests' = Append(requests, [start |-> chunk_start, end |-> chunk_end])
           /\ chunk_start' = chunk_end + 1
    /\ UNCHANGED <<call, pc>>

Return ==
    /\ pc = "loop" /\ chunk_start > call.last
    /\ pc' = "done"
    /\ UNCHANGED <<call, chunk_start, requests>>

BuilderNext == Validate \/ AddChunk \/ Return

BuilderSpec == BuilderInit /\ [][BuilderNext]_builderVars
-----------------------------------------------------------------------------
Covers(s, d) == requests[s].start <= d /\ d <= requests[s].end

\* The vendor is asked for each planned day in exactly one request and for
\* no other day: chunking neither drops nor doubles a boundary day.
EveryDayOnce ==
    pc = "done" =>
        /\ \A d \in call.first .. call.last :
             \E s \in 1 .. Len(requests) :
                 Covers(s, d) /\ \A t \in 1 .. Len(requests) : Covers(t, d) => t = s
        /\ \A s \in 1 .. Len(requests) :
             /\ call.first <= requests[s].start /\ requests[s].end <= call.last
             /\ requests[s].start <= requests[s].end

\* The loop computes what module Chunking says, which is what the control
\* plane modules emit.
ComputesChunks ==
    pc = "done" =>
        /\ Len(requests) = ChunkCount(call.first, call.last, chunk_days)
        /\ \A s \in 1 .. Len(requests) :
             requests[s] = [start |-> ChunkStart(call.first, chunk_days, s),
                            end   |-> ChunkEnd(call.first, call.last, chunk_days, s)]
=============================================================================
