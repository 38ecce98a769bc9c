------------------------ MODULE RequestBuilderProofs ------------------------
(***************************************************************************)
(* Partial correctness of FetchRequestBuilder.build, for every range and   *)
(* every chunk length.  (That the loop ends is left to TLC.)               *)
(***************************************************************************)
EXTENDS RequestBuilder, TLAPS

n == Len(requests)

BuilderTypeOK ==
    /\ call \in [first : Int, last : Int, size : Int, backfill : BOOLEAN]
    /\ pc \in {"called", "loop", "done", "raised"}
    /\ chunk_start \in Int
    /\ requests \in Seq(Chunk)

\* The requests built so far tile call.first .. chunk_start - 1.
Tiling ==
    /\ \A d \in call.first .. chunk_start - 1 : \E s \in 1 .. n : Covers(s, d)
    /\ \A s \in 1 .. n : /\ call.first <= requests[s].start
                         /\ requests[s].start <= requests[s].end
                         /\ requests[s].end <= call.last
                         /\ requests[s].end < chunk_start
    /\ \A s, t \in 1 .. n : s < t => requests[s].end < requests[t].start
    /\ call.first <= chunk_start

InLoop == pc \in {"loop", "done"} => call.first <= call.last /\ call.size >= 1

AtCall == pc = "called" => n = 0 /\ chunk_start = call.first

LoopEnds == pc = "done" => chunk_start > call.last

BuilderInv == BuilderTypeOK /\ InLoop /\ LoopEnds /\ Tiling /\ AtCall

\* Between its turns the loop has typed variables, legal arguments and a
\* tiling of the days before chunk_start.
THEOREM BuilderInvariant == BuilderSpec => []BuilderInv
<1>1. BuilderInit => BuilderInv
  <2> SUFFICES ASSUME BuilderInit PROVE BuilderInv
    OBVIOUS
  <2>1. n = 0 /\ requests \in Seq(Chunk)
    BY DEF BuilderInit, n
  <2>2. BuilderTypeOK
    BY <2>1, BuilderAssumption DEF BuilderInit, BuilderTypeOK
  <2>3. Tiling
    BY <2>1, <2>2 DEF BuilderInit, Tiling, BuilderTypeOK
  <2> QED BY <2>1, <2>2, <2>3 DEF BuilderInit, BuilderInv, InLoop, LoopEnds, AtCall
<1>2. BuilderInv /\ [BuilderNext]_builderVars => BuilderInv'
  <2> SUFFICES ASSUME BuilderInv, [BuilderNext]_builderVars PROVE BuilderInv'
    OBVIOUS
  <2> USE DEF BuilderInv
  <2>1. CASE Validate
    BY <2>1 DEF Validate, AtCall, BuilderTypeOK, InLoop, LoopEnds, Tiling, n, Covers
  <2>2. CASE AddChunk
    <3> DEFINE e == Earlier(chunk_start + chunk_days - 1, call.last)
               c == [start |-> chunk_start, end |-> e]
    <3>1. /\ chunk_days \in Int /\ chunk_days >= 1
          /\ pc = "loop" /\ chunk_start <= call.last
      BY <2>2, BuilderAssumption DEF AddChunk, chunk_days, BuilderTypeOK, InLoop
    <3>2. /\ e \in Int /\ chunk_start <= e /\ e <= call.last
          /\ chunk_start' = e + 1 /\ requests' = Append(requests, c)
          /\ call' = call /\ pc' = pc
      BY <2>2, <3>1 DEF AddChunk, BuilderTypeOK, Earlier
    <3> HIDE DEF e
    <3>3. c \in Chunk /\ c.start = chunk_start /\ c.end = e
      BY <3>2 DEF Chunk, BuilderTypeOK
    <3> HIDE DEF c
    <3>4. /\ n \in Nat /\ n' = n + 1
          /\ requests'[n + 1] = c
          /\ \A s \in 1 .. n : requests'[s] = requests[s]
      BY <3>2, <3>3 DEF BuilderTypeOK, n
    <3>5. BuilderTypeOK'
      BY <3>2, <3>3 DEF BuilderTypeOK
    <3>6. \A s \in 1 .. n : requests[s] \in Chunk
      BY DEF BuilderTypeOK, n
    <3>7. Tiling'
      <4>1. \A d \in call'.first .. chunk_start' - 1 : \E s \in 1 .. n' : Covers(s, d)'
        <5> TAKE d \in call'.first .. chunk_start' - 1
        <5> SUFFICES \E s \in 1 .. n' : requests'[s].start <= d /\ d <= requests'[s].end
          BY DEF Covers
        <5>1. CASE d < chunk_start
          <6>1. PICK s \in 1 .. n : Covers(s, d)
            BY <5>1, <3>2, <3>4 DEF Tiling, BuilderTypeOK
          <6>2. s \in 1 .. n' /\ requests'[s] = requests[s]
            BY <6>1, <3>4
          <6> QED BY <6>1, <6>2 DEF Covers
        <5>2. CASE d >= chunk_start
          <6>1. n + 1 \in 1 .. n'
            BY <3>4
          <6>2. c.start <= d /\ d <= c.end
            BY <5>2, <3>2, <3>3 DEF BuilderTypeOK
          <6> QED BY <6>1, <6>2, <3>4
        <5>3. d < chunk_start \/ d >= chunk_start
          BY <3>2 DEF BuilderTypeOK
        <5> QED BY <5>1, <5>2, <5>3
      <4>2. \A s \in 1 .. n' : /\ call'.first <= requests'[s].start
                               /\ requests'[s].start <= requests'[s].end
                               /\ requests'[s].end <= call'.last
                               /\ requests'[s].end < chunk_start'
        <5> TAKE s \in 1 .. n'
        <5>1. CASE s \in 1 .. n
          <6>1. requests'[s] = requests[s] /\ requests[s].end \in Int
            BY <5>1, <3>4, <3>6 DEF Chunk
          <6>2. /\ call.first <= requests[s].start /\ requests[s].start <= requests[s].end
                /\ requests[s].end <= call.last /\ requests[s].end < chunk_start
            BY <5>1 DEF Tiling
          <6>3. requests[s].end < e + 1
            BY <6>1, <6>2, <3>2 DEF BuilderTypeOK
          <6> QED BY <6>1, <6>2, <6>3, <3>2
        <5>2. CASE s = n + 1
          <6>1. call.first <= chunk_start
            BY <3>1 DEF InLoop, Tiling, BuilderTypeOK
          <6> QED BY <6>1, <5>2, <3>2, <3>3, <3>4 DEF BuilderTypeOK
        <5> QED BY <5>1, <5>2, <3>4
      <4>3. \A s, t \in 1 .. n' : s < t => requests'[s].end < requests'[t].start
        <5> TAKE s, t \in 1 .. n'
        <5> HAVE s < t
        <5>1. s \in 1 .. n
          BY <3>4
        <5>2. CASE t \in 1 .. n
          BY <5>1, <5>2, <3>4 DEF Tiling
        <5>3. CASE t = n + 1
          BY <5>1, <5>3, <3>3, <3>4 DEF Tiling
        <5> QED BY <5>2, <5>3, <3>4
      <4>4. call'.first <= chunk_start'
        BY <3>2 DEF Tiling, BuilderTypeOK
      <4> QED BY <4>1, <4>2, <4>3, <4>4 DEF Tiling
    <3>8. InLoop' /\ LoopEnds' /\ AtCall'
      BY <3>1, <3>2 DEF InLoop, LoopEnds, AtCall
    <3> QED BY <3>5, <3>7, <3>8
  <2>3. CASE Return
    BY <2>3 DEF Return, AtCall, BuilderTypeOK, InLoop, LoopEnds, Tiling, n, Covers
  <2>4. CASE UNCHANGED builderVars
    BY <2>4 DEF builderVars, AtCall, BuilderTypeOK, InLoop, LoopEnds, Tiling, n, Covers
  <2> QED BY <2>1, <2>2, <2>3, <2>4 DEF BuilderNext
<1> QED BY <1>1, <1>2, PTL DEF BuilderSpec

\* Every planned day is in exactly one request, no other day in any, whatever
\* the range and the chunk length (FetchRequestBuilder.build's loop).
THEOREM BuilderCoversEachDayOnce == BuilderSpec => []EveryDayOnce
<1>1. BuilderInv => EveryDayOnce
  <2> SUFFICES ASSUME BuilderInv, pc = "done" PROVE EveryDayOnce
    BY DEF EveryDayOnce
  <2>1. n \in Nat /\ chunk_start > call.last /\ \A s \in 1 .. n : requests[s] \in Chunk
    BY DEF BuilderInv, BuilderTypeOK, LoopEnds, n
  <2>2. ASSUME NEW d \in call.first .. call.last
        PROVE  \E s \in 1 .. n : Covers(s, d) /\ \A t \in 1 .. n : Covers(t, d) => t = s
    <3>1. PICK s \in 1 .. n : Covers(s, d)
      BY <2>1, <2>2 DEF BuilderInv, BuilderTypeOK, Tiling
    <3>2. ASSUME NEW t \in 1 .. n, Covers(t, d), t # s PROVE FALSE
      <4>1. /\ requests[s].start \in Int /\ requests[s].end \in Int
            /\ requests[t].start \in Int /\ requests[t].end \in Int /\ d \in Int
        BY <2>1 DEF Chunk, BuilderInv, BuilderTypeOK
      <4>2. requests[s].end < requests[t].start \/ requests[t].end < requests[s].start
        BY <2>1, <3>2 DEF BuilderInv, Tiling
      <4> QED BY <3>1, <3>2, <4>1, <4>2 DEF Covers
    <3> QED BY <3>1, <3>2
  <2> QED BY <2>1, <2>2 DEF EveryDayOnce, BuilderInv, Tiling, n
<1> QED BY <1>1, BuilderInvariant, PTL
-----------------------------------------------------------------------------
\* q chunks of c days are what it takes to reach a.
LEMMA DivUnique ==
    ASSUME NEW a \in Int, NEW c \in Nat \ {0}, NEW q \in Int, q * c <= a, a < (q + 1) * c
    PROVE  a \div c = q
  BY SMTT(60)

LEMMA NextMultiple ==
    ASSUME NEW c \in Int, NEW k \in Int
    PROVE  /\ k * c \in Int /\ (k + 1) * c = k * c + c
           /\ (k + 1 - 1) * c = k * c
  BY SMTT(60)

\* The chunks so far are the closed form's, and chunk_start is where the next
\* one begins, unless the range is used up.
ClosedForm ==
    pc \in {"loop", "done"} =>
        /\ \A s \in 1 .. n :
             requests[s] = [start |-> ChunkStart(call.first, chunk_days, s),
                            end   |-> ChunkEnd(call.first, call.last, chunk_days, s)]
        /\ \/ chunk_start = call.first + n * chunk_days
           \/ chunk_start = call.last + 1 /\ chunk_start <= call.first + n * chunk_days
        /\ n > 0 => call.first + (n - 1) * chunk_days <= call.last

\* The loop of FetchRequestBuilder.build computes the chunks of module
\* Chunking: their number and the range of each, for every range and length.
THEOREM BuilderComputesChunks == BuilderSpec => []ComputesChunks
<1>1. BuilderInit => ClosedForm
  BY DEF BuilderInit, ClosedForm
<1>2. BuilderInv /\ ClosedForm /\ [BuilderNext]_builderVars => ClosedForm'
  <2> SUFFICES ASSUME BuilderInv, ClosedForm, [BuilderNext]_builderVars PROVE ClosedForm'
    OBVIOUS
  <2>1. CASE Validate
    <3>1. /\ n = 0 /\ n' = 0 /\ chunk_start' = chunk_start /\ call' = call
          /\ chunk_start = call.first /\ call.first \in Int /\ chunk_days' \in Int
      BY <2>1, BuilderAssumption
         DEF Validate, BuilderInv, BuilderTypeOK, AtCall, n, chunk_days
    <3> DEFINE c == chunk_days'
    <3> HIDE DEF c
    <3>2. c \in Int => 0 * c = 0
      OBVIOUS
    <3> QED BY <3>1, <3>2 DEF ClosedForm, c
  <2>2. CASE AddChunk
    <3> DEFINE c == chunk_days  k == n
    <3>1. /\ c \in Nat \ {0} /\ c' = c /\ call' = call /\ pc = "loop" /\ pc' = pc
          /\ call.first \in Int /\ call.last \in Int /\ chunk_start \in Int
          /\ chunk_start <= call.last
      BY <2>2, BuilderAssumption
         DEF AddChunk, chunk_days, BuilderInv, BuilderTypeOK, InLoop
    <3>2. /\ n \in Nat /\ n' = n + 1
          /\ \A s \in 1 .. n : requests'[s] = requests[s]
          /\ requests'[n + 1] = [start |-> chunk_start,
                                 end   |-> Earlier(chunk_start + c - 1, call.last)]
          /\ chunk_start' = Earlier(chunk_start + c - 1, call.last) + 1
      BY <2>2 DEF AddChunk, BuilderInv, BuilderTypeOK, n
    <3> HIDE DEF c
    <3>3. k * c \in Int /\ (k + 1) * c = k * c + c /\ (k + 1 - 1) * c = k * c
      BY <3>1, <3>2, NextMultiple
    <3>4. chunk_start = call.first + k * c
      BY <3>1, <3>3 DEF ClosedForm, c
    <3>5. requests'[k + 1] = [start |-> ChunkStart(call.first, c, k + 1),
                              end   |-> ChunkEnd(call.first, call.last, c, k + 1)]
      BY <3>2, <3>3, <3>4 DEF ChunkStart, ChunkEnd
    <3>6. \A s \in 1 .. n' :
            requests'[s] = [start |-> ChunkStart(call'.first, c', s),
                            end   |-> ChunkEnd(call'.first, call'.last, c', s)]
      BY <3>1, <3>2, <3>5 DEF ClosedForm, c
    <3>7. \/ chunk_start' = call.first + (k + 1) * c
          \/ chunk_start' = call.last + 1 /\ chunk_start' <= call.first + (k + 1) * c
      BY <3>1, <3>2, <3>3, <3>4 DEF Earlier
    <3>8. call.first + (k + 1 - 1) * c <= call.last
      BY <3>1, <3>3, <3>4
    <3> QED BY <3>1, <3>2, <3>6, <3>7, <3>8 DEF ClosedForm, c
  <2>3. CASE Return
    BY <2>3 DEF Return, ClosedForm, n, chunk_days
  <2>4. CASE UNCHANGED builderVars
    BY <2>4 DEF builderVars, ClosedForm, n, chunk_days
  <2> QED BY <2>1, <2>2, <2>3, <2>4 DEF BuilderNext
<1>3. BuilderInv /\ ClosedForm => ComputesChunks
  <2> SUFFICES ASSUME BuilderInv, ClosedForm, pc = "done"
               PROVE  n = ChunkCount(call.first, call.last, chunk_days)
    BY DEF ComputesChunks, ClosedForm, n
  <2> DEFINE c == chunk_days  a == call.last - call.first
  <2>1. /\ c \in Nat \ {0} /\ n \in Nat /\ chunk_start > call.last
        /\ call.first \in Int /\ call.last \in Int /\ chunk_start \in Int
        /\ call.first <= call.last
    BY BuilderAssumption DEF chunk_days, BuilderInv, BuilderTypeOK, InLoop, LoopEnds, n
  <2> HIDE DEF c
  <2>2. n * c \in Int
    BY <2>1
  <2>3. n # 0
    BY <2>1, <2>2 DEF ClosedForm, c
  <2>4. n > 0 /\ n - 1 \in Int /\ (n - 1) + 1 = n /\ a \in Int /\ (n - 1) * c \in Int
    BY <2>1, <2>3
  <2>5. (n - 1) * c <= a /\ a < n * c
    BY <2>1, <2>2, <2>4 DEF ClosedForm, c
  <2>6. a \div c = n - 1
    BY <2>1, <2>4, <2>5, DivUnique
  <2> QED BY <2>1, <2>6 DEF ChunkCount, c
<1> QED BY <1>1, <1>2, <1>3, BuilderInvariant, PTL DEF BuilderSpec
=============================================================================
