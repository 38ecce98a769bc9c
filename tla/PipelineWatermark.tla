--------------------------- MODULE PipelineWatermark ---------------------------
(***************************************************************************)
(* The watermark tells the truth, and what it does not say will be asked   *)
(* for again, when the two jobs take turns: what a load asks for joins on  *)
(* to what the watermark covers, so that when the load arrives the         *)
(* watermark grows over days that the load has asked for, and when it does *)
(* not, its days are still on the side of the watermark that the next plan *)
(* starts from.                                                            *)
(***************************************************************************)
EXTENDS PipelinePlanning
-----------------------------------------------------------------------------
(* The range of a plan and the rows that are cut from it.                  *)

LEMMA DivBounds ==
    ASSUME NEW a \in Nat, NEW c \in Nat \ {0}
    PROVE  /\ a \div c \in Nat
           /\ (a \div c) * c \in Nat /\ (a \div c) * c <= a /\ a < (a \div c) * c + c
  BY SMTT(60)

LEMMA DivMonotone ==
    ASSUME NEW a \in Nat, NEW b \in Nat, a <= b, NEW c \in Nat \ {0}
    PROVE  a \div c <= b \div c
  BY SMTT(60)

LEMMA TimesMonotone ==
    ASSUME NEW m \in Nat, NEW n \in Nat, m <= n, NEW c \in Nat
    PROVE  m * c \in Nat /\ m * c <= n * c
  BY SMTT(60)

\* A row that is cut from a range has a day, and each day is in a row.
LEMMA RowIsRange ==
    ASSUME NEW p \in FetchPlan, p.start <= p.end,
           NEW s \in 1 .. ChunkCount(p.start, p.end, ChunkDays(p.mode))
    PROVE  BuiltRow(p, s).start <= BuiltRow(p, s).end
<1> DEFINE size == ChunkDays(p.mode)
<1>1. size \in Nat \ {0}
  BY PlanningAssumption DEF ChunkDays
<1>2. p.end - p.start \in Nat /\ p.start \in Int /\ p.end \in Int
  BY DEF FetchPlan
<1>3. s - 1 \in Nat /\ s - 1 <= (p.end - p.start) \div size
  <2> HIDE DEF size
  <2>1. (p.end - p.start) \div size \in Nat
    BY <1>1, <1>2, DivBounds
  <2>2. s \in 1 .. ((p.end - p.start) \div size) + 1
    BY DEF ChunkCount, size
  <2> QED BY <2>1, <2>2
<1>4. (s - 1) * size \in Nat /\ (s - 1) * size <= p.end - p.start
  <2> HIDE DEF size
  <2>1. (p.end - p.start) \div size \in Nat /\ ((p.end - p.start) \div size) * size \in Nat
        /\ ((p.end - p.start) \div size) * size <= p.end - p.start
    BY <1>1, <1>2, DivBounds
  <2>2. (s - 1) * size \in Nat /\ (s - 1) * size <= ((p.end - p.start) \div size) * size
    BY <1>1, <1>3, <2>1, TimesMonotone
  <2> QED BY <1>2, <2>1, <2>2
<1>5. ChunkStart(p.start, size, s) <= ChunkEnd(p.start, p.end, size, s)
  <2> HIDE DEF size
  <2> QED BY <1>1, <1>2, <1>4 DEF ChunkStart, ChunkEnd, Earlier
<1> QED BY <1>5 DEF BuiltRow

LEMMA DayIsInRow ==
    ASSUME NEW p \in FetchPlan, NEW d \in Int, p.start <= d, d <= p.end
    PROVE  \E s \in 1 .. ChunkCount(p.start, p.end, ChunkDays(p.mode)) :
             BuiltRow(p, s).start <= d /\ d <= BuiltRow(p, s).end
<1> DEFINE size == ChunkDays(p.mode)
           q    == (d - p.start) \div size
<1>1. size \in Nat \ {0}
  BY PlanningAssumption DEF ChunkDays
<1>2. d - p.start \in Nat /\ p.end - p.start \in Nat /\ d - p.start <= p.end - p.start
      /\ p.start \in Int /\ p.end \in Int
  BY DEF FetchPlan
<1>3. q \in Nat /\ q * size \in Nat /\ q * size <= d - p.start /\ d - p.start < q * size + size
  <2> HIDE DEF size
  <2> QED BY <1>1, <1>2, DivBounds
<1>4. q <= (p.end - p.start) \div size /\ (p.end - p.start) \div size \in Nat
  <2> HIDE DEF size
  <2> QED BY <1>1, <1>2, DivBounds, DivMonotone
<1>5. q + 1 \in 1 .. ChunkCount(p.start, p.end, size)
  <2> HIDE DEF size, q
  <2> QED BY <1>3, <1>4 DEF ChunkCount
<1>6. ChunkStart(p.start, size, q + 1) <= d /\ d <= ChunkEnd(p.start, p.end, size, q + 1)
  <2> HIDE DEF size, q
  <2>1. q + 1 - 1 = q
    BY <1>3
  <2>2. (q + 1 - 1) * size = q * size
    BY <2>1, Zenon
  <2>3. ChunkStart(p.start, size, q + 1) = p.start + q * size
    BY <1>2, <1>3, <2>1, <2>2 DEF ChunkStart
  <2> QED BY <1>1, <1>2, <1>3, <2>3 DEF ChunkEnd, Earlier
<1>7. BuiltRow(p, q + 1).start <= d /\ d <= BuiltRow(p, q + 1).end
  BY <1>6 DEF BuiltRow
<1> QED BY <1>5, <1>7
-----------------------------------------------------------------------------
(* Loads: what one planner run asks for one instrument.                    *)

\* A load has a row that starts by day d, or one that ends on d or later.
BeginsBy(k, d) == \E m \in DOMAIN fetch_request : SameLoad(k, m) /\ fetch_request[m].start <= d
EndsFrom(k, d) == \E m \in DOMAIN fetch_request : SameLoad(k, m) /\ d <= fetch_request[m].end

\* Rows are ranges that end by today, and so are plans, one per instrument.
RowsArePast ==
    \A k \in DOMAIN fetch_request :
      /\ fetch_request[k].start <= fetch_request[k].end
      /\ fetch_request[k].end <= today

PlansArePast ==
    /\ \A e \in planner.emitted : /\ e.plan.start <= e.plan.end
                                  /\ e.plan.end <= today /\ e.inst \notin planner.todo
    /\ \A e, f \in planner.emitted : e.inst = f.inst => e = f

\* The rows of a load leave out no day between them.
LoadsAreRanges ==
    \A k, l \in DOMAIN fetch_request : SameLoad(k, l) =>
      \A d \in Int : fetch_request[k].start <= d /\ d <= fetch_request[l].end =>
        \E m \in DOMAIN fetch_request :
          SameLoad(k, m) /\ fetch_request[m].start <= d /\ d <= fetch_request[m].end

RangeInv == RowsArePast /\ PlansArePast /\ LoadsAreRanges

\* What the insert makes of a plan: rows of a new batch that have its days and
\* no others.
LEMMA InsertedRows ==
    ASSUME TypeInv, BatchInv, PlansArePast, PlannerInsert
    PROVE  /\ DOMAIN fetch_request' = DOMAIN fetch_request \cup NewKeys
           /\ \A k \in DOMAIN fetch_request :
                fetch_request'[k] = fetch_request[k] /\ KeyBatch(k) # batches + 1 /\ k \notin NewKeys
           /\ \A k \in NewKeys :
                /\ KeyBatch(k) = batches + 1
                /\ \E e \in planner.emitted :
                     /\ e.inst = KeyInstrument(k)
                     /\ e.plan.start <= fetch_request'[k].start
                     /\ fetch_request'[k].start <= fetch_request'[k].end
                     /\ fetch_request'[k].end <= e.plan.end
           /\ \A e \in planner.emitted : \A d \in Int :
                e.plan.start <= d /\ d <= e.plan.end =>
                  \E k \in NewKeys : /\ KeyInstrument(k) = e.inst
                                     /\ fetch_request'[k].start <= d /\ d <= fetch_request'[k].end
<1>1. TypeOK /\ batches < MaxBatches
  BY DEF PlannerInsert, TypeInv, TypeCore, BatchLeft
<1>2. batches \in Int /\ \A k \in DOMAIN fetch_request : KeyBatch(k) <= batches /\ KeyBatch(k) \in Int
  BY <1>1, KeyParts, ControlPlaneAssumption DEF TypeOK, SharedTypeOK, Batches, BatchInv
<1>3. \A k \in NewKeys : KeyBatch(k) = batches + 1
  BY <1>1, NewKeysType DEF NextBatch
<1>4. \A k \in DOMAIN fetch_request : KeyBatch(k) # batches + 1 /\ k \notin NewKeys
  BY <1>2, <1>3
<1>5. /\ DOMAIN fetch_request' = DOMAIN fetch_request \cup NewKeys
      /\ \A k \in DOMAIN fetch_request : fetch_request'[k] = fetch_request[k]
      /\ \A k \in NewKeys : fetch_request'[k] = NewRow(k)
  BY <1>4 DEF PlannerInsert
<1>6. ASSUME NEW e \in planner.emitted, NEW k \in NewKeys, KeyInstrument(k) = e.inst
      PROVE  /\ NewRow(k) = BuiltRow(e.plan, KeySeq(k))
             /\ KeySeq(k) \in 1 .. ChunkCount(e.plan.start, e.plan.end, ChunkDays(e.plan.mode))
  <2>1. PICK f \in planner.emitted : k \in BuiltKeys(NextBatch, f.inst, f.plan)
    BY DEF NewKeys
  <2>2. PICK s \in 1 .. ChunkCount(f.plan.start, f.plan.end, ChunkDays(f.plan.mode)) :
          k = <<NextBatch, f.inst, s>>
    BY <2>1 DEF BuiltKeys
  <2>3. KeyInstrument(k) = f.inst /\ KeySeq(k) = s
    BY <2>2 DEF KeyInstrument, KeySeq
  <2>4. f = e
    BY <1>6, <2>3 DEF PlansArePast
  <2>5. (CHOOSE g \in planner.emitted : g.inst = KeyInstrument(k)) = e
    BY <1>6 DEF PlansArePast
  <2> QED BY <2>2, <2>3, <2>4, <2>5 DEF NewRow
<1>7. \A e \in planner.emitted : e.plan \in FetchPlan /\ e.plan.start <= e.plan.end
  BY <1>1 DEF TypeOK, PlannerState, PlansArePast
<1>8. ASSUME NEW k \in NewKeys
      PROVE  \E e \in planner.emitted :
                     /\ e.inst = KeyInstrument(k)
                     /\ e.plan.start <= fetch_request'[k].start
                     /\ fetch_request'[k].start <= fetch_request'[k].end
                     /\ fetch_request'[k].end <= e.plan.end
  <2>1. PICK e \in planner.emitted : e.inst = KeyInstrument(k)
    BY <1>1, NewKeysType
  <2>2. KeySeq(k) \in Nat \ {0}
    BY <1>1, NewKeysType, KeyParts
  <2>3. /\ e.plan.start <= BuiltRow(e.plan, KeySeq(k)).start
        /\ BuiltRow(e.plan, KeySeq(k)).end <= e.plan.end
    BY <1>7, <2>2, RowInPlan
  <2>4. BuiltRow(e.plan, KeySeq(k)).start <= BuiltRow(e.plan, KeySeq(k)).end
    BY <1>6, <1>7, <2>1, RowIsRange
  <2>5. fetch_request'[k] = BuiltRow(e.plan, KeySeq(k))
    BY <1>5, <1>6, <2>1
  <2> QED BY <2>1, <2>3, <2>4, <2>5
<1>9. ASSUME NEW e \in planner.emitted, NEW d \in Int, e.plan.start <= d, d <= e.plan.end
      PROVE  \E k \in NewKeys : /\ KeyInstrument(k) = e.inst
                                /\ fetch_request'[k].start <= d /\ d <= fetch_request'[k].end
  <2>1. PICK s \in 1 .. ChunkCount(e.plan.start, e.plan.end, ChunkDays(e.plan.mode)) :
          BuiltRow(e.plan, s).start <= d /\ d <= BuiltRow(e.plan, s).end
    BY <1>7, <1>9, DayIsInRow
  <2> DEFINE k == <<NextBatch, e.inst, s>>
  <2>2. k \in NewKeys /\ KeyInstrument(k) = e.inst /\ KeySeq(k) = s
    BY <2>1 DEF NewKeys, BuiltKeys, KeyInstrument, KeySeq
  <2> HIDE DEF k
  <2>3. fetch_request'[k] = BuiltRow(e.plan, s)
    BY <1>5, <1>6, <2>2
  <2> QED BY <2>1, <2>2, <2>3
<1> QED BY <1>3, <1>4, <1>5, <1>8, <1>9

\* A turn of the planner's loop that adds a plan to the run.
Adds(i, wm) ==
    /\ planner.phase = "plan" /\ i \in planner.todo /\ i \in Instruments /\ i \notin planner.busy
    /\ wm \in WatermarkRead(i) /\ Plan(i, wm, today).mode # "NO_OP" /\ Buildable(Plan(i, wm, today))
    /\ planner'.emitted = planner.emitted \cup {[inst |-> i, plan |-> Plan(i, wm, today)]}
    /\ planner'.todo = planner.todo \ {i}
    /\ UNCHANGED shared

LEMMA PlannerOutcome ==
    ASSUME TypeInv, BatchInv, [Next]_vars
    PROVE  \/ planner'.emitted = {}
           \/ planner'.emitted = planner.emitted /\ planner'.todo \subseteq planner.todo
           \/ \E i, wm : Adds(i, wm)
<1> DEFINE Goal == \/ planner'.emitted = {}
                   \/ planner'.emitted = planner.emitted /\ planner'.todo \subseteq planner.todo
                   \/ \E i, wm : Adds(i, wm)
<1>a. planner \in PlannerState
  BY DEF TypeInv, TypeCore, TypeOK
<1>1. ASSUME UNCHANGED planner PROVE Goal
  BY <1>1
<1>2. ASSUME PlannerStart \/ PlannerListPending \/ PlannerMarkOrphans \/ PlannerReadInFlight
      PROVE  Goal
  <2>1. planner'.emitted = planner.emitted /\ planner.phase \notin {"plan", "insert"}
    BY <1>2, <1>a DEF PlannerStart, PlannerListPending, PlannerMarkOrphans, PlannerReadInFlight,
                      PlannerState
  <2> QED BY <2>1 DEF BatchInv
<1>3. ASSUME NEW i \in planner.todo, PlannerPlan(i) PROVE Goal
  <2>1. PICK wm \in WatermarkRead(i) :
          \/ planner' = [planner EXCEPT !.todo = planner.todo \ {i}]
          \/ /\ Plan(i, wm, today).mode # "NO_OP" /\ i \notin planner.busy
             /\ Buildable(Plan(i, wm, today))
             /\ planner' = [planner EXCEPT !.todo = planner.todo \ {i}, !.emitted =
                     planner.emitted \cup {[inst |-> i, plan |-> Plan(i, wm, today)]}]
          \/ planner' = IdlePlanner
    BY <1>3 DEF PlannerPlan
  <2>2. planner.phase = "plan" /\ i \in Instruments /\ UNCHANGED shared
    BY <1>3, <1>a DEF PlannerPlan, PlannerState
  <2>3. CASE planner' = [planner EXCEPT !.todo = planner.todo \ {i}]
    BY <2>3, <1>a DEF PlannerState
  <2>4. CASE /\ Plan(i, wm, today).mode # "NO_OP" /\ i \notin planner.busy
             /\ Buildable(Plan(i, wm, today))
             /\ planner' = [planner EXCEPT !.todo = planner.todo \ {i}, !.emitted =
                     planner.emitted \cup {[inst |-> i, plan |-> Plan(i, wm, today)]}]
    <3>1. /\ planner'.emitted = planner.emitted \cup {[inst |-> i, plan |-> Plan(i, wm, today)]}
          /\ planner'.todo = planner.todo \ {i}
      BY <1>a, <2>4 DEF PlannerState
    <3>2. Adds(i, wm)
      BY <2>2, <2>4, <3>1 DEF Adds
    <3> QED BY <3>2
  <2>5. CASE planner' = IdlePlanner
    BY <2>5 DEF IdlePlanner
  <2> QED BY <2>1, <2>3, <2>4, <2>5
<1>4. ASSUME PlannerPlanned PROVE Goal
  BY <1>4, <1>a DEF PlannerPlanned, PlannerState, IdlePlanner
<1>5. ASSUME PlannerInsert \/ PlannerFinish \/ PlannerCrash PROVE Goal
  <2>1. planner'.emitted = {}
    <3>1. CASE PlannerInsert
      BY <3>1 DEF PlannerInsert, IdlePlanner
    <3>2. CASE PlannerFinish \/ PlannerCrash
      BY <3>2 DEF PlannerFinish, PlannerCrash, IdlePlanner
    <3> QED BY <1>5, <3>1, <3>2
  <2> QED BY <2>1
<1>6. ASSUME NEW k \in planner.keys, PlannerPutManifest(k) PROVE Goal
  BY <1>6, <1>a DEF PlannerPutManifest, PlannerState
<1> HIDE DEF Goal
<1>7. Goal
  BY <1>1, <1>2, <1>3, <1>4, <1>5, <1>6
     DEF Next, vars, AgentStep, IngestStep, EnvironmentStep, PlannerStep, StartPlanner, PlannerWork
<1> QED BY <1>7 DEF Goal

\* The date does not go back, and stands still while the planner has plans.
LEMMA TodayGrows ==
    ASSUME TypeInv, BatchInv, [Next]_vars
    PROVE  /\ today \in Nat /\ today' \in Nat /\ today <= today'
           /\ planner.phase # "idle" => today' = today
<1>1. today \in Nat
  BY ControlPlaneAssumption DEF TypeInv, TypeCore, TypeOK, SharedTypeOK
<1>2. CASE NextDay /\ planner.phase = "idle"
  BY <1>1, <1>2 DEF NextDay
<1>3. ~(NextDay /\ planner.phase = "idle") => today' = today
  BY DEF Next, vars, shared, delta, queue, clock,
         PlannerStep, StartPlanner, PlannerStart, PlannerWork, PlannerListPending,
         PlannerMarkOrphans, PlannerReadInFlight, PlannerPlan, PlannerPlanned, PlannerInsert,
         PlannerPutManifest, PlannerFinish, PlannerCrash,
         AgentStep, AgentWork, AgentPoll, AgentTake, AgentLand, AgentPutDone,
         AgentAttemptFails, AgentPutFailed, AgentDeletePending, AgentCycleEnds, AgentCrash,
         IngestStep, StartIngest, IngestReadFailed, IngestWork, IngestReadDone, IngestMerge,
         IngestSelect, IngestOpenGroup, IngestAppendNew, IngestAppendAmended,
         IngestAppendRejected, IngestGroupFails, IngestGroupsDone, IngestFlush, IngestMark,
         IngestArchive, IngestCrash, EnvironmentStep, Suspend
<1> QED BY <1>1, <1>2, <1>3
-----------------------------------------------------------------------------
(* What is planned, asked for and buffered is past, and joins on.          *)

\* No mode of operation asks for a range of its own, wherever the watermark is.
NoFreeRanges == Restated = {} /\ Overridden = {}

\* The dates in the buffer lie in what the requests to be marked have asked for.
DatesAreAsked ==
    \A e \in ingest.dates :
      /\ e.span.earliest <= e.span.latest
      /\ \E m, n \in ingest.marks :
           /\ KeyInstrument(m) = e.inst /\ fetch_request[m].start <= e.span.earliest
           /\ KeyInstrument(n) = e.inst /\ e.span.latest <= fetch_request[n].end

WatermarksArePast ==
    \A i \in Instruments : /\ watermark[i].earliest <= watermark[i].latest
                           /\ watermark[i].earliest <= today

PastInv == RangeInv /\ DatesAreAsked /\ WatermarksArePast

\* Where a watermark is, a plan starts and ends next to it or in it.
Joins(first, last, wm) == first <= wm.latest + 1 /\ wm.earliest <= last + 1

LEMMA PlanJoins ==
    ASSUME HistoriesStart, NoFreeRanges, NEW i \in Instruments, NEW wm \in Watermark, NEW day \in Nat,
           wm # NoWatermark => wm.earliest <= wm.latest /\ wm.earliest <= day,
           Plan(i, wm, day).mode # "NO_OP"
    PROVE  /\ Plan(i, wm, day).end <= day
           /\ wm = NoWatermark => /\ Plan(i, wm, day).start = HistoryStart[i]
                                  /\ Plan(i, wm, day).end = day
           /\ wm # NoWatermark /\ HistoryStart[i] <= wm.latest + 1 =>
                Joins(Plan(i, wm, day).start, Plan(i, wm, day).end, wm)
<1>a. InitialStart(i, day) = HistoryStart[i] /\ HistoryStart[i] \in Nat
  BY PlanningAssumption DEF HistoriesStart, InitialStart
<1>b. wm.earliest \in Int /\ wm.latest \in Int
  BY DEF Watermark
<1>c. MaxGapDays \in Nat /\ BufferDays \in Nat /\ ExtendedStart \in Nat
  BY PlanningAssumption
<1>d. Later(wm.latest - BufferDays, wm.earliest) \in Int
      /\ (wm.earliest <= wm.latest => Later(wm.latest - BufferDays, wm.earliest) <= wm.latest)
  BY <1>b, <1>c DEF Later
<1> DEFINE p == Plan(i, wm, day)
<1>1. \/ p.start = HistoryStart[i] /\ p.end = day
      \/ /\ wm # NoWatermark
         /\ \/ p.start = ExtendedStart /\ p.end = wm.earliest - 1 /\ ExtendedStart < wm.earliest
            \/ p.start = wm.latest + 1 /\ p.end = day /\ day - wm.latest > MaxGapDays
            \/ p.start = Later(wm.latest - BufferDays, wm.earliest) /\ p.end = day
  BY <1>a DEF Plan, NoFreeRanges
<1> HIDE DEF p
<1>2. wm = NoWatermark => p.start = HistoryStart[i] /\ p.end = day
  BY <1>1
<1>3. p.end <= day
  BY <1>1, <1>b
<1>4. wm # NoWatermark /\ HistoryStart[i] <= wm.latest + 1 => Joins(p.start, p.end, wm)
  BY <1>1, <1>a, <1>b, <1>c, <1>d DEF Joins
<1> QED BY <1>2, <1>3, <1>4 DEF p

LEMMA PlansArePastNext ==
    ASSUME HistoriesStart, NoFreeRanges, TypeInv, BatchInv, PastInv, [Next]_vars
    PROVE  PlansArePast'
<1>a. \A e \in planner.emitted : e.plan.end \in Int /\ e.plan.end <= today
  BY DEF TypeInv, TypeCore, TypeOK, PlannerState, FetchPlan, PastInv, RangeInv, PlansArePast
<1>b. \A e \in planner.emitted : e.plan.end <= today'
  BY <1>a, TodayGrows
<1>1. CASE planner'.emitted = {}
  BY <1>1 DEF PlansArePast
<1>2. CASE planner'.emitted = planner.emitted /\ planner'.todo \subseteq planner.todo
  BY <1>2, <1>b DEF PastInv, RangeInv, PlansArePast
<1>3. ASSUME NEW i, NEW wm, Adds(i, wm) PROVE PlansArePast'
  <2>1. wm \in Watermark /\ (wm # NoWatermark => wm.earliest <= wm.latest /\ wm.earliest <= today)
    BY <1>3, NoWatermarkType DEF Adds, WatermarkRead, TypeInv, TypeCore, TypeOK, SharedTypeOK,
                                 PastInv, WatermarksArePast
  <2> DEFINE e == [inst |-> i, plan |-> Plan(i, wm, today)]
  <2>2. e.plan.end <= today
    BY <1>3, <2>1, PlanJoins, TodayGrows DEF Adds
  <2>3. e.plan.start <= e.plan.end /\ e.inst = i
    BY <1>3 DEF Adds, Buildable
  <2>4. today' = today
    BY <1>3 DEF Adds, shared, clock
  <2>5. /\ planner'.emitted = planner.emitted \cup {e} /\ planner'.todo = planner.todo \ {i}
        /\ i \in planner.todo
    BY <1>3 DEF Adds
  <2> HIDE DEF e
  <2> QED BY <2>2, <2>3, <2>4, <2>5 DEF PastInv, RangeInv, PlansArePast
<1> QED BY <1>1, <1>2, <1>3, PlannerOutcome

LEMMA RowsArePastNext ==
    ASSUME TypeInv, BatchInv, PastInv, [Next]_vars
    PROVE  RowsArePast'
<1>a. \A k \in DOMAIN fetch_request : fetch_request[k].end \in Int
  BY DEF TypeInv, TypeCore, TypeOK, SharedTypeOK, Request
<1>1. ASSUME NEW k \in DOMAIN fetch_request
      PROVE  /\ fetch_request'[k].start <= fetch_request'[k].end
             /\ fetch_request'[k].end <= today'
  BY <1>a, <1>1, RowKept, TodayGrows DEF PastInv, RangeInv, RowsArePast
<1>2. CASE ~PlannerInsert
  BY <1>1, <1>2, BatchFrame DEF BatchKept, RowsArePast
<1>3. CASE PlannerInsert
  <2>1. today' = today /\ today \in Int
    BY <1>3, TodayGrows DEF PlannerInsert, clock
  <2>2. ASSUME NEW k \in NewKeys
        PROVE  /\ fetch_request'[k].start <= fetch_request'[k].end
               /\ fetch_request'[k].end <= today'
    <3>1. PICK e \in planner.emitted : /\ fetch_request'[k].start <= fetch_request'[k].end
                                       /\ fetch_request'[k].end <= e.plan.end
      BY <1>3, InsertedRows DEF PastInv, RangeInv
    <3>2. e.plan.end <= today /\ e.plan.end \in Int
      BY DEF PastInv, RangeInv, PlansArePast, TypeInv, TypeCore, TypeOK, PlannerState, FetchPlan
    <3>3. fetch_request'[k].end \in Int
      BY <1>3, NextType, InsertedRows DEF PastInv, RangeInv, TypeInv, TypeCore, TypeOK, SharedTypeOK, Request
    <3> QED BY <2>1, <3>1, <3>2, <3>3
  <2> QED BY <1>1, <1>3, <2>2, InsertedRows DEF PastInv, RangeInv, RowsArePast
<1> QED BY <1>2, <1>3

LEMMA LoadsAreRangesNext ==
    ASSUME TypeInv, BatchInv, PastInv, [Next]_vars
    PROVE  LoadsAreRanges'
<1>a. \A k \in DOMAIN fetch_request : /\ k \in DOMAIN fetch_request'
                                      /\ fetch_request'[k].start = fetch_request[k].start
                                      /\ fetch_request'[k].end = fetch_request[k].end
  BY RowKept, DomainGrows
<1>b. \A k, l : SameLoad(k, l)' <=> SameLoad(k, l)
  BY DEF SameLoad, KeyInstrument, KeyBatch
<1> SUFFICES ASSUME NEW k \in DOMAIN fetch_request', NEW l \in DOMAIN fetch_request', SameLoad(k, l),
                    NEW d \in Int, fetch_request'[k].start <= d, d <= fetch_request'[l].end
             PROVE  \E m \in DOMAIN fetch_request' :
                      SameLoad(k, m) /\ fetch_request'[m].start <= d /\ d <= fetch_request'[m].end
  BY <1>b DEF LoadsAreRanges
<1>1. CASE k \in DOMAIN fetch_request /\ l \in DOMAIN fetch_request
  <2>1. PICK m \in DOMAIN fetch_request :
          SameLoad(k, m) /\ fetch_request[m].start <= d /\ d <= fetch_request[m].end
    BY <1>1, <1>a DEF PastInv, RangeInv, LoadsAreRanges
  <2> QED BY <1>a, <2>1
<1>2. CASE PlannerInsert /\ ~(k \in DOMAIN fetch_request /\ l \in DOMAIN fetch_request)
  <2>1. k \in NewKeys /\ l \in NewKeys
    BY <1>2, InsertedRows DEF SameLoad, PastInv, RangeInv
  <2>2. PICK e \in planner.emitted : e.inst = KeyInstrument(k) /\ e.plan.start <= fetch_request'[k].start
    BY <1>2, <2>1, InsertedRows DEF PastInv, RangeInv
  <2>3. PICK f \in planner.emitted : f.inst = KeyInstrument(l) /\ fetch_request'[l].end <= f.plan.end
    BY <1>2, <2>1, InsertedRows DEF PastInv, RangeInv
  <2>4. f = e
    BY <2>2, <2>3 DEF SameLoad, PastInv, RangeInv, PlansArePast
  <2>5. /\ fetch_request'[k].start \in Int /\ fetch_request'[l].end \in Int
        /\ e.plan.start \in Int /\ e.plan.end \in Int
    BY NextType DEF TypeInv, TypeCore, TypeOK, SharedTypeOK, Request, PlannerState, FetchPlan
  <2>6. e.plan.start <= d /\ d <= e.plan.end
    BY <2>2, <2>3, <2>4, <2>5
  <2>7. PICK m \in NewKeys : /\ KeyInstrument(m) = e.inst
                             /\ fetch_request'[m].start <= d /\ d <= fetch_request'[m].end
    BY <1>2, <2>6, InsertedRows DEF PastInv, RangeInv
  <2>8. KeyBatch(m) = KeyBatch(k) /\ m \in DOMAIN fetch_request'
    BY <1>2, <2>1, <2>7, InsertedRows DEF PastInv, RangeInv
  <2> QED BY <2>2, <2>7, <2>8 DEF SameLoad
<1> QED BY <1>1, <1>2, BatchFrame DEF BatchKept

\* The days a group is through with lie in its requests.
LEMMA ThroughRanges ==
    ASSUME TypeInv, RunInv, RowsArePast, NEW i \in Instruments, NEW days, GroupThrough(i, days)
    PROVE  \A d \in days : \E k \in Group(i) :
             fetch_request[k].start <= d /\ d <= fetch_request[k].end
<1>1. \A k \in Group(i) : k \in DOMAIN fetch_request
  BY DEF Group, TypeInv, RowsExist
<1>2. \A k \in Group(i) : /\ fetch_request[k].start <= fetch_request[k].end
                          /\ fetch_request[k].end <= fetch_request[k].end
  BY <1>1 DEF RowsArePast, TypeInv, TypeCore, TypeOK, SharedTypeOK, Request
<1>3. \A d \in LastEnd(i) : \E k \in Group(i) : d = fetch_request[k].end
  BY DEF LastEnd
<1>4. \A d \in GroupBars(i) : \E k \in Group(i) : fetch_request[k].start <= d /\ d <= fetch_request[k].end
  BY DEF GroupBars, Bars
<1>5. GroupGood(i) \subseteq GroupBars(i)
  BY DEF GroupGood
<1> QED BY <1>2, <1>3, <1>4, <1>5 DEF GroupThrough

LEMMA DatesAreAskedNext ==
    ASSUME TypeInv, BatchInv, RunInv, PastInv, [Next]_vars
    PROVE  DatesAreAsked'
<1>a. ingest \in IngestState
  BY DEF TypeInv, TypeCore, TypeOK
<1>b. \A m \in ingest.marks : m \in DOMAIN fetch_request
  BY DEF RunInv, WithStatus
<1>c. \A m \in ingest.marks : /\ fetch_request'[m].start = fetch_request[m].start
                              /\ fetch_request'[m].end = fetch_request[m].end
  BY <1>b, RowKept
<1> SUFFICES ASSUME NEW e \in ingest'.dates
             PROVE  /\ e.span.earliest <= e.span.latest
                    /\ \E m, n \in ingest'.marks :
                         /\ KeyInstrument(m) = e.inst /\ fetch_request'[m].start <= e.span.earliest
                         /\ KeyInstrument(n) = e.inst /\ e.span.latest <= fetch_request'[n].end
  BY DEF DatesAreAsked, KeyInstrument
<1>1. ASSUME e \in ingest.dates, ingest.marks \subseteq ingest'.marks
      PROVE  /\ e.span.earliest <= e.span.latest
             /\ \E m, n \in ingest'.marks :
                  /\ KeyInstrument(m) = e.inst /\ fetch_request'[m].start <= e.span.earliest
                  /\ KeyInstrument(n) = e.inst /\ e.span.latest <= fetch_request'[n].end
  <2>1. PICK m \in ingest.marks, n \in ingest.marks :
          /\ KeyInstrument(m) = e.inst /\ fetch_request[m].start <= e.span.earliest
          /\ KeyInstrument(n) = e.inst /\ e.span.latest <= fetch_request[n].end
    BY <1>1 DEF PastInv, DatesAreAsked
  <2>2. e.span.earliest <= e.span.latest
    BY <1>1 DEF PastInv, DatesAreAsked
  <2> QED BY <1>c, <1>1, <2>1, <2>2
<1>2. CASE ingest'.marks = ingest.marks /\ ingest'.dates = ingest.dates
  BY <1>1, <1>2
<1>3. CASE ingest'.dates = {}
  BY <1>3
<1>4. CASE IngestFlush
  BY <1>3, <1>4, <1>a DEF IngestFlush, IngestState
<1>5. ASSUME NEW i \in Instruments, NEW days, GroupThrough(i, days)
      PROVE  /\ e.span.earliest <= e.span.latest
             /\ \E m, n \in ingest'.marks :
                  /\ KeyInstrument(m) = e.inst /\ fetch_request'[m].start <= e.span.earliest
                  /\ KeyInstrument(n) = e.inst /\ e.span.latest <= fetch_request'[n].end
  <2>1. PICK b : ingest' = Close(i, Group(i), b, days)
    BY <1>5 DEF GroupThrough
  <2>2. ingest'.marks = ingest.marks \cup Group(i)
    BY <1>a, <2>1, CloseMarks
  <2>3. e \in ingest.dates \/ (e.inst = i /\ e.span \in Spans(days))
    <3> HIDE DEF Spans
    <3> QED BY <1>a, <2>1, CloseEntries
  <2>4. CASE e.inst = i /\ e.span \in Spans(days)
    <3>1. e.span.earliest \in days /\ e.span.latest \in days /\ e.span.earliest <= e.span.latest
      BY <2>4 DEF Spans
    <3>2. PICK m \in Group(i) : fetch_request[m].start <= e.span.earliest
      BY <1>5, <3>1, ThroughRanges DEF PastInv, RangeInv
    <3>3. PICK n \in Group(i) : e.span.latest <= fetch_request[n].end
      BY <1>5, <3>1, ThroughRanges DEF PastInv, RangeInv
    <3>4. KeyInstrument(m) = i /\ KeyInstrument(n) = i /\ m \in ingest'.marks /\ n \in ingest'.marks
      BY <2>2 DEF Group
    <3>5. fetch_request' = fetch_request
      BY <1>5 DEF GroupThrough
    <3> QED BY <2>4, <3>1, <3>2, <3>3, <3>4, <3>5
  <2> QED BY <1>1, <2>2, <2>3, <2>4
<1> QED BY <1>2, <1>3, <1>4, <1>5, RunOutcome

LEMMA SpanIsPast ==
    ASSUME TypeInv, RunInv, PastInv, NEW e \in ingest.dates
    PROVE  /\ e.span \in DateSpan /\ e.span.earliest \in Int /\ e.span.latest \in Int
           /\ e.span.earliest <= e.span.latest /\ e.span.latest <= today
<1>1. e.span \in DateSpan
  BY DEF TypeInv, TypeCore, TypeOK, IngestState
<1>2. e.span.earliest \in Int /\ e.span.latest \in Int
  BY <1>1 DEF DateSpan
<1>3. PICK n \in ingest.marks : e.span.latest <= fetch_request[n].end
  BY DEF PastInv, DatesAreAsked
<1>4. n \in DOMAIN fetch_request
  BY DEF RunInv, WithStatus
<1>5. fetch_request[n].end \in Int /\ fetch_request[n].end <= today /\ today \in Int
  BY <1>4 DEF PastInv, RangeInv, RowsArePast, TypeInv, TypeCore, TypeOK, SharedTypeOK, Request
<1>6. e.span.earliest <= e.span.latest
  BY DEF PastInv, DatesAreAsked
<1> QED BY <1>1, <1>2, <1>3, <1>5, <1>6

LEMMA WatermarksArePastNext ==
    ASSUME TypeInv, BatchInv, RunInv, PastInv, [Next]_vars
    PROVE  WatermarksArePast'
<1> SUFFICES ASSUME NEW i \in Instruments
             PROVE  /\ watermark'[i].earliest <= watermark'[i].latest
                    /\ watermark'[i].earliest <= today'
  BY DEF WatermarksArePast
<1>a. /\ watermark[i] \in Watermark
      /\ watermark[i].earliest \in Int /\ watermark[i].latest \in Int
  BY DEF TypeInv, TypeCore, TypeOK, SharedTypeOK, Watermark
<1>b. today \in Nat /\ today' \in Nat /\ today <= today'
  BY TodayGrows
<1>c. watermark[i].earliest <= watermark[i].latest /\ watermark[i].earliest <= today
  BY DEF PastInv, WatermarksArePast
<1>1. ASSUME watermark'[i].earliest = watermark[i].earliest, watermark'[i].latest = watermark[i].latest
      PROVE  watermark'[i].earliest <= watermark'[i].latest /\ watermark'[i].earliest <= today'
  BY <1>a, <1>b, <1>c, <1>1
<1>2. ASSUME NEW j \in Instruments, Suspend(j)
      PROVE  watermark'[i].earliest <= watermark'[i].latest /\ watermark'[i].earliest <= today'
  <2>1. /\ watermark'[i].earliest = watermark[i].earliest
        /\ watermark'[i].latest = watermark[i].latest
    BY <1>a, <1>2 DEF Suspend, Watermark, TypeInv, TypeCore, TypeOK, SharedTypeOK
  <2> QED BY <1>1, <2>1
<1>3. ASSUME IngestFlush, NEW e \in ingest.dates, e.inst = i
      PROVE  watermark'[i].earliest <= watermark'[i].latest /\ watermark'[i].earliest <= today'
  <2>1. CASE UNCHANGED watermark
    BY <1>1, <2>1
  <2>2. CASE watermark'[i] = Widened(watermark[i], e.span)
    <3>1. /\ e.span \in DateSpan /\ e.span.earliest \in Int /\ e.span.latest \in Int
          /\ e.span.earliest <= e.span.latest /\ e.span.latest <= today
      BY SpanIsPast
    <3>2. CASE watermark[i] = NoWatermark
      BY <1>a, <1>b, <2>2, <3>1, <3>2, WidenedDates
    <3>3. CASE watermark[i] # NoWatermark
      <4>1. /\ watermark'[i].earliest = Earlier(watermark[i].earliest, e.span.earliest)
            /\ watermark'[i].latest = Later(watermark[i].latest, e.span.latest)
        BY <1>a, <2>2, <3>1, <3>3, WidenedDates
      <4> QED BY <1>a, <1>b, <1>c, <3>1, <4>1 DEF Earlier, Later
    <3> QED BY <3>2, <3>3
  <2> QED BY <1>3, <2>1, <2>2, FlushEffect
<1>4. CASE IngestFlush
  <2>1. CASE \A e \in ingest.dates : e.inst # i
    BY <1>1, <1>4, <2>1, FlushEffect
  <2> QED BY <1>3, <1>4, <2>1
<1>5. CASE UNCHANGED watermark
  BY <1>1, <1>5
<1> QED BY <1>2, <1>4, <1>5, WatermarkWriters

LEMMA PastInit == Init => PastInv
<1> SUFFICES ASSUME Init PROVE PastInv
  OBVIOUS
<1>1. \A i \in Instruments : watermark[i] = NoWatermark
  BY DEF Init, EmptyTables
<1>2. -1 <= -1 /\ -1 <= 1
  OBVIOUS
<1>3. WatermarksArePast
  BY <1>1, <1>2, NoWatermarkType DEF WatermarksArePast, Init, EmptyTables
<1>4. DOMAIN fetch_request = {} /\ planner.emitted = {} /\ ingest.dates = {}
  BY DEF Init, EmptyTables, IdlePlanner, IdleIngest
<1> QED BY <1>3, <1>4 DEF PastInv, RangeInv, RowsArePast, PlansArePast, LoadsAreRanges, DatesAreAsked

LEMMA PastNext ==
    ASSUME HistoriesStart, NoFreeRanges
    PROVE  TypeInv /\ BatchInv /\ RunInv /\ PastInv /\ [Next]_vars => PastInv'
  BY RowsArePastNext, PlansArePastNext, LoadsAreRangesNext, DatesAreAskedNext, WatermarksArePastNext
     DEF PastInv, RangeInv
-----------------------------------------------------------------------------
(* What is secured: stored, or asked for by a load that has arrived.       *)

Reached == WithStatus("LANDED") \cup WithStatus("INGESTED")

Secured(i, d) ==
    \/ Kept(i, d)
    \/ \E k \in DOMAIN fetch_request, l \in Reached :
         KeyInstrument(k) = i /\ SameLoad(k, l) /\ d \in Bars(k)

\* What has landed stays LANDED until it is INGESTED, and then that.
LEMMA ReachedStays ==
    ASSUME TypeInv, BatchInv, TurnInv, [Next]_vars
    PROVE  Reached \subseteq Reached'
<1>1. \A k \in DOMAIN fetch_request : k \in DOMAIN fetch_request'
  BY DomainGrows
<1>2. ASSUME NEW k \in Reached
      PROVE  fetch_request'[k].status \in {"LANDED", "INGESTED"}
  <2>1. k \in DOMAIN fetch_request /\ fetch_request[k].status \in {"LANDED", "INGESTED"}
    BY DEF Reached, WithStatus
  <2>2. /\ StatusOf[k] = fetch_request[k].status /\ StatusOf'[k] = fetch_request'[k].status
        /\ DOMAIN StatusOf = DOMAIN fetch_request
    BY <1>1, <2>1 DEF StatusOf
  <2>3. CASE UNCHANGED StatusOf
    BY <2>1, <2>2, <2>3
  <2>4. CASE StatusStep
    BY <2>1, <2>2, <2>4
       DEF StatusStep, Lifecycle!Adds, Lifecycle!Move
  <2> QED BY <2>3, <2>4, LifecycleStep
<1>3. \A k \in Reached : k \in DOMAIN fetch_request
  BY DEF Reached, WithStatus
<1> QED BY <1>1, <1>2, <1>3 DEF Reached, WithStatus

\* Bronze and the rejected table are only ever appended to.
LEMMA TablesGrow ==
    ASSUME [Next]_vars
    PROVE  bronze \subseteq bronze' /\ rejected \subseteq rejected'
<1>1. bronze \subseteq bronze'
  BY BronzeWriters DEF IngestAppendNew, IngestAppendAmended
<1>2. UNCHANGED rejected \/ IngestAppendRejected
  BY DEF Next, vars, shared, delta, queue, clock,
         PlannerStep, StartPlanner, PlannerStart, PlannerWork, PlannerListPending,
         PlannerMarkOrphans, PlannerReadInFlight, PlannerPlan, PlannerPlanned, PlannerInsert,
         PlannerPutManifest, PlannerFinish, PlannerCrash,
         AgentStep, AgentWork, AgentPoll, AgentTake, AgentLand, AgentPutDone,
         AgentAttemptFails, AgentPutFailed, AgentDeletePending, AgentCycleEnds, AgentCrash,
         IngestStep, StartIngest, IngestReadFailed, IngestWork, IngestReadDone, IngestMerge,
         IngestSelect, IngestOpenGroup, IngestAppendNew, IngestAppendAmended, IngestGroupFails,
         IngestGroupsDone, IngestFlush, IngestMark, IngestArchive, IngestCrash,
         EnvironmentStep, NextDay, Suspend
<1> QED BY <1>1, <1>2 DEF IngestAppendRejected

LEMMA SecuredStays ==
    ASSUME TypeInv, BatchInv, TurnInv, [Next]_vars, NEW i, NEW d, Secured(i, d)
    PROVE  Secured(i, d)'
<1>1. CASE Kept(i, d)
  BY <1>1, TablesGrow, KeptGrows DEF Secured
<1>2. ASSUME NEW k \in DOMAIN fetch_request, NEW l \in Reached,
             KeyInstrument(k) = i, SameLoad(k, l), d \in Bars(k)
      PROVE  Secured(i, d)'
  <2>1. k \in DOMAIN fetch_request' /\ d \in Bars(k)'
    BY <1>2, RangeKept
  <2>2. l \in Reached'
    BY ReachedStays
  <2>3. (KeyInstrument(k) = i /\ SameLoad(k, l))'
    BY <1>2 DEF SameLoad, KeyInstrument, KeyBatch
  <2> QED BY <2>1, <2>2, <2>3 DEF Secured
<1> QED BY <1>1, <1>2 DEF Secured

\* A day between the ends of a load that has arrived is secured.
LEMMA LoadSecures ==
    ASSUME TypeInv, LoadsAreRanges, NEW k \in DOMAIN fetch_request, k \in Reached,
           NEW d \in VendorDays[KeyInstrument(k)], BeginsBy(k, d), EndsFrom(k, d)
    PROVE  Secured(KeyInstrument(k), d)
<1>1. PICK m \in DOMAIN fetch_request : SameLoad(k, m) /\ fetch_request[m].start <= d
  BY DEF BeginsBy
<1>2. PICK n \in DOMAIN fetch_request : SameLoad(k, n) /\ d <= fetch_request[n].end
  BY DEF EndsFrom
<1>3. SameLoad(m, n)
  BY <1>1, <1>2 DEF SameLoad
<1>4. d \in Int
  <2>1. k \in Keys
    BY DEF TypeInv, TypeCore, TypeOK, SharedTypeOK
  <2>2. KeyInstrument(k) \in Instruments
    BY <2>1, KeyParts
  <2> QED BY <2>2, ControlPlaneAssumption
<1>5. PICK l \in DOMAIN fetch_request :
        SameLoad(m, l) /\ fetch_request[l].start <= d /\ d <= fetch_request[l].end
  BY <1>1, <1>2, <1>3, <1>4 DEF LoadsAreRanges
<1>6. SameLoad(l, k) /\ KeyInstrument(l) = KeyInstrument(k)
  BY <1>1, <1>5 DEF SameLoad
<1>7. d \in Bars(l)
  BY <1>5, <1>6 DEF Bars
<1> QED BY <1>6, <1>7 DEF Secured
-----------------------------------------------------------------------------
(* What is asked for joins on to what the watermark covers.                *)

\* Without a watermark every load starts with the history, and a load in
\* flight reaches as far as any before it.
FirstLoads(i) ==
    /\ \A k \in DOMAIN fetch_request : KeyInstrument(k) = i =>
         HistoryStart[i] <= fetch_request[k].start
    /\ \A k \in InFlight : KeyInstrument(k) = i =>
         /\ BeginsBy(k, HistoryStart[i])
         /\ \A r \in DOMAIN fetch_request : KeyInstrument(r) = i => EndsFrom(k, fetch_request[r].end)
    /\ \A e \in planner.emitted : e.inst = i =>
         e.plan.start = HistoryStart[i] /\ e.plan.end = today

\* With one a load leaves no gap to it.
LaterLoads(i) ==
    /\ HistoryStart[i] <= watermark[i].latest + 1
    /\ \A k \in InFlight : KeyInstrument(k) = i =>
         BeginsBy(k, watermark[i].latest + 1) /\ EndsFrom(k, watermark[i].earliest - 1)
    /\ \A e \in planner.emitted : e.inst = i => Joins(e.plan.start, e.plan.end, watermark[i])

JoinInv == \A i \in Instruments :
    /\ watermark[i] = NoWatermark => FirstLoads(i)
    /\ watermark[i] # NoWatermark => LaterLoads(i)

LEMMA BeginsStays ==
    ASSUME TypeInv, [Next]_vars, NEW k, NEW d
    PROVE  /\ BeginsBy(k, d) => BeginsBy(k, d)'
           /\ EndsFrom(k, d) => EndsFrom(k, d)'
<1>1. \A m \in DOMAIN fetch_request : /\ m \in DOMAIN fetch_request'
                                      /\ fetch_request'[m].start = fetch_request[m].start
                                      /\ fetch_request'[m].end = fetch_request[m].end
  BY RowKept, DomainGrows
<1>2. \A m : SameLoad(k, m)' <=> SameLoad(k, m)
  BY DEF SameLoad, KeyInstrument, KeyBatch
<1> QED BY <1>1, <1>2 DEF BeginsBy, EndsFrom

\* The rows that are inserted for a plan begin and end with it.
LEMMA InsertedLoad ==
    ASSUME TypeInv, BatchInv, PastInv, PlannerInsert, NEW k \in NewKeys
    PROVE  \E e \in planner.emitted :
             /\ e.inst = KeyInstrument(k) /\ e.plan \in FetchPlan
             /\ e.plan.start <= fetch_request'[k].start /\ fetch_request'[k].end <= e.plan.end
             /\ BeginsBy(k, e.plan.start)' /\ EndsFrom(k, e.plan.end)'
<1>1. PICK e \in planner.emitted :
        /\ e.inst = KeyInstrument(k)
        /\ e.plan.start <= fetch_request'[k].start /\ fetch_request'[k].end <= e.plan.end
  BY InsertedRows DEF PastInv, RangeInv
<1>2. e.plan \in FetchPlan /\ e.plan.start \in Int /\ e.plan.end \in Int /\ e.plan.start <= e.plan.end
  BY DEF TypeInv, TypeCore, TypeOK, PlannerState, FetchPlan, PastInv, RangeInv, PlansArePast
<1>3. \A m \in NewKeys : KeyInstrument(m) = e.inst => m \in DOMAIN fetch_request' /\ SameLoad(k, m)'
  BY <1>1, InsertedRows DEF PastInv, RangeInv, SameLoad, KeyInstrument, KeyBatch
<1>4. PICK m \in NewKeys : /\ KeyInstrument(m) = e.inst
                           /\ fetch_request'[m].start <= e.plan.start
  BY <1>2, InsertedRows DEF PastInv, RangeInv
<1>5. PICK n \in NewKeys : /\ KeyInstrument(n) = e.inst
                           /\ e.plan.end <= fetch_request'[n].end
  BY <1>2, InsertedRows DEF PastInv, RangeInv
<1>6. BeginsBy(k, e.plan.start)'
  BY <1>3, <1>4 DEF BeginsBy
<1>7. EndsFrom(k, e.plan.end)'
  BY <1>3, <1>5 DEF EndsFrom
<1> QED BY <1>1, <1>2, <1>6, <1>7

LEMMA BeginsMonotone ==
    ASSUME TypeInv, NEW k, NEW c \in Int, NEW d \in Int, c <= d
    PROVE  /\ BeginsBy(k, c) => BeginsBy(k, d)
           /\ EndsFrom(k, d) => EndsFrom(k, c)
<1>1. \A m \in DOMAIN fetch_request : fetch_request[m].start \in Int /\ fetch_request[m].end \in Int
  BY DEF TypeInv, TypeCore, TypeOK, SharedTypeOK, Request
<1> QED BY <1>1 DEF BeginsBy, EndsFrom

\* What is in flight was so before, or has just been inserted for an instrument
\* that had nothing in flight.
LEMMA InFlightStep ==
    ASSUME TypeInv, BatchInv, PastInv, [Next]_vars, NEW k \in InFlight'
    PROVE  \/ k \in InFlight
           \/ /\ PlannerInsert /\ k \in NewKeys
              /\ \A l \in InFlight : KeyInstrument(l) # KeyInstrument(k)
<1>1. CASE ~PlannerInsert
  BY <1>1, BatchFrame DEF BatchKept
<1>2. CASE PlannerInsert /\ k \in DOMAIN fetch_request
  <2>1. fetch_request'[k] = fetch_request[k]
    BY <1>2, InsertedRows DEF PastInv, RangeInv
  <2> QED BY <1>2, <2>1 DEF InFlight, WithStatus
<1>3. CASE PlannerInsert /\ k \notin DOMAIN fetch_request
  <2>1. k \in NewKeys
    BY <1>3, InsertedRows DEF PastInv, RangeInv, InFlight, WithStatus
  <2>2. PICK e \in planner.emitted : e.inst = KeyInstrument(k)
    BY <1>3, <2>1, InsertedRows DEF PastInv, RangeInv
  <2>3. e.inst \notin planner.busy /\ \A l \in InFlight : KeyInstrument(l) \in planner.busy
    BY <1>3 DEF BatchInv, PlannerInsert
  <2> QED BY <1>3, <2>1, <2>2, <2>3
<1> QED BY <1>1, <1>2, <1>3

\* Only a flush moves the dates of a watermark, and not while there are plans.
LEMMA WatermarkRests ==
    ASSUME TypeInv, BatchInv, TurnInv, [Next]_vars, planner.emitted # {} \/ ~IngestFlush,
           NEW i \in Instruments
    PROVE  /\ watermark'[i].earliest = watermark[i].earliest
           /\ watermark'[i].latest = watermark[i].latest
           /\ watermark'[i] = NoWatermark <=> watermark[i] = NoWatermark
<1>1. ~IngestFlush
  BY DEF BatchInv, TurnInv, IngestFlush
<1>2. ASSUME NEW j \in Instruments, Suspend(j)
      PROVE  /\ watermark'[i].earliest = watermark[i].earliest
             /\ watermark'[i].latest = watermark[i].latest
             /\ watermark'[i] = NoWatermark <=> watermark[i] = NoWatermark
  <2>1. watermark \in [Instruments -> Watermark]
    BY DEF TypeInv, TypeCore, TypeOK, SharedTypeOK
  <2>2. i # j => watermark'[i] = watermark[i]
    BY <1>2, <2>1 DEF Suspend
  <2>3. watermark[j] # NoWatermark /\ watermark' = [watermark EXCEPT ![j].suspended = TRUE]
    BY <1>2 DEF Suspend
  <2>4. /\ watermark'[j].earliest = watermark[j].earliest /\ watermark'[j].latest = watermark[j].latest
        /\ watermark'[j].suspended = TRUE
    BY <2>1, <2>3 DEF Watermark
  <2>5. watermark'[j] # NoWatermark
    BY <2>4 DEF NoWatermark
  <2> QED BY <2>2, <2>3, <2>4, <2>5
<1> QED BY <1>1, <1>2, WatermarkWriters

\* A plan of the run was there before, or is the one that is added.
LEMMA EmittedOrAdded ==
    ASSUME TypeInv, BatchInv, [Next]_vars, NEW e \in planner'.emitted
    PROVE  \/ e \in planner.emitted
           \/ \E wm : Adds(e.inst, wm) /\ e.plan = Plan(e.inst, wm, today)
<1>1. CASE e \notin planner.emitted
  <2>1. PICK i, wm : Adds(i, wm)
    BY <1>1, PlannerOutcome
  <2>2. e = [inst |-> i, plan |-> Plan(i, wm, today)]
    BY <1>1, <2>1 DEF Adds
  <2> QED BY <2>1, <2>2
<1> QED BY <1>1

LEMMA FirstLoadsNext ==
    ASSUME HistoriesStart, NoFreeRanges, TypeInv, BatchInv, TurnInv, PastInv, [Next]_vars, TypeInv',
           NEW i \in Instruments, watermark[i] = NoWatermark, FirstLoads(i)
    PROVE  FirstLoads(i)'
<1>a. \A k \in DOMAIN fetch_request : /\ k \in DOMAIN fetch_request'
                                      /\ fetch_request'[k].start = fetch_request[k].start
                                      /\ fetch_request'[k].end = fetch_request[k].end
  BY RowKept, DomainGrows
<1>b. \A k \in DOMAIN fetch_request' : k \in DOMAIN fetch_request \/ (PlannerInsert /\ k \in NewKeys)
  BY TableStep DEF NewRowStep
<1>c. ASSUME PlannerInsert, NEW k \in NewKeys, KeyInstrument(k) = i
      PROVE  /\ HistoryStart[i] <= fetch_request'[k].start
             /\ fetch_request'[k].end <= today
             /\ BeginsBy(k, HistoryStart[i])' /\ EndsFrom(k, today)'
  <2>1. PICK e \in planner.emitted :
             /\ e.inst = KeyInstrument(k) /\ e.plan \in FetchPlan
             /\ e.plan.start <= fetch_request'[k].start /\ fetch_request'[k].end <= e.plan.end
             /\ BeginsBy(k, e.plan.start)' /\ EndsFrom(k, e.plan.end)'
    BY <1>c, InsertedLoad
  <2>2. e.plan.start = HistoryStart[i] /\ e.plan.end = today
    BY <1>c, <2>1 DEF FirstLoads
  <2>3. EndsFrom(k, e.plan.end)' <=> EndsFrom(k, today)'
    BY <1>c, <2>2 DEF EndsFrom, PlannerInsert, clock
  <2>4. BeginsBy(k, e.plan.start)' <=> BeginsBy(k, HistoryStart[i])'
    BY <2>2 DEF BeginsBy
  <2> QED BY <2>1, <2>2, <2>3, <2>4
<1>1. \A k \in DOMAIN fetch_request' : KeyInstrument(k) = i => HistoryStart[i] <= fetch_request'[k].start
  BY <1>a, <1>b, <1>c DEF FirstLoads
<1>2. ASSUME NEW k \in InFlight', KeyInstrument(k) = i, k \in InFlight
      PROVE  /\ BeginsBy(k, HistoryStart[i])'
             /\ \A r \in DOMAIN fetch_request' : KeyInstrument(r) = i => EndsFrom(k, fetch_request[r].end)'
  <2>1. /\ BeginsBy(k, HistoryStart[i])
        /\ \A r \in DOMAIN fetch_request : KeyInstrument(r) = i => EndsFrom(k, fetch_request[r].end)
    BY <1>2 DEF FirstLoads
  <2>2. BeginsBy(k, HistoryStart[i])'
    <3>1. BeginsBy(k, HistoryStart[i]) => BeginsBy(k, HistoryStart[i])'
      BY BeginsStays
    <3> QED BY <2>1, <3>1
  <2>3. ASSUME NEW r \in DOMAIN fetch_request', KeyInstrument(r) = i
        PROVE  EndsFrom(k, fetch_request[r].end)'
    <3>1. r \in DOMAIN fetch_request
      <4>1. ASSUME PlannerInsert, r \in NewKeys PROVE FALSE
        <5>1. PICK e \in planner.emitted : e.inst = i
          BY <2>3, <4>1, InsertedLoad
        <5>2. e.inst \notin planner.busy /\ KeyInstrument(k) \in planner.busy
          BY <1>2, <4>1 DEF BatchInv, PlannerInsert
        <5> QED BY <1>2, <5>1, <5>2
      <4> QED BY <1>b, <4>1
    <3> DEFINE d == fetch_request[r].end
    <3>2. EndsFrom(k, d)
      BY <2>1, <2>3, <3>1
    <3>3. fetch_request'[r].end = d
      BY <1>a, <3>1
    <3> HIDE DEF d
    <3>4. PICK n \in DOMAIN fetch_request : SameLoad(k, n) /\ d <= fetch_request[n].end
      BY <3>2 DEF EndsFrom
    <3>5. n \in DOMAIN fetch_request' /\ SameLoad(k, n)' /\ fetch_request'[r].end <= fetch_request'[n].end
      BY <1>a, <3>3, <3>4 DEF SameLoad, KeyInstrument, KeyBatch
    <3> QED BY <3>5 DEF EndsFrom
  <2> QED BY <2>2, <2>3
<1>3. ASSUME NEW k \in InFlight', KeyInstrument(k) = i, k \notin InFlight
      PROVE  /\ BeginsBy(k, HistoryStart[i])'
             /\ \A r \in DOMAIN fetch_request' : KeyInstrument(r) = i => EndsFrom(k, fetch_request[r].end)'
  <2>1. PlannerInsert /\ k \in NewKeys
    BY <1>3, InFlightStep
  <2>2. PICK n \in DOMAIN fetch_request' : SameLoad(k, n)' /\ today <= fetch_request'[n].end
    <3>1. EndsFrom(k, today)' /\ today' = today
      BY <1>3, <1>c, <2>1 DEF PlannerInsert, clock
    <3> QED BY <3>1 DEF EndsFrom
  <2>3. ASSUME NEW r \in DOMAIN fetch_request', KeyInstrument(r) = i
        PROVE  EndsFrom(k, fetch_request[r].end)'
    <3>1. fetch_request'[r].end <= today
      BY <1>a, <1>b, <1>c, <2>3 DEF PastInv, RangeInv, RowsArePast
    <3>2. fetch_request'[r].end \in Int /\ fetch_request'[n].end \in Int /\ today \in Int
      BY <2>2, TodayGrows DEF TypeInv, TypeCore, TypeOK, SharedTypeOK, Request
    <3>3. fetch_request'[r].end <= fetch_request'[n].end
      BY <2>2, <3>1, <3>2
    <3> QED BY <2>2, <3>3 DEF EndsFrom
  <2> QED BY <1>3, <1>c, <2>1, <2>3
<1>4. ASSUME NEW e \in planner'.emitted, e.inst = i
      PROVE  e.plan.start = HistoryStart[i] /\ e.plan.end = today'
  <2>1. CASE e \in planner.emitted
    <3>1. planner.phase # "idle"
      BY <2>1 DEF BatchInv
    <3> QED BY <1>4, <2>1, <3>1, TodayGrows DEF FirstLoads
  <2>2. ASSUME NEW wm, Adds(i, wm), e.plan = Plan(i, wm, today)
        PROVE  e.plan.start = HistoryStart[i] /\ e.plan.end = today'
    <3>1. wm = NoWatermark /\ Plan(i, wm, today).mode # "NO_OP"
      BY <2>2 DEF Adds, WatermarkRead
    <3>2. today' = today /\ today \in Nat
      BY <2>2, TodayGrows DEF Adds, shared, clock
    <3> QED BY <2>2, <3>1, <3>2, PlanJoins, NoWatermarkType
  <2> QED BY <1>4, <2>1, <2>2, EmittedOrAdded
<1> QED BY <1>1, <1>2, <1>3, <1>4 DEF FirstLoads, KeyInstrument

LEMMA LaterLoadsNext ==
    ASSUME HistoriesStart, NoFreeRanges, TypeInv, BatchInv, TurnInv, PastInv, [Next]_vars, TypeInv',
           ~IngestFlush, NEW i \in Instruments, watermark[i] # NoWatermark, LaterLoads(i)
    PROVE  LaterLoads(i)'
<1> DEFINE first == watermark[i].latest + 1
           last  == watermark[i].earliest - 1
<1>a. /\ watermark'[i].earliest = watermark[i].earliest
      /\ watermark'[i].latest = watermark[i].latest
  BY WatermarkRests
<1>b. first \in Int /\ last \in Int /\ watermark[i].earliest \in Int /\ watermark[i].latest \in Int
  BY DEF TypeInv, TypeCore, TypeOK, SharedTypeOK, Watermark
<1>1. HistoryStart[i] <= watermark'[i].latest + 1
  BY <1>a DEF LaterLoads
<1>2. ASSUME NEW k \in InFlight', KeyInstrument(k) = i
      PROVE  BeginsBy(k, first)' /\ EndsFrom(k, last)'
  <2>1. CASE k \in InFlight
    <3>1. BeginsBy(k, first) /\ EndsFrom(k, last)
      BY <1>2, <2>1 DEF LaterLoads
    <3>2. /\ \A d : BeginsBy(k, d) => \E m \in DOMAIN fetch_request' : SameLoad(k, m) /\ fetch_request'[m].start <= d
          /\ \A d : EndsFrom(k, d) => \E m \in DOMAIN fetch_request' : SameLoad(k, m) /\ d <= fetch_request'[m].end
      BY RowKept, DomainGrows DEF BeginsBy, EndsFrom
    <3>3. /\ watermark'[i].latest + 1 = first /\ watermark'[i].earliest - 1 = last
      BY <1>a
    <3> QED BY <3>1, <3>2, <3>3 DEF BeginsBy, EndsFrom, SameLoad, KeyInstrument, KeyBatch
  <2>2. CASE PlannerInsert /\ k \in NewKeys
    <3>1. PICK e \in planner.emitted :
               /\ e.inst = KeyInstrument(k) /\ e.plan \in FetchPlan
               /\ BeginsBy(k, e.plan.start)' /\ EndsFrom(k, e.plan.end)'
      BY <2>2, InsertedLoad
    <3>2. e.plan.start <= first /\ last <= e.plan.end /\ e.plan.start \in Int /\ e.plan.end \in Int
      BY <1>2, <1>b, <3>1 DEF LaterLoads, Joins, FetchPlan
    <3>3. PICK m \in DOMAIN fetch_request' : SameLoad(k, m)' /\ fetch_request'[m].start <= e.plan.start
      BY <3>1 DEF BeginsBy
    <3>4. PICK n \in DOMAIN fetch_request' : SameLoad(k, n)' /\ e.plan.end <= fetch_request'[n].end
      BY <3>1 DEF EndsFrom
    <3>5. fetch_request'[m].start \in Int /\ fetch_request'[n].end \in Int
      BY <3>3, <3>4 DEF TypeInv, TypeCore, TypeOK, SharedTypeOK, Request
    <3>6. fetch_request'[m].start <= first /\ last <= fetch_request'[n].end
      BY <1>b, <3>2, <3>3, <3>4, <3>5
    <3>7. watermark'[i].latest + 1 = first /\ watermark'[i].earliest - 1 = last
      BY <1>a
    <3> QED BY <3>3, <3>4, <3>6, <3>7 DEF BeginsBy, EndsFrom
  <2> QED BY <1>2, <2>1, <2>2, InFlightStep
<1>3. ASSUME NEW e \in planner'.emitted, e.inst = i
      PROVE  Joins(e.plan.start, e.plan.end, watermark[i])
  <2>1. CASE e \in planner.emitted
    BY <1>3, <2>1 DEF LaterLoads
  <2>2. ASSUME NEW wm, Adds(i, wm), e.plan = Plan(i, wm, today)
        PROVE  Joins(e.plan.start, e.plan.end, watermark[i])
    <3>1. wm \in {watermark[i], NoWatermark} /\ Plan(i, wm, today).mode # "NO_OP"
      BY <2>2 DEF Adds, WatermarkRead
    <3>2. /\ watermark[i] \in Watermark /\ today \in Nat
          /\ watermark[i].earliest <= watermark[i].latest /\ watermark[i].earliest <= today
          /\ HistoryStart[i] <= watermark[i].latest + 1
      BY TodayGrows DEF TypeInv, TypeCore, TypeOK, SharedTypeOK, PastInv, WatermarksArePast, LaterLoads
    <3>3. CASE wm = watermark[i]
      BY <2>2, <3>1, <3>2, <3>3, PlanJoins
    <3>4. CASE wm = NoWatermark
      <4>1. e.plan.start = HistoryStart[i] /\ e.plan.end = today
        BY <2>2, <3>1, <3>2, <3>4, PlanJoins, NoWatermarkType
      <4> QED BY <1>b, <3>2, <4>1 DEF Joins
    <3> QED BY <3>1, <3>3, <3>4
  <2> QED BY <1>3, <2>1, <2>2, EmittedOrAdded
<1>4. \A e \in planner'.emitted : e.inst = i => Joins(e.plan.start, e.plan.end, watermark'[i])
  BY <1>a, <1>3 DEF Joins
<1> QED BY <1>1, <1>2, <1>4, <1>a DEF LaterLoads, KeyInstrument, BeginsBy, EndsFrom

\* A flush leaves the requests, the plans (there are none) and Bronze alone.
LEMMA FlushFrame ==
    ASSUME TypeInv, BatchInv, TurnInv, RunInv, IngestFlush, [Next]_vars
    PROVE  /\ fetch_request' = fetch_request /\ planner'.emitted = {}
           /\ bronze' = bronze /\ rejected' = rejected /\ today' = today
<1>1. /\ fetch_request' = fetch_request /\ bronze' = bronze /\ rejected' = rejected
      /\ today' = today /\ ingest.phase = "flush" /\ ingest'.phase = "mark"
  BY DEF IngestFlush, clock, TypeInv, TypeCore, TypeOK, IngestState
<1>2. UNCHANGED planner
  BY <1>1 DEF Next, vars, PlannerStep, AgentStep, IngestStep, EnvironmentStep
<1>3. planner.emitted = {}
  BY <1>1 DEF BatchInv, TurnInv
<1> QED BY <1>1, <1>2, <1>3

\* What an entry of the buffer says of the load its instrument has in flight.
LEMMA EntryOfLoad ==
    ASSUME TypeInv, BatchInv, RunInv, PastInv, NEW e \in ingest.dates
    PROVE  \E m, n \in DOMAIN fetch_request :
             /\ m \in WithStatus("LANDED") /\ n \in WithStatus("LANDED")
             /\ KeyInstrument(m) = e.inst /\ KeyInstrument(n) = e.inst
             /\ fetch_request[m].start \in Int /\ fetch_request[m].start <= e.span.earliest
             /\ fetch_request[n].end \in Int /\ e.span.latest <= fetch_request[n].end
             /\ \A k \in InFlight : KeyInstrument(k) = e.inst => SameLoad(k, m) /\ SameLoad(k, n)
<1>1. PICK m \in ingest.marks, n \in ingest.marks :
        /\ KeyInstrument(m) = e.inst /\ fetch_request[m].start <= e.span.earliest
        /\ KeyInstrument(n) = e.inst /\ e.span.latest <= fetch_request[n].end
  BY DEF PastInv, DatesAreAsked
<1>2. m \in WithStatus("LANDED") /\ n \in WithStatus("LANDED")
  BY DEF RunInv
<1>3. m \in DOMAIN fetch_request /\ n \in DOMAIN fetch_request /\ m \in InFlight /\ n \in InFlight
  BY <1>2 DEF WithStatus, InFlight
<1>4. fetch_request[m].start \in Int /\ fetch_request[n].end \in Int
  BY <1>3 DEF TypeInv, TypeCore, TypeOK, SharedTypeOK, Request
<1>5. \A k \in InFlight : KeyInstrument(k) = e.inst => SameLoad(k, m) /\ SameLoad(k, n)
  BY <1>1, <1>3 DEF BatchInv, OneBatchInFlight, SameLoad
<1> QED BY <1>1, <1>2, <1>3, <1>4, <1>5

\* The dates of a watermark after a flush that had an entry for it.
LEMMA FlushedDates ==
    ASSUME TypeInv, RunInv, PastInv, IngestFlush, NEW e \in ingest.dates,
           watermark' # watermark
    PROVE  /\ e.inst \in Instruments
           /\ watermark[e.inst].earliest \in Int /\ watermark[e.inst].latest \in Int
           /\ watermark[e.inst].earliest <= watermark[e.inst].latest
           /\ watermark[e.inst] = NoWatermark =>
                /\ watermark'[e.inst].earliest = e.span.earliest
                /\ watermark'[e.inst].latest = e.span.latest
           /\ watermark[e.inst] # NoWatermark =>
                /\ watermark'[e.inst].earliest = Earlier(watermark[e.inst].earliest, e.span.earliest)
                /\ watermark'[e.inst].latest = Later(watermark[e.inst].latest, e.span.latest)
<1>1. e.inst \in Instruments /\ e.span \in DateSpan
  BY DEF TypeInv, TypeCore, TypeOK, IngestState
<1>2. watermark[e.inst] \in Watermark
  BY <1>1 DEF TypeInv, TypeCore, TypeOK, SharedTypeOK
<1>3. watermark'[e.inst] = Widened(watermark[e.inst], e.span)
  BY <1>1, FlushEffect
<1>4. watermark[e.inst].earliest \in Int /\ watermark[e.inst].latest \in Int
  BY <1>2 DEF Watermark
<1>5. watermark[e.inst].earliest <= watermark[e.inst].latest
  BY <1>1 DEF PastInv, WatermarksArePast
<1> QED BY <1>1, <1>2, <1>3, <1>4, <1>5, WidenedDates

LEMMA FlushedIsThere ==
    ASSUME TypeInv, RunInv, DatesInv, PastInv, IngestFlush, NEW e \in ingest.dates,
           watermark' # watermark
    PROVE  watermark'[e.inst] # NoWatermark
<1>1. e.span.latest \in Int /\ e.span.latest >= 0
  BY SpanIsPast DEF DatesInv
<1>2. watermark'[e.inst].latest >= 0
  <2>1. CASE watermark[e.inst] = NoWatermark
    BY <1>1, <2>1, FlushedDates
  <2>2. CASE watermark[e.inst] # NoWatermark
    <3>1. /\ watermark'[e.inst].latest = Later(watermark[e.inst].latest, e.span.latest)
          /\ watermark[e.inst].latest \in Int
      BY <2>2, FlushedDates
    <3> QED BY <1>1, <3>1 DEF Later
  <2> QED BY <2>1, <2>2
<1> QED BY <1>2, NoWatermarkType

\* Every load in flight joins on to the watermark that its own flush leaves.
LEMMA FlushJoins ==
    ASSUME HistoriesStart, TypeInv, BatchInv, TurnInv, RunInv, PastInv, JoinInv, IngestFlush,
           [Next]_vars, NEW e \in ingest.dates, watermark' # watermark, TypeInv'
    PROVE  LaterLoads(e.inst)'
<1> DEFINE i == e.inst
<1>a. /\ fetch_request' = fetch_request /\ planner'.emitted = {}
  BY FlushFrame
<1>b. /\ e.span.earliest \in Int /\ e.span.latest \in Int /\ e.span.earliest <= e.span.latest
  BY SpanIsPast
<1>c. PICK m \in DOMAIN fetch_request, n \in DOMAIN fetch_request :
             /\ m \in WithStatus("LANDED") /\ n \in WithStatus("LANDED")
             /\ KeyInstrument(m) = e.inst /\ KeyInstrument(n) = e.inst
             /\ fetch_request[m].start \in Int /\ fetch_request[m].start <= e.span.earliest
             /\ fetch_request[n].end \in Int /\ e.span.latest <= fetch_request[n].end
             /\ \A k \in InFlight : KeyInstrument(k) = e.inst => SameLoad(k, m) /\ SameLoad(k, n)
  BY EntryOfLoad
<1>d. i \in Instruments /\ HistoryStart[i] \in Int
  BY PlanningAssumption DEF TypeInv, TypeCore, TypeOK, IngestState, HistoriesStart
<1>e. InFlight' = InFlight
  BY <1>a DEF InFlight, WithStatus
<1>1. /\ HistoryStart[i] <= watermark'[i].latest + 1
      /\ watermark'[i].earliest \in Int /\ watermark'[i].latest \in Int
      /\ \A k \in InFlight : KeyInstrument(k) = i =>
           /\ \E l \in DOMAIN fetch_request : SameLoad(k, l) /\ fetch_request[l].start <= watermark'[i].latest + 1
           /\ \E l \in DOMAIN fetch_request : SameLoad(k, l) /\ watermark'[i].earliest - 1 <= fetch_request[l].end
  <2>1. CASE watermark[i] = NoWatermark
    <3>1. watermark'[i].earliest = e.span.earliest /\ watermark'[i].latest = e.span.latest
      BY <2>1, FlushedDates
    <3>2. HistoryStart[i] <= fetch_request[m].start
      BY <1>c, <1>d, <2>1 DEF JoinInv, FirstLoads
    <3>3. HistoryStart[i] <= e.span.latest + 1 /\ fetch_request[m].start <= e.span.latest + 1
          /\ e.span.earliest - 1 <= fetch_request[n].end
      BY <1>b, <1>c, <1>d, <3>2
    <3> QED BY <1>b, <1>c, <3>1, <3>3
  <2>2. CASE watermark[i] # NoWatermark
    <3>1. /\ watermark'[i].earliest = Earlier(watermark[i].earliest, e.span.earliest)
          /\ watermark'[i].latest = Later(watermark[i].latest, e.span.latest)
          /\ watermark[i].earliest \in Int /\ watermark[i].latest \in Int
      BY <2>2, FlushedDates
    <3>2. /\ watermark'[i].earliest \in Int /\ watermark'[i].latest \in Int
          /\ watermark'[i].earliest <= watermark[i].earliest /\ watermark[i].latest <= watermark'[i].latest
      BY <1>b, <3>1 DEF Earlier, Later
    <3>3. /\ HistoryStart[i] <= watermark[i].latest + 1
          /\ \A k \in InFlight : KeyInstrument(k) = i =>
               BeginsBy(k, watermark[i].latest + 1) /\ EndsFrom(k, watermark[i].earliest - 1)
      BY <1>d, <2>2 DEF JoinInv, LaterLoads
    <3>4. ASSUME NEW k \in InFlight, KeyInstrument(k) = i
          PROVE  BeginsBy(k, watermark'[i].latest + 1) /\ EndsFrom(k, watermark'[i].earliest - 1)
      <4>1. /\ watermark[i].latest + 1 \in Int /\ watermark'[i].latest + 1 \in Int
            /\ watermark[i].latest + 1 <= watermark'[i].latest + 1
            /\ watermark[i].earliest - 1 \in Int /\ watermark'[i].earliest - 1 \in Int
            /\ watermark'[i].earliest - 1 <= watermark[i].earliest - 1
        BY <3>1, <3>2
      <4> QED BY <3>3, <3>4, <4>1, BeginsMonotone
    <3> QED BY <1>d, <3>1, <3>2, <3>3, <3>4 DEF BeginsBy, EndsFrom
  <2> QED BY <2>1, <2>2
<1> HIDE DEF i
<1>2. LaterLoads(i)'
  BY <1>a, <1>e, <1>1 DEF LaterLoads, BeginsBy, EndsFrom, SameLoad, KeyInstrument, KeyBatch
<1> QED BY <1>2 DEF i

LEMMA JoinNext ==
    ASSUME HistoriesStart, NoFreeRanges, TypeInv, BatchInv, TurnInv, RunInv, DatesInv, PastInv, JoinInv,
           [Next]_vars, TypeInv'
    PROVE  JoinInv'
<1> SUFFICES ASSUME NEW i \in Instruments
             PROVE  /\ watermark'[i] = NoWatermark => FirstLoads(i)'
                    /\ watermark'[i] # NoWatermark => LaterLoads(i)'
  BY DEF JoinInv
<1>1. CASE ~IngestFlush
  BY <1>1, WatermarkRests, FirstLoadsNext, LaterLoadsNext DEF JoinInv
<1>2. CASE IngestFlush
  <2>1. CASE \E e \in ingest.dates : e.inst = i /\ watermark' # watermark
    <3>1. PICK e \in ingest.dates : e.inst = i /\ watermark' # watermark
      BY <2>1
    <3>2. LaterLoads(i)'
      BY <1>2, <3>1, FlushJoins
    <3>3. watermark'[i] # NoWatermark
      BY <1>2, <3>1, FlushedIsThere
    <3> QED BY <3>2, <3>3
  <2>2. CASE ~\E e \in ingest.dates : e.inst = i /\ watermark' # watermark
    <3>1. watermark'[i] = watermark[i]
      BY <1>2, <2>2, FlushEffect
    <3>2. /\ fetch_request' = fetch_request /\ planner'.emitted = {} /\ today' = today
      BY <1>2, FlushFrame
    <3> QED BY <3>1, <3>2 DEF JoinInv, FirstLoads, LaterLoads, InFlight, WithStatus, BeginsBy, EndsFrom,
                             SameLoad, KeyInstrument, KeyBatch
  <2> QED BY <2>1, <2>2
<1> QED BY <1>1, <1>2

LEMMA JoinInit == Init => JoinInv
  BY DEF Init, EmptyTables, IdlePlanner, JoinInv, FirstLoads, InFlight, WithStatus
-----------------------------------------------------------------------------
(* The watermark tells the truth.                                          *)

\* From the history, or from its first date if that is earlier, to its last,
\* what the watermark covers is secured.
NoHoles ==
    \A i \in Instruments : watermark[i] # NoWatermark =>
      \A d \in VendorDays[i] :
        /\ d <= watermark[i].latest
        /\ watermark[i].earliest <= d \/ HistoryStart[i] <= d
        => Secured(i, d)

\* What a flush adds to what the watermark covers, the load has asked for.
LEMMA FlushSecures ==
    ASSUME HistoriesStart, TypeInv, BatchInv, TurnInv, RunInv, PastInv, JoinInv, NoHoles,
           IngestFlush, [Next]_vars, NEW e \in ingest.dates, watermark' # watermark,
           NEW d \in VendorDays[e.inst], d <= watermark'[e.inst].latest,
           watermark'[e.inst].earliest <= d \/ HistoryStart[e.inst] <= d
    PROVE  Secured(e.inst, d)
<1> DEFINE i == e.inst
<1>a. /\ e.span.earliest \in Int /\ e.span.latest \in Int /\ e.span.earliest <= e.span.latest
  BY SpanIsPast
<1>b. PICK m \in DOMAIN fetch_request, n \in DOMAIN fetch_request :
             /\ m \in WithStatus("LANDED") /\ n \in WithStatus("LANDED")
             /\ KeyInstrument(m) = e.inst /\ KeyInstrument(n) = e.inst
             /\ fetch_request[m].start \in Int /\ fetch_request[m].start <= e.span.earliest
             /\ fetch_request[n].end \in Int /\ e.span.latest <= fetch_request[n].end
             /\ \A k \in InFlight : KeyInstrument(k) = e.inst => SameLoad(k, m) /\ SameLoad(k, n)
  BY EntryOfLoad
<1>c. /\ i \in Instruments /\ HistoryStart[i] \in Int /\ d \in Int
  BY PlanningAssumption, ControlPlaneAssumption DEF TypeInv, TypeCore, TypeOK, IngestState, HistoriesStart
<1>d. m \in InFlight /\ n \in InFlight /\ m \in Reached /\ n \in Reached
  BY <1>b DEF InFlight, Reached
<1>e. SameLoad(m, m) /\ SameLoad(n, n) /\ SameLoad(m, n)
  BY <1>b, <1>d DEF SameLoad
<1>f. LoadsAreRanges
  BY DEF PastInv, RangeInv
<1>1. ASSUME BeginsBy(m, d), EndsFrom(m, d) PROVE Secured(i, d)
  BY <1>1, <1>b, <1>d, <1>f, LoadSecures
<1>2. d <= e.span.latest => EndsFrom(m, d)
  BY <1>a, <1>b, <1>c, <1>e DEF EndsFrom
<1>3. e.span.earliest <= d => BeginsBy(m, d)
  BY <1>a, <1>b, <1>c, <1>e DEF BeginsBy
<1>4. CASE watermark[i] = NoWatermark
  <2>1. watermark'[i].earliest = e.span.earliest /\ watermark'[i].latest = e.span.latest
    BY <1>4, FlushedDates
  <2>2. BeginsBy(m, HistoryStart[i])
    BY <1>4, <1>b, <1>c, <1>d DEF JoinInv, FirstLoads
  <2>3. HistoryStart[i] <= d => BeginsBy(m, d)
    BY <1>c, <2>2, BeginsMonotone
  <2> QED BY <1>1, <1>2, <1>3, <2>1, <2>3
<1>5. CASE watermark[i] # NoWatermark
  <2> DEFINE first == watermark[i].latest + 1
             last  == watermark[i].earliest - 1
  <2>1. /\ watermark'[i].earliest = Earlier(watermark[i].earliest, e.span.earliest)
        /\ watermark'[i].latest = Later(watermark[i].latest, e.span.latest)
        /\ watermark[i].earliest \in Int /\ watermark[i].latest \in Int
        /\ watermark[i].earliest <= watermark[i].latest
    BY <1>5, FlushedDates
  <2>2. BeginsBy(m, first) /\ EndsFrom(m, last) /\ first \in Int /\ last \in Int
    BY <1>5, <1>b, <1>c, <1>d, <2>1 DEF JoinInv, LaterLoads
  <2>3. CASE d > watermark[i].latest
    <3>1. d <= e.span.latest /\ first <= d
      BY <1>a, <1>c, <2>1, <2>3 DEF Later
    <3>2. BeginsBy(m, d)
      <4> HIDE DEF first
      <4> QED BY <1>c, <2>2, <3>1, BeginsMonotone
    <3> QED BY <1>1, <1>2, <3>1, <3>2
  <2>4. CASE d <= watermark[i].latest /\ (watermark[i].earliest <= d \/ HistoryStart[i] <= d)
    BY <1>5, <1>c, <2>4 DEF NoHoles
  <2>5. CASE d < watermark[i].earliest /\ watermark'[i].earliest <= d
    <3>1. e.span.earliest <= d /\ d <= last
      BY <1>a, <1>c, <2>1, <2>5 DEF Earlier
    <3>2. EndsFrom(m, d)
      <4> HIDE DEF last
      <4> QED BY <1>c, <2>2, <3>1, BeginsMonotone
    <3> QED BY <1>1, <1>3, <3>1, <3>2
  <2> QED BY <1>c, <2>1, <2>3, <2>4, <2>5
<1> QED BY <1>4, <1>5

LEMMA NoHolesNext ==
    ASSUME HistoriesStart, TypeInv, BatchInv, TurnInv, RunInv, PastInv, JoinInv, NoHoles, [Next]_vars
    PROVE  NoHoles'
<1> SUFFICES ASSUME NEW i \in Instruments, watermark'[i] # NoWatermark, NEW d \in VendorDays[i],
                    d <= watermark'[i].latest,
                    watermark'[i].earliest <= d \/ HistoryStart[i] <= d
             PROVE  Secured(i, d)'
  BY DEF NoHoles
<1>1. ASSUME Secured(i, d) PROVE Secured(i, d)'
  BY <1>1, SecuredStays
<1>2. CASE ~IngestFlush
  <2>1. Secured(i, d)
    BY <1>2, WatermarkRests DEF NoHoles
  <2> QED BY <1>1, <2>1
<1>3. CASE IngestFlush
  <2>1. CASE \E e \in ingest.dates : e.inst = i /\ watermark' # watermark
    BY <1>1, <1>3, <2>1, FlushSecures
  <2>2. CASE ~\E e \in ingest.dates : e.inst = i /\ watermark' # watermark
    <3>1. watermark'[i] = watermark[i]
      BY <1>3, <2>2, FlushEffect
    <3>2. Secured(i, d)
      BY <3>1 DEF NoHoles
    <3> QED BY <1>1, <3>2
  <2> QED BY <2>1, <2>2
<1> QED BY <1>2, <1>3

\* A request that is INGESTED is complete, or looked like a replay.
Through(k) == Complete(k) \/ LooksReplayed(k)

\* What is not stored of a group that is being written is still to be appended.
ThroughInHand ==
    ingest.phase \in {"new", "amended", "rejected"} =>
      \A k \in ingest.group.keys : \A d \in Bars(k) :
        \/ Kept(KeyInstrument(k), d)
        \/ ingest.phase = "new" /\ d \in ingest.group.new
        \/ d \in ingest.group.bad

ThroughInv ==
    /\ \A k \in WithStatus("INGESTED") \cup ingest.marks : Through(k)
    /\ ThroughInHand

LEMMA ThroughStays ==
    ASSUME TypeInv, [Next]_vars, NEW k \in DOMAIN fetch_request, Through(k)
    PROVE  Through(k)'
<1>1. CASE Complete(k)
  BY <1>1, TablesGrow, CompleteStays DEF Through
<1>2. CASE LooksReplayed(k)
  <2>1. PICK l \in DOMAIN fetch_request : SameLoad(k, l) /\ SkipsDedup(l)
    BY <1>2 DEF LooksReplayed
  <2>2. l \in DOMAIN fetch_request' /\ SkipsDedup(l)' /\ SameLoad(k, l)'
    BY <2>1, RangeKept DEF SameLoad, KeyInstrument, KeyBatch
  <2>3. PICK d \in VendorDays[KeyInstrument(k)] : <<KeyInstrument(k), d, KeyBatch(k)>> \in bronze
    BY <1>2 DEF LooksReplayed
  <2>4. <<KeyInstrument(k), d, KeyBatch(k)>> \in bronze'
    BY <2>3, TablesGrow
  <2> QED BY <2>2, <2>3, <2>4 DEF Through, LooksReplayed, KeyInstrument, KeyBatch
<1> QED BY <1>1, <1>2 DEF Through

\* The requests in hand have rows, and are of one instrument and batch.
LEMMA HandKeys ==
    ASSUME TypeInv, RunInv, ingest.phase \in {"new", "amended", "rejected"}, NEW k \in ingest.group.keys
    PROVE  /\ k \in DOMAIN fetch_request
           /\ ingest.group.inst = {KeyInstrument(k)} /\ ingest.group.batch \in Batches
<1>1. PICK i \in Instruments : GroupOf(i)
  BY DEF RunInv
<1>2. k \in ingest.rows /\ KeyInstrument(k) = i /\ ingest.group.inst = {i}
  BY <1>1 DEF GroupOf, Group
<1> QED BY <1>2 DEF TypeInv, RowsExist, TypeCore, GroupHasBatch

\* What is marked or in hand after a step, and what it does to the requests that
\* were INGESTED or marked before.
LEMMA ThroughFrame ==
    ASSUME TypeInv, RunInv, ThroughInv, [Next]_vars,
           \A k \in ingest'.marks : k \in ingest.marks \/ (k \in DOMAIN fetch_request /\ Through(k)'),
           UNCHANGED ingest \/ ThroughInHand'
    PROVE  ThroughInv'
<1>a. fetch_request \in [DOMAIN fetch_request -> Request]
  BY DEF TypeInv, TypeCore, TypeOK, SharedTypeOK
<1>1. WithStatus("INGESTED")' \subseteq WithStatus("INGESTED") \cup ingest.marks
  <2>1. CASE IngestMark
    <3>1. fetch_request' = SetStatus(fetch_request, ingest.marks, {"LANDED"}, "INGESTED")
      BY <2>1 DEF IngestMark
    <3>2. DOMAIN fetch_request' = DOMAIN fetch_request
      BY <3>1 DEF SetStatus
    <3> QED BY <1>a, <3>1, <3>2, SetStatusEffect DEF WithStatus
  <2> QED BY <2>1, IngestedByMark
<1>2. \A k \in WithStatus("INGESTED") \cup ingest.marks : k \in DOMAIN fetch_request
  BY DEF RunInv, WithStatus
<1>3. \A k \in WithStatus("INGESTED") \cup ingest.marks : Through(k)'
  BY <1>2, ThroughStays DEF ThroughInv
<1>4. ThroughInHand'
  <2> SUFFICES ASSUME UNCHANGED ingest, ingest.phase \in {"new", "amended", "rejected"},
                      NEW k \in ingest.group.keys, NEW d \in Bars(k)'
               PROVE  \/ Kept(KeyInstrument(k), d)'
                      \/ ingest.phase = "new" /\ d \in ingest.group.new
                      \/ d \in ingest.group.bad
    BY DEF ThroughInHand, KeyInstrument
  <2>1. d \in Bars(k)
    BY HandKeys, RangeKept
  <2>2. Kept(KeyInstrument(k), d) => Kept(KeyInstrument(k), d)'
    BY TablesGrow, KeptGrows DEF KeyInstrument
  <2> QED BY <2>1, <2>2 DEF ThroughInv, ThroughInHand
<1> QED BY <1>1, <1>3, <1>4 DEF ThroughInv

LEMMA OpenGroupThrough ==
    ASSUME TypeInv, BatchInv, RunInv, ThroughInv, NEW i \in Instruments, IngestOpenGroup(i), [Next]_vars
    PROVE  ThroughInv'
<1>a. ingest \in IngestState
  BY DEF TypeInv, TypeCore, TypeOK
<1>b. UNCHANGED <<bronze, rejected, fetch_request>>
  BY DEF IngestOpenGroup, shared, delta
<1>c. \A k \in Group(i) : k \in DOMAIN fetch_request /\ KeyInstrument(k) = i
  BY DEF Group, TypeInv, RowsExist
<1>d. \A k, l \in Group(i) : SameLoad(k, l)
  BY DEF Group, RunInv, BatchInv, OneBatchInFlight, InFlight, SameLoad
<1>1. ASSUME NEW b, NEW days, ingest' = Close(i, Group(i), b, days),
             \A k \in Group(i) : Through(k)
      PROVE  ThroughInv'
  <2>1. ingest'.phase = "groups" /\ ingest'.marks = ingest.marks \cup Group(i)
    BY <1>1, <1>a, CloseMarks
  <2>2. \A k \in Group(i) : k \in DOMAIN fetch_request /\ Through(k)'
    BY <1>1, <1>c, ThroughStays
  <2>3. ThroughInHand'
    BY <2>1 DEF ThroughInHand
  <2> QED BY <2>1, <2>2, <2>3, ThroughFrame
<1>2. PICK rep \in Group(i) :
             \/ /\ SkipsDedup(rep) /\ TRUE \in GuardAnswers(i, KeyBatch(rep))
                /\ ingest' = Close(i, Group(i), KeyBatch(rep), GroupBars(i))
             \/ /\ GroupBars(i) = {}
                /\ ingest' = Close(i, Group(i), KeyBatch(rep), LastEnd(i))
             \/ \E known \in IF SkipsDedup(rep) THEN {{}} ELSE KnownDays(i) :
                \E revised :
                  ingest' = [ingest EXCEPT !.phase = "new",
                                           !.group = Opened(i, rep, known, revised)]
  BY OpenGroupCases
<1>3. CASE /\ SkipsDedup(rep) /\ TRUE \in GuardAnswers(i, KeyBatch(rep))
           /\ ingest' = Close(i, Group(i), KeyBatch(rep), GroupBars(i))
  <2>1. \E d \in VendorDays[i] : <<i, d, KeyBatch(rep)>> \in bronze
    BY <1>3 DEF GuardAnswers
  <2>2. ASSUME NEW k \in Group(i) PROVE Through(k)
    <3>1. SameLoad(k, rep) /\ rep \in DOMAIN fetch_request
      BY <1>c, <1>d
    <3>2. KeyInstrument(k) = i /\ KeyBatch(k) = KeyBatch(rep)
      BY <1>c, <3>1 DEF SameLoad
    <3> QED BY <1>3, <2>1, <3>1, <3>2 DEF Through, LooksReplayed
  <2> QED BY <1>1, <1>3, <2>2
<1>4. CASE /\ GroupBars(i) = {}
           /\ ingest' = Close(i, Group(i), KeyBatch(rep), LastEnd(i))
  <2>1. \A k \in Group(i) : Bars(k) = {}
    BY <1>4 DEF GroupBars
  <2> QED BY <1>1, <1>4, <2>1 DEF Through, Complete
<1>5. ASSUME NEW known \in IF SkipsDedup(rep) THEN {{}} ELSE KnownDays(i), NEW revised,
             ingest' = [ingest EXCEPT !.phase = "new",
                                      !.group = Opened(i, rep, known, revised)]
      PROVE  ThroughInv'
  <2>1. /\ ingest'.marks = ingest.marks /\ ingest'.phase = "new"
        /\ ingest'.group = Opened(i, rep, known, revised)
    BY <1>5, <1>a DEF IngestState
  <2>2. known = {} \/ known = Stored(i)
    BY <1>5 DEF KnownDays
  <2>3. ASSUME NEW k \in Group(i), NEW d \in Bars(k)
        PROVE  \/ Kept(i, d)
               \/ d \in GroupGood(i) \ known
               \/ d \in GroupBars(i) \cap InvalidDays[i]
    <3>1. d \in GroupBars(i)
      BY DEF GroupBars
    <3>2. d \in Stored(i) => Kept(i, d)
      BY DEF Stored, Kept
    <3> QED BY <2>2, <3>1, <3>2 DEF GroupGood
  <2>4. /\ ingest'.group.keys = Group(i)
        /\ ingest'.group.new = GroupGood(i) \ known
        /\ ingest'.group.bad = GroupBars(i) \cap InvalidDays[i]
    BY <2>1 DEF Opened
  <2>5. \A k : Bars(k)' = Bars(k)
    BY <1>b DEF Bars
  <2>6. \A d : Kept(i, d)' = Kept(i, d)
    BY <1>b DEF Kept
  <2>7. ThroughInHand'
    BY <1>c, <2>1, <2>3, <2>4, <2>5, <2>6 DEF ThroughInHand
  <2> QED BY <2>1, <2>7, ThroughFrame
<1> QED BY <1>2, <1>3, <1>4, <1>5

\* With its appends, what the group brings is stored or rejected.
LEMMA AppendThrough ==
    ASSUME TypeInv, RunInv, ThroughInv, [Next]_vars,
           IngestAppendNew \/ IngestAppendAmended \/ IngestAppendRejected
    PROVE  ThroughInv'
<1> DEFINE g == ingest.group
<1>a. ingest \in IngestState /\ ingest.phase \in {"new", "amended", "rejected"}
  BY DEF IngestAppendNew, IngestAppendAmended, IngestAppendRejected, TypeInv, TypeCore, TypeOK
<1>b. \A k \in g.keys : /\ k \in DOMAIN fetch_request
                        /\ g.inst = {KeyInstrument(k)} /\ g.batch \in Batches
  BY <1>a, HandKeys
<1>c. \A k \in g.keys : Bars(k)' = Bars(k)
  BY <1>b, RangeKept
<1>d. \A i, d : Kept(i, d) => Kept(i, d)'
  BY TablesGrow, KeptGrows
<1>1. ASSUME IngestAppendNew \/ IngestAppendAmended PROVE ThroughInv'
  <2>1. /\ ingest'.phase \in {"amended", "rejected"} /\ ingest'.group = g
        /\ ingest'.marks = ingest.marks
    BY <1>1, <1>a DEF IngestAppendNew, IngestAppendAmended, IngestState
  <2>2. ASSUME NEW k \in g.keys, ingest.phase = "new", NEW d \in g.new
        PROVE  Kept(KeyInstrument(k), d)'
    <3>1. bronze' = bronze \cup Rows(g.new)
      BY <1>1, <2>2 DEF IngestAppendNew, IngestAppendAmended
    <3>2. <<KeyInstrument(k), d, g.batch>> \in Rows(g.new)
      BY <1>b, <2>2 DEF Rows
    <3> QED BY <1>b, <3>1, <3>2 DEF Kept
  <2>3. ThroughInHand'
    BY <1>a, <1>c, <1>d, <2>1, <2>2 DEF ThroughInv, ThroughInHand, KeyInstrument
  <2> QED BY <2>1, <2>3, ThroughFrame
<1>2. ASSUME IngestAppendRejected PROVE ThroughInv'
  <2>1. PICK i \in g.inst : ingest' = Close(i, g.keys, g.batch, g.days)
    BY <1>2 DEF IngestAppendRejected
  <2>2. ingest'.phase = "groups" /\ ingest'.marks = ingest.marks \cup g.keys
    BY <1>a, <2>1, CloseMarks
  <2>3. ingest.phase = "rejected" /\ rejected' = rejected \cup Rows(g.bad)
    BY <1>2 DEF IngestAppendRejected
  <2>4. ASSUME NEW k \in g.keys, NEW d \in g.bad PROVE Kept(KeyInstrument(k), d)'
    <3>1. <<KeyInstrument(k), d, g.batch>> \in Rows(g.bad)
      BY <1>b, <2>4 DEF Rows
    <3> QED BY <1>b, <2>3, <3>1 DEF Kept
  <2>5. \A k \in g.keys : Through(k)'
    BY <1>a, <1>c, <1>d, <2>3, <2>4 DEF ThroughInv, ThroughInHand, Through, Complete, KeyInstrument
  <2>6. ThroughInHand'
    BY <2>2 DEF ThroughInHand
  <2> QED BY <1>b, <2>2, <2>5, <2>6, ThroughFrame
<1> QED BY <1>1, <1>2

LEMMA ThroughNext ==
    TypeInv /\ BatchInv /\ RunInv /\ ThroughInv /\ [Next]_vars => ThroughInv'
<1> SUFFICES ASSUME TypeInv, BatchInv, RunInv, ThroughInv, [Next]_vars PROVE ThroughInv'
  OBVIOUS
<1>a. ingest \in IngestState
  BY DEF TypeInv, TypeCore, TypeOK
<1>1. ASSUME ingest'.phase \notin {"new", "amended", "rejected"}, ingest'.marks \subseteq ingest.marks
      PROVE  ThroughInv'
  <2>1. ThroughInHand'
    BY <1>1 DEF ThroughInHand
  <2> QED BY <1>1, <2>1, ThroughFrame
<1>2. CASE UNCHANGED ingest
  BY <1>2, ThroughFrame
<1>3. CASE IngestReadFailed \/ IngestReadDone \/ IngestGroupsDone \/ IngestFlush
  BY <1>1, <1>3, <1>a DEF IngestReadFailed, IngestReadDone, IngestGroupsDone, IngestFlush, IngestState
<1>4. CASE IngestMerge \/ IngestArchive \/ IngestCrash
  BY <1>1, <1>4 DEF IngestMerge, IngestArchive, IngestCrash, IdleIngest
<1>5. CASE IngestSelect
  <2>1. CASE ingest' = IdleIngest
    BY <1>1, <2>1 DEF IdleIngest
  <2>2. CASE ingest' = [ingest EXCEPT
                          !.rows  = WithStatus("LANDED"),
                          !.phase = IF WithStatus("LANDED") = {} THEN "archive" ELSE "groups"]
    BY <1>1, <1>a, <2>2 DEF IngestState
  <2> QED BY <1>5, <2>1, <2>2 DEF IngestSelect
<1>6. CASE IngestGroupFails
  <2>1. ingest'.phase = "groups" /\ ingest'.marks = ingest.marks
    BY <1>6, <1>a DEF IngestGroupFails, IngestState
  <2> QED BY <1>1, <2>1
<1>7. CASE IngestMark
  <2>1. ingest'.phase = "archive" /\ ingest'.marks = {}
    BY <1>7, <1>a DEF IngestMark, IngestState
  <2> QED BY <1>1, <2>1
<1> QED BY <1>2, <1>3, <1>4, <1>5, <1>6, <1>7, OpenGroupThrough, AppendThrough
        DEF Next, vars, PlannerStep, AgentStep, EnvironmentStep, IngestStep, StartIngest, IngestWork

LEMMA ThroughInit == Init => ThroughInv
  BY DEF Init, EmptyTables, IdleIngest, ThroughInv, ThroughInHand, WithStatus

WatermarkInv == TypeInv /\ BatchInv /\ TurnInv /\ RunInv /\ DatesInv /\ PastInv /\ JoinInv /\ NoHoles

LEMMA WatermarkInit == Init => WatermarkInv
<1>1. Init => DatesInv
  BY DEF Init, EmptyTables, IdlePlanner, IdleIngest, DatesInv
<1>2. Init => NoHoles
  BY DEF Init, EmptyTables, NoHoles
<1> QED BY <1>1, <1>2, InitType, BatchInit, TurnInit, RunInit, PastInit, JoinInit DEF WatermarkInv

LEMMA WatermarkNext ==
    ASSUME HistoriesStart, NoFreeRanges, ~JobsOverlap
    PROVE  WatermarkInv /\ [Next]_vars => WatermarkInv'
<1> SUFFICES ASSUME WatermarkInv, [Next]_vars PROVE WatermarkInv'
  OBVIOUS
<1> USE DEF WatermarkInv
<1>1. TypeInv' /\ BatchInv' /\ TurnInv' /\ RunInv' /\ DatesInv'
  BY NextType, BatchNext, TurnNext, RunNext, DatesNext
<1>2. PastInv'
  BY PastNext
<1>3. JoinInv'
  BY <1>1, JoinNext
<1>4. NoHoles'
  BY NoHolesNext
<1> QED BY <1>1, <1>2, <1>3, <1>4

\* A day the watermark covers is stored, or a request that asked for it is in
\* flight, FAILED, ORPHANED or was taken for a replay, and another request of its
\* load has its payload: flushes, replays, failed flushes, repeated and extended
\* loads of any number of requests lose no other day, with every fault enabled
\* and whoever dies, as long as the two jobs take turns, histories have a start
\* and the configured modes plan no range of their own.
THEOREM WatermarkTellsTheTruth ==
    ASSUME HistoriesStart, NoFreeRanges, ~JobsOverlap
    PROVE  Spec => []CoveredIsAccountedFor
<1>1. WatermarkInv /\ [Next]_vars => WatermarkInv'
  BY WatermarkNext
<1>2. WatermarkInv /\ ThroughInv /\ [Next]_vars => ThroughInv'
  BY ThroughNext DEF WatermarkInv
<1>3. WatermarkInv /\ ThroughInv /\ QueueInv => CoveredIsAccountedFor
  <2> SUFFICES ASSUME WatermarkInv, ThroughInv, QueueInv, NEW i \in Instruments,
                      NEW d \in VendorDays[i], watermark[i].earliest <= d, d <= watermark[i].latest
               PROVE  \/ Kept(i, d)
                      \/ \E k, l \in DOMAIN fetch_request :
                           /\ KeyInstrument(k) = i /\ SameLoad(k, l) /\ d \in Bars(k) /\ l \in raw
                           /\ Has(k, "INGESTED") => LooksReplayed(k)
    BY DEF CoveredIsAccountedFor, Kept
  <2>1. d \in Nat
    BY ControlPlaneAssumption
  <2>2. watermark[i] # NoWatermark
    BY <2>1, NoWatermarkType
  <2>3. Secured(i, d)
    BY <2>2 DEF WatermarkInv, NoHoles
  <2>4. ASSUME NEW k \in DOMAIN fetch_request, NEW l \in Reached,
               KeyInstrument(k) = i, SameLoad(k, l), d \in Bars(k), ~Kept(i, d)
        PROVE  /\ l \in DOMAIN fetch_request /\ l \in raw
               /\ Has(k, "INGESTED") => LooksReplayed(k)
    <3>1. l \in DOMAIN fetch_request /\ l \in raw
      BY DEF QueueInv, Landed, LandedHasPayload, Reached, WithStatus
    <3>2. Has(k, "INGESTED") => Through(k)
      BY DEF ThroughInv, Has
    <3> QED BY <2>4, <3>1, <3>2 DEF Through, Complete
  <2> QED BY <2>3, <2>4 DEF Secured
<1> QED BY WatermarkInit, ThroughInit, QueueInvariant, <1>1, <1>2, <1>3, PTL DEF Spec
-----------------------------------------------------------------------------
(* What failed comes back.                                                 *)

\* The calendar knows every day the vendor has a bar for.
OpenDaysOnly == \A i \in Instruments : VendorDays[i] \subseteq TradingDays

\* An enabled extension of the history has not reached its start yet.
Extending(i) == i \in Extended \ Reloaded /\ ExtendedStart < watermark[i].earliest

\* A day that the next plan of the instrument asks for.
Due(i, d) ==
    /\ d <= today
    /\ watermark[i] = NoWatermark => HistoryStart[i] <= d
    /\ watermark[i] # NoWatermark =>
         \/ watermark[i].latest < d /\ ~Extending(i)
         \/ d < watermark[i].earliest /\ Extending(i) /\ ExtendedStart <= d

RowsAreDue ==
    \A k \in DOMAIN fetch_request : \A d \in Bars(k) :
      Secured(KeyInstrument(k), d) \/ Due(KeyInstrument(k), d)

PlansAreDue ==
    \A e \in planner.emitted : \A d \in VendorDays[e.inst] :
      e.plan.start <= d /\ d <= e.plan.end => Secured(e.inst, d) \/ Due(e.inst, d)

DueInv == RowsAreDue /\ PlansAreDue

NeverSuspended == \A i \in Instruments : ~watermark[i].suspended

LEMMA NeverSuspendedNext ==
    ASSUME Suspendable = {}, TypeInv, RunInv, NeverSuspended, [Next]_vars
    PROVE  NeverSuspended'
<1>1. CASE UNCHANGED watermark
  BY <1>1 DEF NeverSuspended
<1>2. ASSUME NEW i \in Instruments, Suspend(i) PROVE FALSE
  BY <1>2 DEF Suspend
<1>3. CASE IngestFlush
  <2> SUFFICES ASSUME NEW i \in Instruments PROVE ~watermark'[i].suspended
    BY DEF NeverSuspended
  <2>1. \A e \in ingest.dates : ~Widened(watermark[i], e.span).suspended
    BY DEF Widened
  <2>2. ~watermark[i].suspended
    BY DEF NeverSuspended
  <2> QED BY <1>3, <2>1, <2>2, FlushEffect
<1> QED BY <1>1, <1>2, <1>3, WatermarkWriters

\* What is due is in the next plan.
LEMMA DueIsPlanned ==
    ASSUME HistoriesStart, NoFreeRanges, OpenDaysOnly, TypeInv, NeverSuspended, PastInv, JoinInv,
           NEW i \in Instruments, NEW d \in VendorDays[i], Due(i, d)
    PROVE  Replanned(i, d)
<1> DEFINE wm == watermark[i]
<1>a. /\ wm \in Watermark /\ ~wm.suspended /\ wm.earliest \in Int /\ wm.latest \in Int
      /\ wm.earliest <= wm.latest
      /\ today \in Nat /\ d \in Nat /\ d \in TradingDays /\ d <= today
  BY TodayGrows, ControlPlaneAssumption
     DEF TypeInv, TypeCore, TypeOK, SharedTypeOK, Watermark, NeverSuspended, PastInv, WatermarksArePast,
         OpenDaysOnly, Due
<1>b. InitialStart(i, today) = HistoryStart[i] /\ HistoryStart[i] \in Nat
  BY PlanningAssumption DEF HistoriesStart, InitialStart
<1>c. i \notin Restated /\ i \notin Overridden
  BY DEF NoFreeRanges
<1>d. BufferDays \in Nat /\ MaxGapDays \in Nat /\ ExtendedStart \in Nat
  BY PlanningAssumption
<1> DEFINE p == Plan(i, wm, today)
<1>1. CASE wm = NoWatermark
  <2>1. HistoryStart[i] <= d
    BY <1>1 DEF Due
  <2>2. p.mode # "NO_OP" /\ p.start = HistoryStart[i] /\ p.end = today
    BY <1>1, <1>a, <1>b, <1>c DEF Plan
  <2> QED BY <1>a, <2>1, <2>2 DEF Replanned
<1>2. CASE wm # NoWatermark /\ wm.latest < d /\ ~Extending(i)
  <2>1. HistoryStart[i] <= wm.latest + 1
    BY <1>2 DEF JoinInv, LaterLoads
  <2>2. CASE i \in Reloaded
    <3>1. p.mode # "NO_OP" /\ p.start = HistoryStart[i] /\ p.end = today
      BY <1>a, <1>b, <2>2 DEF Plan
    <3> QED BY <1>a, <1>b, <1>2, <2>1, <3>1 DEF Replanned
  <2>3. CASE i \notin Reloaded
    <3>1. ~(i \in Extended /\ wm # NoWatermark /\ ExtendedStart < wm.earliest)
      BY <1>2, <2>3 DEF Extending
    <3>2. ~UpToDate(wm.latest, today)
      BY <1>a, <1>2 DEF UpToDate
    <3>3. p = IF today - wm.latest > MaxGapDays
              THEN [mode |-> "GAP_FILL", start |-> wm.latest + 1, end |-> today]
              ELSE [mode |-> "INCREMENTAL", start |-> Later(wm.latest - BufferDays, wm.earliest), end |-> today]
      BY <1>a, <1>c, <1>2, <2>3, <3>1, <3>2 DEF Plan
    <3>4. Later(wm.latest - BufferDays, wm.earliest) <= d
      BY <1>a, <1>d, <1>2 DEF Later
    <3>5. p.mode # "NO_OP" /\ p.end = today /\ p.start <= d
      <4> HIDE DEF p, wm
      <4> QED BY <1>a, <1>2, <3>3, <3>4
    <3> QED BY <1>a, <3>5 DEF Replanned
  <2> QED BY <2>2, <2>3
<1>3. CASE wm # NoWatermark /\ d < wm.earliest /\ Extending(i) /\ ExtendedStart <= d
  <2>1. p.mode # "NO_OP" /\ p.start = ExtendedStart /\ p.end = wm.earliest - 1
    BY <1>a, <1>c, <1>3 DEF Plan, Extending
  <2> QED BY <1>a, <1>3, <2>1 DEF Replanned
<1> QED BY <1>1, <1>2, <1>3 DEF Due

\* What the next plan asks for is due, or the watermark covers it.
LEMMA PlannedIsDue ==
    ASSUME HistoriesStart, NoFreeRanges, TypeInv, PastInv, JoinInv, NoHoles,
           NEW i \in Instruments, NEW d \in VendorDays[i],
           Plan(i, watermark[i], today).mode # "NO_OP",
           Plan(i, watermark[i], today).start <= d, d <= Plan(i, watermark[i], today).end
    PROVE  Secured(i, d) \/ Due(i, d)
<1> DEFINE wm == watermark[i]
           p  == Plan(i, wm, today)
<1>a. /\ wm \in Watermark /\ wm.earliest \in Int /\ wm.latest \in Int
      /\ wm.earliest <= wm.latest /\ wm.earliest <= today
      /\ today \in Nat /\ d \in Nat
  BY TodayGrows, ControlPlaneAssumption
     DEF TypeInv, TypeCore, TypeOK, SharedTypeOK, Watermark, PastInv, WatermarksArePast
<1>b. InitialStart(i, today) = HistoryStart[i] /\ HistoryStart[i] \in Nat
  BY PlanningAssumption DEF HistoriesStart, InitialStart
<1>c. i \notin Restated /\ i \notin Overridden /\ ~wm.suspended
  BY DEF NoFreeRanges, Plan
<1>d. BufferDays \in Nat /\ MaxGapDays \in Nat /\ ExtendedStart \in Nat
  BY PlanningAssumption
<1>1. p.end <= today
  BY <1>a, PlanJoins, NoWatermarkType
<1>2. d <= today
  <2>1. p.end \in Int
    BY <1>a, <1>b, <1>c, <1>d DEF Plan
  <2> HIDE DEF p
  <2> QED BY <1>1, <1>a, <2>1 DEF p
<1>3. CASE wm = NoWatermark
  <2>1. p.start = HistoryStart[i]
    BY <1>3, <1>b, <1>c DEF Plan
  <2> QED BY <1>2, <1>3, <2>1 DEF Due
<1>4. CASE wm # NoWatermark /\ Extending(i)
  <2>1. p.start = ExtendedStart /\ p.end = wm.earliest - 1
    BY <1>4, <1>c DEF Plan, Extending
  <2> QED BY <1>a, <1>2, <1>4, <1>d, <2>1 DEF Due
<1>5. CASE wm # NoWatermark /\ ~Extending(i)
  <2>1. p.start = HistoryStart[i] \/ p.start = wm.latest + 1
          \/ p.start = Later(wm.latest - BufferDays, wm.earliest)
    BY <1>5, <1>b, <1>c DEF Plan, Extending
  <2>2. CASE wm.latest < d
    BY <1>2, <1>5, <2>2 DEF Due
  <2>3. CASE d <= wm.latest
    <3>1. wm.earliest <= d \/ HistoryStart[i] <= d
      <4> HIDE DEF p, wm
      <4>1. p.start <= d
        BY DEF p, wm
      <4> QED BY <1>a, <1>b, <1>d, <2>1, <2>3, <4>1 DEF Later
    <3> QED BY <1>5, <2>3, <3>1 DEF NoHoles
  <2> QED BY <1>a, <2>2, <2>3
<1> QED BY <1>3, <1>4, <1>5

\* A flush apart, what is due stays so.
LEMMA DueRests ==
    ASSUME TypeInv, BatchInv, TurnInv, [Next]_vars, planner.emitted # {} \/ ~IngestFlush,
           NEW i \in Instruments, NEW d \in Nat, Due(i, d)
    PROVE  Due(i, d)'
<1>1. /\ watermark'[i].earliest = watermark[i].earliest
      /\ watermark'[i].latest = watermark[i].latest
      /\ watermark'[i] = NoWatermark <=> watermark[i] = NoWatermark
  BY WatermarkRests
<1>2. d <= today'
  BY TodayGrows DEF Due
<1> QED BY <1>1, <1>2 DEF Due, Extending

\* What a flush takes off what is due of a request is secured by then.
LEMMA FlushedIsSecured ==
    ASSUME HistoriesStart, TypeInv, BatchInv, TurnInv, RunInv, DatesInv, PastInv, JoinInv, NoHoles,
           IngestFlush, [Next]_vars, TypeInv', NEW e \in ingest.dates, watermark' # watermark,
           NEW k \in DOMAIN fetch_request, KeyInstrument(k) = e.inst, NEW d \in Bars(k),
           Due(e.inst, d)
    PROVE  Secured(e.inst, d) \/ Due(e.inst, d)'
<1> DEFINE i == e.inst
<1>a. /\ i \in Instruments /\ HistoryStart[i] \in Int
      /\ d \in VendorDays[i] /\ d \in Int /\ d <= fetch_request[k].end /\ fetch_request[k].end \in Int
  <2>1. i \in Instruments
    BY DEF TypeInv, TypeCore, TypeOK, IngestState
  <2>2. d \in VendorDays[i] /\ d <= fetch_request[k].end
    BY DEF Bars
  <2>3. HistoryStart[i] \in Int /\ d \in Int
    BY <2>1, <2>2, PlanningAssumption, ControlPlaneAssumption DEF HistoriesStart
  <2> QED BY <2>1, <2>2, <2>3 DEF TypeInv, TypeCore, TypeOK, SharedTypeOK, Request
<1>b. watermark'[i] # NoWatermark
  BY FlushedIsThere
<1>c. d <= today'
  BY FlushFrame DEF Due
<1>1. CASE watermark[i] = NoWatermark
  <2>1. PICK m \in DOMAIN fetch_request : m \in WithStatus("LANDED") /\ KeyInstrument(m) = e.inst
    BY EntryOfLoad
  <2>2. m \in InFlight /\ m \in Reached
    BY <2>1 DEF InFlight, Reached
  <2>3. BeginsBy(m, HistoryStart[i]) /\ EndsFrom(m, fetch_request[k].end)
    BY <1>1, <1>a, <2>1, <2>2 DEF JoinInv, FirstLoads
  <2>4. HistoryStart[i] <= d
    BY <1>1 DEF Due
  <2>5. BeginsBy(m, d)
    BY <1>a, <2>3, <2>4, BeginsMonotone
  <2>6. EndsFrom(m, d)
    <3> DEFINE last == fetch_request[k].end
    <3>1. last \in Int /\ d <= last /\ EndsFrom(m, last)
      BY <1>a, <2>3
    <3> HIDE DEF last
    <3> QED BY <1>a, <3>1, BeginsMonotone
  <2> QED BY <1>a, <2>1, <2>2, <2>5, <2>6, LoadSecures DEF PastInv, RangeInv
<1>2. CASE watermark[i] # NoWatermark
  <2>1. /\ watermark'[i].earliest = Earlier(watermark[i].earliest, e.span.earliest)
        /\ watermark'[i].latest = Later(watermark[i].latest, e.span.latest)
        /\ watermark[i].earliest \in Int /\ watermark[i].latest \in Int
        /\ watermark[i].earliest <= watermark[i].latest
    BY <1>2, FlushedDates
  <2>2. e.span.earliest \in Int /\ e.span.latest \in Int
    BY SpanIsPast
  <2>3. /\ watermark'[i].earliest <= watermark[i].earliest /\ watermark[i].latest <= watermark'[i].latest
        /\ watermark'[i].earliest \in Int /\ watermark'[i].latest \in Int
    BY <2>1, <2>2 DEF Earlier, Later
  <2>4. ExtendedStart \in Int
    BY PlanningAssumption
  <2>5. CASE watermark[i].latest < d /\ ~Extending(i)
    <3>1. CASE d <= watermark'[i].latest
      <4>1. HistoryStart[i] <= watermark[i].latest + 1
        BY <1>2, <1>a DEF JoinInv, LaterLoads
      <4>2. HistoryStart[i] <= d
        BY <1>a, <2>1, <2>5, <4>1
      <4> QED BY <1>a, <3>1, <4>2, FlushSecures
    <3>2. CASE watermark'[i].latest < d
      <4>1. ~Extending(i)'
        BY <2>1, <2>3, <2>4, <2>5 DEF Extending
      <4> QED BY <1>b, <1>c, <3>2, <4>1 DEF Due
    <3> QED BY <1>a, <2>3, <3>1, <3>2
  <2>6. CASE d < watermark[i].earliest /\ Extending(i) /\ ExtendedStart <= d
    <3>1. CASE watermark'[i].earliest <= d
      <4>1. d <= watermark'[i].latest
        BY <1>a, <2>1, <2>3, <2>6
      <4> QED BY <1>a, <3>1, <4>1, FlushSecures
    <3>2. CASE d < watermark'[i].earliest
      <4>1. Extending(i)'
        BY <1>a, <2>3, <2>4, <2>6, <3>2 DEF Extending
      <4> QED BY <1>b, <1>c, <2>6, <3>2, <4>1 DEF Due
    <3> QED BY <1>a, <2>3, <3>1, <3>2
  <2> QED BY <1>2, <2>5, <2>6 DEF Due
<1> QED BY <1>1, <1>2

LEMMA DueNext ==
    ASSUME HistoriesStart, NoFreeRanges, "watermark_read" \notin Faults,
           TypeInv, BatchInv, TurnInv, RunInv, DatesInv, PastInv, JoinInv, NoHoles, DueInv,
           [Next]_vars, TypeInv'
    PROVE  DueInv'
<1>a. ASSUME NEW i \in Instruments, NEW d \in VendorDays[i],
             planner.emitted # {} \/ ~IngestFlush, Secured(i, d) \/ Due(i, d)
      PROVE  Secured(i, d)' \/ Due(i, d)'
  <2>1. d \in Nat
    BY ControlPlaneAssumption
  <2> QED BY <1>a, <2>1, SecuredStays, DueRests
<1>b. \A e \in planner.emitted : e.inst \in Instruments
  BY DEF TypeInv, TypeCore, TypeOK, PlannerState
<1>c. \A k \in DOMAIN fetch_request : KeyInstrument(k) \in Instruments
  BY KeyParts DEF TypeInv, TypeCore, TypeOK, SharedTypeOK
<1>1. RowsAreDue'
  <2> SUFFICES ASSUME NEW k \in DOMAIN fetch_request', NEW d \in Bars(k)'
               PROVE  Secured(KeyInstrument(k), d)' \/ Due(KeyInstrument(k), d)'
    BY DEF RowsAreDue, KeyInstrument
  <2>1. CASE k \in DOMAIN fetch_request
    <3>1. d \in Bars(k) /\ d \in VendorDays[KeyInstrument(k)]
      BY <2>1, RangeKept DEF Bars
    <3>2. Secured(KeyInstrument(k), d) \/ Due(KeyInstrument(k), d)
      BY <2>1, <3>1 DEF DueInv, RowsAreDue
    <3>3. CASE ~IngestFlush
      BY <1>a, <1>c, <2>1, <3>1, <3>2, <3>3
    <3>4. CASE IngestFlush /\ \E e \in ingest.dates : e.inst = KeyInstrument(k) /\ watermark' # watermark
      <4>1. Secured(KeyInstrument(k), d) \/ Due(KeyInstrument(k), d)'
        BY <2>1, <3>1, <3>2, <3>4, FlushedIsSecured
      <4> QED BY <4>1, SecuredStays
    <3>5. CASE IngestFlush /\ ~\E e \in ingest.dates : e.inst = KeyInstrument(k) /\ watermark' # watermark
      <4>1. watermark'[KeyInstrument(k)] = watermark[KeyInstrument(k)]
        BY <1>c, <2>1, <3>5, FlushEffect
      <4>2. today' = today
        BY <3>5, FlushFrame
      <4>3. Due(KeyInstrument(k), d) => Due(KeyInstrument(k), d)'
        BY <4>1, <4>2 DEF Due, Extending, KeyInstrument
      <4> QED BY <3>2, <4>3, SecuredStays
    <3> QED BY <3>3, <3>4, <3>5
  <2>2. CASE k \notin DOMAIN fetch_request
    <3>1. PlannerInsert /\ k \in NewKeys
      BY <2>2, TableStep DEF NewRowStep
    <3>2. PICK e \in planner.emitted :
               /\ e.inst = KeyInstrument(k) /\ e.plan \in FetchPlan
               /\ e.plan.start <= fetch_request'[k].start /\ fetch_request'[k].end <= e.plan.end
      BY <3>1, InsertedLoad
    <3>3. /\ d \in VendorDays[e.inst] /\ fetch_request'[k].start <= d /\ d <= fetch_request'[k].end
      BY <3>2 DEF Bars, KeyInstrument
    <3>4. /\ d \in Nat /\ fetch_request'[k].start \in Int /\ fetch_request'[k].end \in Int
          /\ e.plan.start \in Int /\ e.plan.end \in Int
      BY <1>b, <3>2, <3>3, ControlPlaneAssumption
         DEF TypeInv, TypeCore, TypeOK, SharedTypeOK, Request, FetchPlan
    <3>5. e.plan.start <= d /\ d <= e.plan.end
      BY <3>2, <3>3, <3>4
    <3>6. Secured(e.inst, d) \/ Due(e.inst, d)
      BY <3>3, <3>5 DEF DueInv, PlansAreDue
    <3>7. Secured(e.inst, d)' \/ Due(e.inst, d)'
      BY <1>a, <1>b, <3>3, <3>6
    <3> QED BY <3>2, <3>7 DEF KeyInstrument
  <2> QED BY <2>1, <2>2
<1>2. PlansAreDue'
  <2> SUFFICES ASSUME NEW e \in planner'.emitted, NEW d \in VendorDays[e.inst],
                      e.plan.start <= d, d <= e.plan.end
               PROVE  Secured(e.inst, d)' \/ Due(e.inst, d)'
    BY DEF PlansAreDue
  <2>1. CASE e \in planner.emitted
    <3>1. Secured(e.inst, d) \/ Due(e.inst, d)
      BY <2>1 DEF DueInv, PlansAreDue
    <3> QED BY <1>a, <1>b, <2>1, <3>1
  <2>2. ASSUME NEW wm, Adds(e.inst, wm), e.plan = Plan(e.inst, wm, today)
        PROVE  Secured(e.inst, d)' \/ Due(e.inst, d)'
    <3>1. wm = watermark[e.inst] /\ e.inst \in Instruments /\ planner.phase = "plan"
      BY <2>2 DEF Adds, WatermarkRead
    <3>2. ~IngestFlush
      BY <3>1 DEF TurnInv, IngestFlush
    <3>3. Secured(e.inst, d) \/ Due(e.inst, d)
      BY <2>2, <3>1, PlannedIsDue DEF Adds
    <3> QED BY <1>a, <3>1, <3>2, <3>3
  <2> QED BY <2>1, <2>2, EmittedOrAdded
<1> QED BY <1>1, <1>2 DEF DueInv

\* The days of a request that failed or was orphaned are stored by now, the
\* instrument has a load in flight, or the next plan asks for them again, unless
\* another request of a load that asked for the day is INGESTED: whatever fails,
\* dies or is flushed in between, and although nothing but the watermark
\* remembers what was asked for.  FailedChunk shows what the exception is worth.
\* The planner has to get to read the watermark, and nobody suspends the
\* instrument.
THEOREM FailedDaysComeBack ==
    ASSUME HistoriesStart, NoFreeRanges, OpenDaysOnly, ~JobsOverlap,
           "watermark_read" \notin Faults, Suspendable = {}
    PROVE  Spec => []FailedLoadsReplanned
<1> DEFINE Inv == WatermarkInv /\ DueInv /\ NeverSuspended
<1>1. Init => Inv
  <2>1. Init => DueInv
    BY DEF Init, EmptyTables, IdlePlanner, DueInv, RowsAreDue, PlansAreDue
  <2>2. Init => NeverSuspended
    BY DEF Init, EmptyTables, NoWatermark, NeverSuspended
  <2> QED BY <2>1, <2>2, WatermarkInit
<1>2. Inv /\ [Next]_vars => Inv'
  <2> SUFFICES ASSUME Inv, [Next]_vars PROVE Inv'
    OBVIOUS
  <2>1. WatermarkInv'
    BY WatermarkNext
  <2>2. DueInv'
    BY <2>1, DueNext DEF WatermarkInv
  <2>3. NeverSuspended'
    BY NeverSuspendedNext DEF WatermarkInv
  <2> QED BY <2>1, <2>2, <2>3
<1>3. Inv => FailedLoadsReplanned
  <2> SUFFICES ASSUME Inv, NEW k \in WithStatus("FAILED") \cup WithStatus("ORPHANED"),
                      NEW d \in Bars(k)
               PROVE  \/ Remembered(KeyInstrument(k), d)
                      \/ \E m, l \in DOMAIN fetch_request :
                           /\ KeyInstrument(m) = KeyInstrument(k) /\ d \in Bars(m)
                           /\ SameLoad(m, l) /\ Has(l, "INGESTED")
    BY DEF FailedLoadsReplanned
  <2>1. k \in DOMAIN fetch_request /\ d \in VendorDays[KeyInstrument(k)]
    BY DEF WithStatus, Bars
  <2>2. KeyInstrument(k) \in Instruments
    BY <2>1, KeyParts DEF WatermarkInv, TypeInv, TypeCore, TypeOK, SharedTypeOK
  <2>3. CASE Kept(KeyInstrument(k), d)
    BY <2>3 DEF Kept, Remembered
  <2>4. ASSUME NEW m \in DOMAIN fetch_request, NEW l \in Reached,
               KeyInstrument(m) = KeyInstrument(k), SameLoad(m, l), d \in Bars(m)
        PROVE  \/ \E f \in InFlight : KeyInstrument(f) = KeyInstrument(k)
               \/ l \in DOMAIN fetch_request /\ Has(l, "INGESTED")
    BY <2>4 DEF Reached, InFlight, SameLoad, Has, WithStatus
  <2>5. CASE Due(KeyInstrument(k), d)
    BY <2>1, <2>2, <2>5, DueIsPlanned DEF WatermarkInv, Remembered
  <2>6. Secured(KeyInstrument(k), d) \/ Due(KeyInstrument(k), d)
    BY <2>1 DEF DueInv, RowsAreDue
  <2> QED BY <2>3, <2>4, <2>5, <2>6 DEF Secured, Remembered
<1> HIDE DEF Inv
<1> QED BY <1>1, <1>2, <1>3, PTL DEF Spec
=============================================================================
