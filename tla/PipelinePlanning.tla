---------------------------- MODULE PipelinePlanning ----------------------------
(***************************************************************************)
(* Plans, loads and Bronze agree, when the two jobs take turns: what a     *)
(* plan asks for against what is stored, through the run that stores it.   *)
(* RunInv says what an ingestion run holds, AccountInv how each stored bar *)
(* is accounted for (by the watermark, or by a request still LANDED), and  *)
(* on these rest FreshInv, behind NoRepeatedAppend, and LoadInv, behind    *)
(* InitialLoadOnce.                                                        *)
(***************************************************************************)
EXTENDS PipelineSafety, WellFoundedInduction
-----------------------------------------------------------------------------
(* First and last days.                                                    *)

\* A set of days has a first one, and a last one if it is bounded.
LEMMA HasLeast ==
    ASSUME NEW S \in SUBSET Nat, S # {}
    PROVE  \E m \in S : \A x \in S : m <= x
<1>1. IsWellFoundedOn(OpToRel(<, Nat), Nat)
  BY NatLessThanWellFounded
<1>2. PICK m \in S : \A y \in S : ~(<<y, m>> \in OpToRel(<, Nat))
  BY <1>1, WFMin
<1>3. \A y \in S : ~(y < m)
  BY <1>2 DEF OpToRel
<1> QED BY <1>3

LEMMA HasGreatest ==
    ASSUME NEW S \in SUBSET Nat, S # {}, NEW bound \in Int, \A x \in S : x <= bound
    PROVE  \E m \in S : \A x \in S : x <= m
<1> DEFINE T == { n \in Nat : bound - n \in S }
<1>1. PICK x \in S : TRUE
  OBVIOUS
<1>2. bound - x \in T
  OBVIOUS
<1>3. PICK n \in T : \A y \in T : n <= y
  BY <1>2, HasLeast
<1>4. \A y \in S : bound - y \in T
  OBVIOUS
<1> QED BY <1>3, <1>4

\* The span of a bounded set of days is one, from its first to its last day.
LEMMA SpanOfDays ==
    ASSUME NEW S \in SUBSET Nat, S # {}, NEW bound \in Int, \A x \in S : x <= bound
    PROVE  \E s \in Spans(S) : TRUE
<1>1. PICK lo \in S : \A x \in S : lo <= x
  BY HasLeast
<1>2. PICK hi \in S : \A x \in S : x <= hi
  BY HasGreatest
<1>3. [earliest |-> lo, latest |-> hi] \in Spans(S)
  BY <1>1, <1>2 DEF Spans
<1> QED BY <1>3

LEMMA OneSpan ==
    ASSUME NEW S \in SUBSET Int, NEW s \in Spans(S), NEW t \in Spans(S)
    PROVE  s = t
<1>1. s.earliest \in S /\ s.latest \in S /\ t.earliest \in S /\ t.latest \in S
  BY DEF Spans
<1>2. \A d \in S : /\ s.earliest <= d /\ d <= s.latest
                   /\ t.earliest <= d /\ d <= t.latest
  BY DEF Spans
<1>4. s.earliest = t.earliest /\ s.latest = t.latest
  <2>1. s.earliest <= t.earliest /\ t.earliest <= s.earliest
    BY <1>1, <1>2
  <2>2. s.latest <= t.latest /\ t.latest <= s.latest
    BY <1>1, <1>2
  <2>3. \A m, n \in Int : m <= n /\ n <= m => m = n
    OBVIOUS
  <2> QED BY <1>1, <2>1, <2>2, <2>3
<1>3. s = [earliest |-> s.earliest, latest |-> s.latest] /\ t = [earliest |-> t.earliest, latest |-> t.latest]
  BY DEF Spans
<1> QED BY <1>3, <1>4
-----------------------------------------------------------------------------
(* What an ingestion run holds, when the jobs take turns.                  *)

\* The watermark buffer has one entry per instrument; an instrument whose group
\* is still to come has none, and no request to be marked.
OneEntryEach ==
    /\ \A e, f \in ingest.dates : e.inst = f.inst => e = f
    /\ \A e \in ingest.dates, k \in ingest.rows : KeyInstrument(k) # e.inst
    /\ \A m \in ingest.marks, k \in ingest.rows : KeyInstrument(k) # KeyInstrument(m)

\* The group being written is an instrument's whole selection, of one batch.
GroupOf(i) ==
    /\ ingest.group.inst = {i} /\ ingest.group.keys = Group(i) /\ Group(i) # {}
    /\ \A k \in Group(i) : KeyBatch(k) = ingest.group.batch
    /\ ingest.group.days = GroupGood(i) /\ GroupBars(i) # {}
    /\ ingest.group.new \subseteq GroupGood(i) /\ ingest.group.amended \subseteq GroupGood(i)

RunInv ==
    /\ ingest.phase \in {"idle", "receipts", "merge", "select"} =>
         ingest.rows = {} /\ ingest.marks = {} /\ ingest.dates = {}
    /\ ingest.phase \in {"flush", "mark", "archive"} => ingest.rows = {}
    /\ ingest.phase \in {"mark", "archive"} => ingest.dates = {}
    /\ ingest.rows \cup ingest.marks \subseteq WithStatus("LANDED")
    /\ OneEntryEach
    /\ ingest.phase \in {"new", "amended", "rejected"} => \E i \in Instruments : GroupOf(i)

\* Only the mark takes a request out of LANDED.
LEMMA LandedStays ==
    ASSUME TypeInv, BatchInv, TurnInv, [Next]_vars, ~IngestMark
    PROVE  WithStatus("LANDED") \subseteq WithStatus("LANDED")'
<1>1. \A k \in DOMAIN fetch_request : k \in DOMAIN fetch_request'
  BY DomainGrows
<1>2. WithStatus("INGESTED")' \subseteq WithStatus("INGESTED")
  BY IngestedByMark
<1>3. CASE UNCHANGED StatusOf
  <2>1. DOMAIN fetch_request' = DOMAIN fetch_request
    BY <1>3 DEF StatusOf
  <2> QED BY <1>3, <2>1 DEF StatusOf, WithStatus
<1>4. CASE StatusStep
  <2>1. \A k \in DOMAIN fetch_request :
          /\ StatusOf[k] = fetch_request[k].status
          /\ StatusOf'[k] = fetch_request'[k].status
    BY <1>1 DEF StatusOf
  <2>2. DOMAIN StatusOf = DOMAIN fetch_request
    BY DEF StatusOf
  <2>3. ASSUME NEW k \in WithStatus("LANDED")
        PROVE  fetch_request'[k].status \in {"LANDED", "INGESTED"}
    <3>1. k \in DOMAIN fetch_request /\ fetch_request[k].status = "LANDED"
      BY DEF WithStatus
    <3> QED BY <1>4, <2>1, <2>2, <3>1
            DEF StatusStep, Lifecycle!Adds, Lifecycle!Move
  <2> QED BY <1>1, <1>2, <2>3 DEF WithStatus
<1> QED BY <1>3, <1>4, LifecycleStep

\* A step that leaves the run alone.
LEMMA RunFrame ==
    ASSUME TypeInv, BatchInv, TurnInv, RunInv, [Next]_vars, UNCHANGED ingest
    PROVE  RunInv'
<1>1. ~IngestMark
  BY DEF IngestMark, TypeInv, TypeCore, TypeOK, IngestState
<1>2. WithStatus("LANDED") \subseteq WithStatus("LANDED")'
  BY <1>1, LandedStays
<1>3. ASSUME NEW i \in Instruments, GroupOf(i) PROVE GroupOf(i)'
  <2>1. \A k \in Group(i) : k \in DOMAIN fetch_request
    BY DEF Group, TypeInv, RowsExist
  <2>2. \A k \in Group(i) : Bars(k)' = Bars(k)
    BY <2>1, RangeKept
  <2>3. Group(i)' = Group(i)
    BY DEF Group
  <2>4. GroupBars(i)' = GroupBars(i)
    BY <2>2, <2>3 DEF GroupBars
  <2>5. GroupGood(i)' = GroupGood(i)
    BY <2>4 DEF GroupGood
  <2> QED BY <1>3, <2>3, <2>4, <2>5 DEF GroupOf
<1> QED BY <1>2, <1>3 DEF RunInv, OneEntryEach

\* A group that is through leaves an entry in the buffer, if it had days.
LEMMA CloseEntries ==
    ASSUME ingest \in IngestState, NEW i, NEW keys, NEW b, NEW days
    PROVE  /\ \A e \in Close(i, keys, b, days).dates :
                e \in ingest.dates \/ (e.inst = i /\ e.span \in Spans(days))
           /\ ingest.dates \subseteq Close(i, keys, b, days).dates
           /\ \A s \in Spans(days) : [inst |-> i, span |-> s] \in Close(i, keys, b, days).dates
<1>1. Close(i, keys, b, days).dates = ingest.dates \cup [inst : {i}, span : Spans(days)]
  BY DEF Close, IngestState
<1> HIDE DEF Spans
<1> QED BY <1>1

LEMMA CloseRun ==
    ASSUME ingest \in IngestState, RunInv, UNCHANGED fetch_request,
           NEW i \in Instruments, Group(i) # {}, NEW b, NEW days \in SUBSET Int,
           ingest' = Close(i, Group(i), b, days)
    PROVE  RunInv'
<1>1. /\ ingest'.rows = ingest.rows \ Group(i)
      /\ ingest'.marks = ingest.marks \cup Group(i)
      /\ ingest'.phase = "groups"
  BY CloseMarks
<1>2. \A e \in ingest'.dates : e \in ingest.dates \/ (e.inst = i /\ e.span \in Spans(days))
  BY CloseEntries
<1>3. \A e \in ingest.dates : e.inst # i
  BY DEF Group, RunInv, OneEntryEach
<1>4. \A e, f \in ingest'.dates : e.inst = f.inst => e = f
  <2> SUFFICES ASSUME NEW e \in ingest'.dates, NEW f \in ingest'.dates, e.inst = f.inst
               PROVE  e = f
    OBVIOUS
  <2>1. CASE e \in ingest.dates /\ f \in ingest.dates
    BY <2>1 DEF RunInv, OneEntryEach
  <2>2. CASE e \notin ingest.dates \/ f \notin ingest.dates
    <3>1. e \notin ingest.dates /\ f \notin ingest.dates
      BY <1>2, <1>3, <2>2
    <3>2. e.span = f.span
      BY <1>2, <3>1, OneSpan
    <3>3. ingest'.dates = ingest.dates \cup [inst : {i}, span : Spans(days)]
      BY DEF Close, IngestState
    <3>4. e \in [inst : {i}, span : Spans(days)] /\ f \in [inst : {i}, span : Spans(days)]
      BY <3>1, <3>3
    <3>5. e = [inst |-> e.inst, span |-> e.span] /\ f = [inst |-> f.inst, span |-> f.span]
      <4> HIDE DEF Spans
      <4> QED BY <3>4
    <3> QED BY <3>2, <3>5
  <2> QED BY <2>1, <2>2
<1>5. \A e \in ingest'.dates, k \in ingest'.rows : KeyInstrument(k) # e.inst
  <2>1. \A k \in ingest'.rows : k \in ingest.rows /\ KeyInstrument(k) # i
    BY <1>1 DEF Group
  <2> QED BY <1>2, <2>1 DEF RunInv, OneEntryEach
<1>6. ingest'.rows \cup ingest'.marks \subseteq WithStatus("LANDED")'
  BY <1>1 DEF RunInv, Group, WithStatus
<1>7. \A m \in ingest'.marks, k \in ingest'.rows : KeyInstrument(k) # KeyInstrument(m)
  BY <1>1 DEF RunInv, OneEntryEach, Group
<1> QED BY <1>1, <1>4, <1>5, <1>6, <1>7 DEF RunInv, OneEntryEach

LEMMA OpenGroupRun ==
    ASSUME TypeInv, BatchInv, RunInv, NEW i \in Instruments, IngestOpenGroup(i)
    PROVE  RunInv'
<1>a. ingest \in IngestState
  BY DEF TypeInv, TypeCore, TypeOK
<1>b. UNCHANGED fetch_request /\ Group(i) # {}
  BY DEF IngestOpenGroup, shared, delta
<1>c. Group(i) \subseteq Keys /\ Group(i) \subseteq DOMAIN fetch_request
  BY <1>a DEF Group, IngestState, TypeInv, RowsExist
<1>1. PICK rep \in Group(i) :
          \/ ingest' = Close(i, Group(i), KeyBatch(rep), GroupBars(i))
          \/ ingest' = Close(i, Group(i), KeyBatch(rep), LastEnd(i))
          \/ /\ GroupBars(i) # {}
             /\ \E known : \E revised \in SUBSET GroupGood(i) :
                  ingest' = [ingest EXCEPT !.phase = "new",
                                           !.group = Opened(i, rep, known, revised)]
  BY Zenon DEF IngestOpenGroup, GroupBars, GroupGood, LastEnd, Opened
<1>2. CASE ingest' = Close(i, Group(i), KeyBatch(rep), GroupBars(i))
  <2>1. GroupBars(i) \in SUBSET Int
    BY <1>c, BarsAreDays DEF GroupBars
  <2> QED BY <1>2, <1>a, <1>b, <2>1, CloseRun
<1>3. CASE ingest' = Close(i, Group(i), KeyBatch(rep), LastEnd(i))
  <2>1. LastEnd(i) \in SUBSET Int
    BY <1>c DEF LastEnd, TypeInv, TypeCore, TypeOK, SharedTypeOK, Request
  <2> QED BY <1>3, <1>a, <1>b, <2>1, CloseRun
<1>4. ASSUME GroupBars(i) # {}, NEW known, NEW revised \in SUBSET GroupGood(i),
             ingest' = [ingest EXCEPT !.phase = "new",
                                      !.group = Opened(i, rep, known, revised)]
      PROVE  RunInv'
  <2>1. /\ ingest'.phase = "new" /\ ingest'.rows = ingest.rows /\ ingest'.marks = ingest.marks
        /\ ingest'.dates = ingest.dates /\ ingest'.group = Opened(i, rep, known, revised)
    BY <1>4, <1>a DEF IngestState
  <2>2. Group(i)' = Group(i)
    BY <2>1 DEF Group
  <2>3. GroupGood(i)' = GroupGood(i) /\ GroupBars(i)' = GroupBars(i)
    BY <1>b, <2>2 DEF GroupGood, GroupBars, Bars
  <2>4. \A k \in Group(i) : KeyBatch(k) = KeyBatch(rep)
    BY DEF Group, RunInv, BatchInv, OneBatchInFlight, InFlight
  <2>5. GroupOf(i)'
    BY <1>4, <1>b, <2>1, <2>2, <2>3, <2>4 DEF GroupOf, Opened
  <2> QED BY <1>b, <2>1, <2>5 DEF RunInv, OneEntryEach, WithStatus
<1> QED BY <1>1, <1>2, <1>3, <1>4

LEMMA IngestStepRun ==
    ASSUME ~JobsOverlap, TypeInv, BatchInv, TurnInv, RunInv, IngestStep
    PROVE  RunInv'
<1>a. ingest \in IngestState
  BY DEF TypeInv, TypeCore, TypeOK
<1>1. CASE IngestReadFailed \/ IngestReadDone
  <2>1. /\ ingest'.phase \in {"receipts", "merge"}
        /\ ingest'.rows = ingest.rows /\ ingest'.marks = ingest.marks /\ ingest'.dates = ingest.dates
    BY <1>1, <1>a DEF IngestReadFailed, IngestReadDone, IngestState
  <2>2. ingest.phase \in {"idle", "receipts"}
    BY <1>1 DEF IngestReadFailed, IngestReadDone
  <2> QED BY <2>1, <2>2 DEF RunInv, OneEntryEach
<1>2. CASE IngestMerge \/ IngestArchive \/ IngestCrash
  <2>1. /\ ingest'.phase \in {"select", "idle"}
        /\ ingest'.rows = {} /\ ingest'.marks = {} /\ ingest'.dates = {}
    BY <1>2 DEF IngestMerge, IngestArchive, IngestCrash, IdleIngest
  <2> QED BY <2>1 DEF RunInv, OneEntryEach
<1>3. CASE IngestSelect
  <2>1. UNCHANGED fetch_request /\ ingest.phase = "select"
    BY <1>3 DEF IngestSelect, shared, delta
  <2>2. CASE ingest' = IdleIngest
    BY <2>2 DEF IdleIngest, RunInv, OneEntryEach
  <2>3. CASE ingest' = [ingest EXCEPT
                          !.rows  = WithStatus("LANDED"),
                          !.phase = IF WithStatus("LANDED") = {} THEN "archive" ELSE "groups"]
    <3>1. /\ ingest'.rows = WithStatus("LANDED") /\ ingest'.marks = {} /\ ingest'.dates = {}
          /\ ingest'.phase = IF WithStatus("LANDED") = {} THEN "archive" ELSE "groups"
      BY <1>a, <2>1, <2>3 DEF IngestState, RunInv
    <3>2. WithStatus("LANDED")' = WithStatus("LANDED")
      BY <2>1 DEF WithStatus
    <3> QED BY <3>1, <3>2 DEF RunInv, OneEntryEach
  <2> QED BY <1>3, <2>2, <2>3 DEF IngestSelect
<1>4. ASSUME NEW i \in Instruments, IngestOpenGroup(i) PROVE RunInv'
  BY <1>4, OpenGroupRun
<1>5. CASE IngestAppendNew \/ IngestAppendAmended
  <2>1. /\ ingest.phase \in {"new", "amended"} /\ ingest'.phase \in {"amended", "rejected"}
        /\ ingest'.group = ingest.group
        /\ ingest'.rows = ingest.rows /\ ingest'.marks = ingest.marks /\ ingest'.dates = ingest.dates
    BY <1>5, <1>a DEF IngestAppendNew, IngestAppendAmended, IngestState
  <2>2. UNCHANGED fetch_request
    BY <1>5 DEF IngestAppendNew, IngestAppendAmended
  <2>3. \A i : GroupOf(i) => GroupOf(i)'
    BY <2>1, <2>2 DEF GroupOf, Group, GroupGood, GroupBars, Bars
  <2> QED BY <2>1, <2>2, <2>3 DEF RunInv, OneEntryEach, WithStatus
<1>6. CASE IngestAppendRejected
  <2>1. PICK i \in Instruments : GroupOf(i)
    BY <1>6 DEF IngestAppendRejected, RunInv
  <2>2. ingest' = Close(i, Group(i), ingest.group.batch, ingest.group.days)
    BY <1>6, <2>1 DEF IngestAppendRejected, GroupOf
  <2>3. UNCHANGED fetch_request /\ ingest.group.days \in SUBSET Int /\ Group(i) # {}
    BY <1>6, <1>a, <2>1 DEF IngestAppendRejected, GroupOf, IngestState, GroupState
  <2> QED BY <1>a, <2>2, <2>3, CloseRun
<1>7. CASE IngestGroupFails
  <2>1. /\ ingest'.phase = "groups" /\ ingest'.rows \subseteq ingest.rows
        /\ ingest'.marks = ingest.marks /\ ingest'.dates = ingest.dates
    BY <1>7, <1>a DEF IngestGroupFails, IngestState
  <2>2. UNCHANGED fetch_request
    BY <1>7 DEF IngestGroupFails, delta
  <2> QED BY <2>1, <2>2 DEF RunInv, OneEntryEach, WithStatus
<1>8. CASE IngestGroupsDone \/ IngestFlush
  <2>1. /\ ingest'.phase \in {"flush", "mark"}
        /\ ingest'.rows = ingest.rows /\ ingest'.marks = ingest.marks
        /\ ingest'.dates \subseteq ingest.dates
        /\ ingest'.phase = "mark" => ingest'.dates = {}
        /\ ingest.rows = {}
    BY <1>8, <1>a DEF IngestGroupsDone, IngestFlush, IngestState, RunInv
  <2>2. UNCHANGED fetch_request
    BY <1>8 DEF IngestGroupsDone, IngestFlush, shared, delta
  <2> QED BY <2>1, <2>2 DEF RunInv, OneEntryEach, WithStatus
<1>9. CASE IngestMark
  <2>1. /\ ingest'.phase = "archive" /\ ingest'.rows = {} /\ ingest'.marks = {}
        /\ ingest'.dates = {}
    BY <1>9, <1>a DEF IngestMark, IngestState, RunInv
  <2> QED BY <2>1 DEF RunInv, OneEntryEach
<1> QED BY <1>1, <1>2, <1>3, <1>4, <1>5, <1>6, <1>7, <1>8, <1>9
        DEF IngestStep, StartIngest, IngestWork

LEMMA RunInit == Init => RunInv
  BY DEF Init, IdleIngest, RunInv, OneEntryEach

LEMMA RunNext ==
    ASSUME ~JobsOverlap
    PROVE  TypeInv /\ BatchInv /\ TurnInv /\ RunInv /\ [Next]_vars => RunInv'
<1> SUFFICES ASSUME TypeInv, BatchInv, TurnInv, RunInv, [Next]_vars PROVE RunInv'
  OBVIOUS
<1>1. CASE PlannerStep \/ AgentStep \/ EnvironmentStep \/ UNCHANGED vars
  <2>1. UNCHANGED ingest
    BY <1>1, OthersLeaveBronze
  <2> QED BY <2>1, RunFrame
<1> QED BY <1>1, IngestStepRun DEF Next
-----------------------------------------------------------------------------
(* Nothing is asked for past DayBound.                                     *)

DayBound == Later(MaxDay, Later(RestatedRange.end, OverriddenRange.end))

EndsInv ==
    /\ \A k \in DOMAIN fetch_request : fetch_request[k].end <= DayBound
    /\ \A e \in planner.emitted : e.plan.end <= DayBound
    /\ \A i \in Instruments : watermark[i].earliest <= DayBound
    /\ \A e \in ingest.dates : e.span.earliest <= DayBound

LEMMA BoundType ==
    /\ DayBound \in Nat /\ MaxDay <= DayBound
    /\ RestatedRange.end <= DayBound /\ OverriddenRange.end <= DayBound
  BY PlanningAssumption, ControlPlaneAssumption DEF DayBound, Later, Range

LEMMA PlanEnds ==
    ASSUME NEW i \in Instruments, NEW wm \in Watermark, wm.earliest <= DayBound,
           NEW day \in 1 .. MaxDay, Plan(i, wm, day).mode # "NO_OP"
    PROVE  Plan(i, wm, day).end <= DayBound
<1>1. day <= DayBound /\ day \in Int /\ DayBound \in Int
  BY BoundType, ControlPlaneAssumption
<1>2. wm.earliest - 1 <= DayBound
  BY <1>1 DEF Watermark
<1> HIDE DEF DayBound
<1> QED BY <1>1, <1>2, BoundType DEF Plan

\* A request asks for days of its plan only.
LEMMA RowInPlan ==
    ASSUME NEW p \in FetchPlan, NEW s \in Nat \ {0}
    PROVE  p.start <= BuiltRow(p, s).start /\ BuiltRow(p, s).end <= p.end
<1> DEFINE size == ChunkDays(p.mode)
<1>1. size \in Nat /\ size >= 1
  BY PlanningAssumption DEF ChunkDays
<1>2. (s - 1) * size \in Nat
  <2> HIDE DEF size
  <2>1. \A m, n \in Nat : m * n \in Nat
    OBVIOUS
  <2>2. s - 1 \in Nat
    OBVIOUS
  <2> QED BY <1>1, <2>1, <2>2
<1>3. p.start \in Int /\ p.end \in Int
  BY DEF FetchPlan
<1>4. ChunkStart(p.start, size, s) \in Int /\ p.start <= ChunkStart(p.start, size, s)
  <2> HIDE DEF size
  <2> QED BY <1>2, <1>3 DEF ChunkStart
<1>5. ChunkEnd(p.start, p.end, size, s) <= p.end
  <2> HIDE DEF size
  <2> QED BY <1>1, <1>3, <1>4 DEF ChunkEnd, Earlier
<1> QED BY <1>4, <1>5 DEF BuiltRow

\* The rows of a run's insert are cut from the plans it emitted.
LEMMA NewRowPlan ==
    ASSUME TypeOK, batches < MaxBatches, NEW k \in NewKeys
    PROVE  \E e \in planner.emitted :
             /\ e.inst = KeyInstrument(k) /\ e.plan \in FetchPlan
             /\ NewRow(k).load = e.plan.mode
             /\ e.plan.start <= NewRow(k).start /\ NewRow(k).end <= e.plan.end
<1> DEFINE e == CHOOSE e \in planner.emitted : e.inst = KeyInstrument(k)
<1>1. e \in planner.emitted /\ e.inst = KeyInstrument(k)
  BY NewKeysType
<1>2. e.plan \in FetchPlan
  BY <1>1 DEF TypeOK, PlannerState
<1>3. KeySeq(k) \in Nat \ {0}
  BY NewKeysType, KeyParts
<1>4. NewRow(k) = BuiltRow(e.plan, KeySeq(k))
  BY DEF NewRow
<1> HIDE DEF e
<1>5. BuiltRow(e.plan, KeySeq(k)).load = e.plan.mode
  BY DEF BuiltRow
<1> QED BY <1>1, <1>2, <1>3, <1>4, <1>5, RowInPlan

\* A plan the planner emits is the plan it made of the watermark it read for
\* an instrument without work in flight.
PlannedFor(e) ==
    \E i \in Instruments : \E wm \in WatermarkRead(i) :
      /\ planner.phase = "plan" /\ i \notin planner.busy
      /\ Plan(i, wm, today).mode # "NO_OP"
      /\ e = [inst |-> i, plan |-> Plan(i, wm, today)]
      /\ UNCHANGED shared

LEMMA EmittedStep ==
    ASSUME TypeInv, [Next]_vars
    PROVE  \A e \in planner'.emitted : e \in planner.emitted \/ PlannedFor(e)
<1> DEFINE Goal == \A e \in planner'.emitted : e \in planner.emitted \/ PlannedFor(e)
<1>a. planner \in PlannerState
  BY DEF TypeInv, TypeCore, TypeOK
<1>1. ASSUME UNCHANGED planner PROVE Goal
  BY <1>1
<1>2. ASSUME PlannerStart \/ PlannerListPending \/ PlannerMarkOrphans \/ PlannerReadInFlight
      PROVE  Goal
  BY <1>2, <1>a DEF PlannerStart, PlannerListPending, PlannerMarkOrphans, PlannerReadInFlight,
                    PlannerState
<1>3. ASSUME NEW i \in planner.todo, PlannerPlan(i) PROVE Goal
  <2>1. PICK wm \in WatermarkRead(i) : PlanOutcome(i, wm)
    BY <1>3, PlanEffect
  <2>2. planner.phase = "plan" /\ i \in Instruments /\ UNCHANGED shared
    BY <1>3, <1>a DEF PlannerPlan, PlannerState
  <2>3. CASE planner' = [planner EXCEPT !.todo = planner.todo \ {i}]
    BY <2>3, <1>a DEF PlannerState
  <2>4. CASE /\ Plan(i, wm, today).mode # "NO_OP" /\ i \notin planner.busy
             /\ planner' = [planner EXCEPT !.todo = planner.todo \ {i}, !.emitted =
                     planner.emitted \cup {[inst |-> i, plan |-> Plan(i, wm, today)]}]
    <3>1. planner'.emitted = planner.emitted \cup {[inst |-> i, plan |-> Plan(i, wm, today)]}
      BY <1>a, <2>4 DEF PlannerState
    <3>2. PlannedFor([inst |-> i, plan |-> Plan(i, wm, today)])
      BY <2>2, <2>4 DEF PlannedFor
    <3> QED BY <3>1, <3>2
  <2>5. CASE planner' = IdlePlanner
    BY <2>5 DEF IdlePlanner
  <2> QED BY <2>1, <2>3, <2>4, <2>5 DEF PlanOutcome
<1>4. ASSUME PlannerPlanned PROVE Goal
  BY <1>4, <1>a DEF PlannerPlanned, PlannerState, IdlePlanner
<1>5. ASSUME PlannerInsert \/ PlannerFinish \/ PlannerCrash PROVE Goal
  <2>1. planner'.emitted = {}
    <3>1. CASE PlannerInsert
      BY <3>1 DEF PlannerInsert, IdlePlanner
    <3>2. CASE PlannerFinish \/ PlannerCrash
      BY <3>2 DEF PlannerFinish, PlannerCrash, IdlePlanner
    <3> QED BY <1>5, <3>1, <3>2
  <2> QED BY <2>1
<1>6. ASSUME NEW k \in planner.keys, PlannerPutManifest(k) PROVE Goal
  BY <1>6, <1>a DEF PlannerPutManifest, PlannerState
<1> QED BY <1>1, <1>2, <1>3, <1>4, <1>5, <1>6
        DEF Next, vars, AgentStep, IngestStep, EnvironmentStep, PlannerStep, StartPlanner,
            PlannerWork

\* A group is through with the days of all its bars (replayed, some are stored),
\* of its last end date (no bars), or of the bars it wrote.
GroupThrough(i, days) ==
    /\ UNCHANGED <<fetch_request, bronze, repeated, watermark, today>>
    /\ Group(i) # {}
    /\ \E b : ingest' = Close(i, Group(i), b, days)
    /\ \/ days = GroupBars(i) /\ Stored(i) # {}
       \/ days = LastEnd(i) /\ GroupBars(i) = {}
       \/ /\ days = GroupGood(i) /\ GroupBars(i) # {}
          /\ rejected' = rejected \cup Rows(ingest.group.bad)

LEMMA RunOutcome ==
    ASSUME TypeInv, RunInv, [Next]_vars
    PROVE  \/ ingest'.marks = ingest.marks /\ ingest'.dates = ingest.dates
           \/ ingest'.marks = {} /\ ingest'.dates = {}
           \/ IngestFlush
           \/ \E i \in Instruments : \E days : GroupThrough(i, days)
<1> DEFINE Goal == \/ ingest'.marks = ingest.marks /\ ingest'.dates = ingest.dates
                   \/ ingest'.marks = {} /\ ingest'.dates = {}
                   \/ IngestFlush
                   \/ \E i \in Instruments : \E days : GroupThrough(i, days)
<1>a. ingest \in IngestState
  BY DEF TypeInv, TypeCore, TypeOK
<1>1. ASSUME UNCHANGED ingest PROVE Goal
  BY <1>1
<1>2. ASSUME IngestReadFailed \/ IngestReadDone \/ IngestAppendNew \/ IngestAppendAmended
             \/ IngestGroupFails \/ IngestGroupsDone
      PROVE  Goal
  BY <1>2, <1>a DEF IngestReadFailed, IngestReadDone, IngestAppendNew, IngestAppendAmended,
                    IngestGroupFails, IngestGroupsDone, IngestState
<1>3. ASSUME IngestMerge \/ IngestArchive \/ IngestCrash PROVE Goal
  BY <1>3 DEF IngestMerge, IngestArchive, IngestCrash, IdleIngest
<1>4. ASSUME IngestSelect PROVE Goal
  <2>1. CASE ingest' = IdleIngest
    BY <2>1 DEF IdleIngest
  <2>2. CASE ingest' = [ingest EXCEPT
                          !.rows  = WithStatus("LANDED"),
                          !.phase = IF WithStatus("LANDED") = {} THEN "archive" ELSE "groups"]
    BY <2>2, <1>a DEF IngestState
  <2> QED BY <1>4, <2>1, <2>2 DEF IngestSelect
<1>5. ASSUME NEW i \in Instruments, IngestOpenGroup(i) PROVE Goal
  <2>1. UNCHANGED <<fetch_request, bronze, repeated, watermark, today>> /\ Group(i) # {}
    BY <1>5 DEF IngestOpenGroup, shared, delta, clock
  <2>2. CASE \E rep \in Group(i) : /\ TRUE \in GuardAnswers(i, KeyBatch(rep))
                                   /\ ingest' = Close(i, Group(i), KeyBatch(rep), GroupBars(i))
    <3>1. PICK rep \in Group(i) : /\ TRUE \in GuardAnswers(i, KeyBatch(rep))
                                 /\ ingest' = Close(i, Group(i), KeyBatch(rep), GroupBars(i))
      BY <2>2
    <3>2. KeyBatch(rep) \in Batches
      BY <1>a, KeyParts DEF Group, IngestState
    <3>3. \E d \in VendorDays[i] : <<i, d, KeyBatch(rep)>> \in bronze
      BY <3>1 DEF GuardAnswers
    <3>4. Stored(i) # {}
      BY <3>2, <3>3 DEF Stored
    <3> QED BY <2>1, <3>1, <3>4 DEF GroupThrough
  <2>3. CASE \E rep : GroupBars(i) = {} /\ ingest' = Close(i, Group(i), KeyBatch(rep), LastEnd(i))
    BY <2>1, <2>3 DEF GroupThrough
  <2>4. CASE \E g : ingest' = [ingest EXCEPT !.phase = "new", !.group = g]
    BY <2>4, <1>a DEF IngestState
  <2> QED BY <1>5, <2>2, <2>3, <2>4, OpenGroupCases
<1>6. ASSUME IngestAppendRejected PROVE Goal
  <2>1. PICK i \in Instruments : GroupOf(i)
    BY <1>6 DEF IngestAppendRejected, RunInv
  <2>2. ingest' = Close(i, Group(i), ingest.group.batch, GroupGood(i))
    BY <1>6, <2>1 DEF IngestAppendRejected, GroupOf
  <2>3. /\ UNCHANGED <<fetch_request, bronze, repeated, watermark, today>>
        /\ Group(i) # {} /\ GroupBars(i) # {}
        /\ rejected' = rejected \cup Rows(ingest.group.bad)
    BY <1>6, <2>1 DEF IngestAppendRejected, GroupOf, clock
  <2> QED BY <2>2, <2>3 DEF GroupThrough
<1>7. ASSUME IngestMark PROVE Goal
  <2>1. ingest.dates = {}
    BY <1>7 DEF IngestMark, RunInv
  <2>2. ingest'.marks = {} /\ ingest'.dates = ingest.dates
    BY <1>7, <1>a DEF IngestMark, IngestState
  <2> QED BY <2>1, <2>2
<1>8. ASSUME IngestFlush PROVE Goal
  BY <1>8
<1> HIDE DEF Goal
<1>9. Goal
  BY <1>1, <1>2, <1>3, <1>4, <1>5, <1>6, <1>7, <1>8
     DEF Next, vars, PlannerStep, AgentStep, EnvironmentStep, IngestStep, StartIngest, IngestWork
<1> QED BY <1>9 DEF Goal

\* Only a flush and a suspension write a watermark.
LEMMA WatermarkWriters ==
    ASSUME [Next]_vars
    PROVE  \/ UNCHANGED watermark
           \/ IngestFlush
           \/ \E i \in Instruments : Suspend(i)
  BY DEF Next, vars, shared, delta, queue, clock,
         PlannerStep, StartPlanner, PlannerStart, PlannerWork, PlannerListPending,
         PlannerMarkOrphans, PlannerReadInFlight, PlannerPlan, PlannerPlanned, PlannerInsert,
         PlannerPutManifest, PlannerFinish, PlannerCrash,
         AgentStep, AgentWork, AgentPoll, AgentTake, AgentLand, AgentPutDone,
         AgentAttemptFails, AgentPutFailed, AgentDeletePending, AgentCycleEnds, AgentCrash,
         IngestStep, StartIngest, IngestReadFailed, IngestWork, IngestReadDone, IngestMerge,
         IngestSelect, IngestOpenGroup, IngestAppendNew, IngestAppendAmended,
         IngestAppendRejected, IngestGroupFails, IngestGroupsDone, IngestMark,
         IngestArchive, IngestCrash, EnvironmentStep, NextDay

\* What a flush makes of the watermark of an instrument: the entry of the buffer
\* widens it, and nothing happens without one or if the flush fails.
LEMMA FlushEffect ==
    ASSUME TypeInv, RunInv, IngestFlush, NEW i \in Instruments
    PROVE  /\ \A e \in ingest.dates : e.inst = i =>
                 watermark'[i] = Widened(watermark[i], e.span) \/ UNCHANGED watermark
           /\ (\A e \in ingest.dates : e.inst # i) => watermark'[i] = watermark[i]
           /\ "watermark_flush" \notin Faults =>
                \A e \in ingest.dates : e.inst = i => watermark'[i] = Widened(watermark[i], e.span)
<1>1. CASE watermark' = [j \in Instruments |->
             IF \E e \in ingest.dates : e.inst = j
             THEN Widened(watermark[j], (CHOOSE e \in ingest.dates : e.inst = j).span)
             ELSE watermark[j]]
  <2>1. ASSUME NEW e \in ingest.dates, e.inst = i
        PROVE  watermark'[i] = Widened(watermark[i], e.span)
    <3> DEFINE c == CHOOSE f \in ingest.dates : f.inst = i
    <3>1. c \in ingest.dates /\ c.inst = i
      BY <2>1
    <3>2. c = e
      BY <2>1, <3>1 DEF RunInv, OneEntryEach
    <3>3. watermark'[i] = Widened(watermark[i], c.span)
      BY <1>1, <2>1
    <3> QED BY <3>2, <3>3
  <2>2. (\A e \in ingest.dates : e.inst # i) => watermark'[i] = watermark[i]
    BY <1>1
  <2> QED BY <2>1, <2>2
<1>2. CASE "watermark_flush" \in Faults /\ UNCHANGED watermark
  BY <1>2
<1> QED BY <1>1, <1>2 DEF IngestFlush

LEMMA NoWatermarkType ==
    NoWatermark \in Watermark /\ NoWatermark.earliest = -1 /\ NoWatermark.latest = -1
  BY DEF NoWatermark, Watermark

LEMMA WidenedDates ==
    ASSUME NEW wm \in Watermark, NEW span \in DateSpan
    PROVE  /\ wm = NoWatermark => /\ Widened(wm, span).earliest = span.earliest
                                  /\ Widened(wm, span).latest = span.latest
           /\ wm # NoWatermark => /\ Widened(wm, span).earliest = Earlier(wm.earliest, span.earliest)
                                  /\ Widened(wm, span).latest = Later(wm.latest, span.latest)
  BY DEF Widened

\* The days a group is through with are days its requests ask for.
LEMMA ThroughDays ==
    ASSUME TypeInv, RunInv, NEW i \in Instruments, NEW days, GroupThrough(i, days)
    PROVE  /\ days \subseteq Int
           /\ \A d \in days : \E k \in Group(i) :
                k \in DOMAIN fetch_request /\ d <= fetch_request[k].end
<1>1. \A k \in Group(i) : k \in DOMAIN fetch_request /\ k \in Keys
  BY DEF Group, TypeInv, TypeCore, TypeOK, RowsExist, IngestState
<1>2. GroupBars(i) \subseteq Nat
  BY <1>1, BarsAreDays DEF GroupBars
<1>3. LastEnd(i) \subseteq Int /\ \A d \in LastEnd(i) : \E k \in Group(i) : d = fetch_request[k].end
  BY <1>1 DEF LastEnd, TypeInv, TypeCore, TypeOK, SharedTypeOK, Request
<1>4. \A d \in GroupBars(i) : \E k \in Group(i) : d <= fetch_request[k].end
  BY DEF GroupBars, Bars
<1>5. GroupGood(i) \subseteq GroupBars(i)
  BY DEF GroupGood
<1>6. \A k \in Group(i) : fetch_request[k].end <= fetch_request[k].end
  BY <1>1 DEF TypeInv, TypeCore, TypeOK, SharedTypeOK, Request
<1> QED BY <1>1, <1>2, <1>3, <1>4, <1>5, <1>6 DEF GroupThrough

LEMMA EndsInit == Init => EndsInv
<1>1. DayBound \in Nat
  BY BoundType
<1> HIDE DEF DayBound
<1> QED BY <1>1 DEF Init, EmptyTables, IdlePlanner, IdleIngest, NoWatermark, EndsInv

LEMMA EndsNext == TypeInv /\ RunInv /\ EndsInv /\ [Next]_vars => EndsInv'
<1> SUFFICES ASSUME TypeInv, RunInv, EndsInv, [Next]_vars PROVE EndsInv'
  OBVIOUS
<1>a. DayBound \in Nat /\ DayBound' = DayBound
  BY BoundType DEF DayBound
<1>b. /\ watermark \in [Instruments -> Watermark] /\ today \in 1 .. MaxDay
      /\ \A k \in DOMAIN fetch_request : fetch_request[k].end \in Int
      /\ \A e \in ingest.dates : e.span \in DateSpan
  BY DEF TypeInv, TypeCore, TypeOK, SharedTypeOK, Request, IngestState
<1> HIDE DEF DayBound
<1>1. \A k \in DOMAIN fetch_request' : fetch_request'[k].end <= DayBound
  <2>1. ASSUME NEW k \in DOMAIN fetch_request PROVE fetch_request'[k].end <= DayBound
    BY RowKept DEF EndsInv
  <2>2. ASSUME NEW k \in DOMAIN fetch_request', k \notin DOMAIN fetch_request
        PROVE  fetch_request'[k].end <= DayBound
    <3>1. batches < MaxBatches /\ k \in NewKeys /\ PlannerInsert
      BY <2>2, TableStep DEF NewRowStep
    <3>2. PICK e \in planner.emitted : e.plan \in FetchPlan /\ NewRow(k).end <= e.plan.end
      BY <3>1, NewRowPlan DEF TypeInv, TypeCore
    <3>3. NewRow(k) \in Request /\ fetch_request'[k] = NewRow(k)
      BY <2>2, <3>1, NewRowType DEF TypeInv, TypeCore, PlannerInsert
    <3>4. NewRow(k).end \in Int /\ e.plan.end \in Int /\ e.plan.end <= DayBound
      BY <3>2, <3>3 DEF Request, FetchPlan, EndsInv
    <3> QED BY <1>a, <3>2, <3>3, <3>4
  <2> QED BY <2>1, <2>2
<1>2. \A e \in planner'.emitted : e.plan.end <= DayBound
  <2> SUFFICES ASSUME NEW e, PlannedFor(e) PROVE e.plan.end <= DayBound
    BY EmittedStep DEF EndsInv
  <2>a. PICK i \in Instruments : \E wm \in WatermarkRead(i) :
          Plan(i, wm, today).mode # "NO_OP" /\ e = [inst |-> i, plan |-> Plan(i, wm, today)]
    BY DEF PlannedFor
  <2>1. PICK wm \in WatermarkRead(i) :
          Plan(i, wm, today).mode # "NO_OP" /\ e = [inst |-> i, plan |-> Plan(i, wm, today)]
    BY <2>a
  <2>2. wm \in {watermark[i], NoWatermark}
    BY DEF WatermarkRead
  <2>3. wm \in Watermark /\ wm.earliest <= DayBound
    <3>1. NoWatermark.earliest <= DayBound
      BY <1>a, NoWatermarkType
    <3> QED BY <1>b, <2>2, <3>1, NoWatermarkType DEF EndsInv
  <2> QED BY <1>b, <2>1, <2>3, PlanEnds
<1>3. \A i \in Instruments : watermark'[i].earliest <= DayBound
  <2> SUFFICES ASSUME NEW i \in Instruments PROVE watermark'[i].earliest <= DayBound
    OBVIOUS
  <2>1. watermark[i] \in Watermark /\ watermark[i].earliest <= DayBound
    BY <1>b DEF EndsInv
  <2>2. CASE UNCHANGED watermark
    BY <2>1, <2>2
  <2>3. CASE IngestFlush
    <3>1. CASE \A e \in ingest.dates : e.inst # i
      BY <2>1, <2>3, <3>1, FlushEffect
    <3>2. ASSUME NEW e \in ingest.dates, e.inst = i PROVE watermark'[i].earliest <= DayBound
      <4>1. watermark'[i] = Widened(watermark[i], e.span) \/ UNCHANGED watermark
        BY <2>3, <3>2, FlushEffect
      <4>2. e.span \in DateSpan /\ e.span.earliest <= DayBound
        BY <1>b DEF EndsInv
      <4>3. /\ e.span.earliest \in Int /\ watermark[i].earliest \in Int
        BY <2>1, <4>2 DEF DateSpan, Watermark
      <4>4. Widened(watermark[i], e.span).earliest <= DayBound
        BY <1>a, <2>1, <4>2, <4>3, WidenedDates DEF Earlier
      <4> QED BY <2>1, <4>1, <4>4
    <3> QED BY <3>1, <3>2
  <2>4. ASSUME NEW j \in Instruments, Suspend(j) PROVE watermark'[i].earliest <= DayBound
    <3>1. watermark'[i].earliest = watermark[i].earliest
      BY <1>b, <2>4 DEF Suspend, Watermark
    <3> QED BY <2>1, <3>1
  <2> QED BY <2>2, <2>3, <2>4, WatermarkWriters
<1>4. \A e \in ingest'.dates : e.span.earliest <= DayBound
  <2>1. CASE ingest'.dates = ingest.dates \/ ingest'.dates = {}
    BY <2>1 DEF EndsInv
  <2>2. CASE IngestFlush
    BY <2>2 DEF IngestFlush, TypeInv, TypeCore, TypeOK, IngestState
  <2>3. ASSUME NEW i \in Instruments, NEW days, GroupThrough(i, days)
        PROVE  \A e \in ingest'.dates : e.span.earliest <= DayBound
    <3>1. \A e \in ingest'.dates : e \in ingest.dates \/ e.span \in Spans(days)
      BY <2>3, CloseEntries DEF GroupThrough, TypeInv, TypeCore, TypeOK
    <3>2. \A s \in Spans(days) : s.earliest \in days
      BY DEF Spans
    <3>3. ASSUME NEW d \in days PROVE d <= DayBound
      <4>1. PICK k \in Group(i) : k \in DOMAIN fetch_request /\ d <= fetch_request[k].end
        BY <2>3, ThroughDays
      <4>2. d \in Int /\ fetch_request[k].end \in Int /\ fetch_request[k].end <= DayBound
        BY <1>b, <2>3, <4>1, ThroughDays DEF EndsInv
      <4> QED BY <1>a, <4>1, <4>2
    <3> QED BY <3>1, <3>2, <3>3 DEF EndsInv
  <2> QED BY <2>1, <2>2, <2>3, RunOutcome
<1> QED BY <1>a, <1>1, <1>2, <1>3, <1>4 DEF EndsInv
-----------------------------------------------------------------------------
(* Loads that skip the dedup.                                              *)

Within(i, d) == watermark[i].earliest <= d /\ d <= watermark[i].latest

\* Request k brought the bar, or brings it again.
Brought(k, bar) == KeyInstrument(k) = bar[1] /\ KeyBatch(k) = bar[3] /\ bar[2] \in Bars(k)

\* What Bronze holds lies between the dates of the watermark or was brought by
\* a request that is still LANDED; by the time it is marked, the dates cover it.
Accounted == \A bar \in bronze :
                 Within(bar[1], bar[2]) \/ \E k \in WithStatus("LANDED") : Brought(k, bar)

MarksAccounted ==
    \A k \in ingest.marks, bar \in bronze : Brought(k, bar) =>
      \/ Within(bar[1], bar[2])
      \/ \E e \in ingest.dates : /\ e.inst = bar[1]
                                 /\ e.span.earliest <= bar[2] /\ bar[2] <= e.span.latest

\* A load that skips the dedup, planned or in flight, is of days of which
\* Bronze has nothing but what the load itself has appended.
NothingStored(i, first, last) ==
    \A bar \in bronze : bar[1] = i => ~(first <= bar[2] /\ bar[2] <= last)

FreshPlans ==
    \A e \in planner.emitted : e.plan.mode \in {"INITIAL_LOAD", "HISTORY_EXTENSION"} =>
        NothingStored(e.inst, e.plan.start, e.plan.end)

FreshLoads ==
    \A k \in InFlight, bar \in bronze :
        SkipsDedup(k) /\ KeyInstrument(k) = bar[1] /\ bar[2] \in Bars(k) => bar[3] = KeyBatch(k)

FreshGroup ==
    ingest.phase = "new" /\ (\A k \in ingest.group.keys : SkipsDedup(k)) =>
        \A bar \in bronze : ~(bar[1] \in ingest.group.inst /\ bar[2] \in ingest.group.new)

ValidBars == \A bar \in bronze : bar[2] \notin InvalidDays[bar[1]]

AccountInv == ValidBars /\ Accounted /\ MarksAccounted
FreshInv   == FreshPlans /\ FreshLoads /\ FreshGroup /\ repeated = {}

\* Only the first two appends write Bronze, and they write bars of a group in hand.
LEMMA BronzeWriters ==
    ASSUME [Next]_vars
    PROVE  UNCHANGED <<bronze, repeated>> \/ IngestAppendNew \/ IngestAppendAmended
  BY DEF Next, vars, shared, delta, queue, clock,
         PlannerStep, StartPlanner, PlannerStart, PlannerWork, PlannerListPending,
         PlannerMarkOrphans, PlannerReadInFlight, PlannerPlan, PlannerPlanned, PlannerInsert,
         PlannerPutManifest, PlannerFinish, PlannerCrash,
         AgentStep, AgentWork, AgentPoll, AgentTake, AgentLand, AgentPutDone,
         AgentAttemptFails, AgentPutFailed, AgentDeletePending, AgentCycleEnds, AgentCrash,
         IngestStep, StartIngest, IngestReadFailed, IngestWork, IngestReadDone, IngestMerge,
         IngestSelect, IngestOpenGroup, IngestAppendRejected, IngestGroupFails,
         IngestGroupsDone, IngestFlush, IngestMark,
         IngestArchive, IngestCrash, EnvironmentStep, NextDay, Suspend

LEMMA AppendEffect ==
    ASSUME TypeInv, RunInv, IngestAppendNew \/ IngestAppendAmended
    PROVE  /\ UNCHANGED <<fetch_request, batches, watermark>>
           /\ bronze \subseteq bronze'
           /\ \E i \in Instruments :
                /\ GroupOf(i)
                /\ \A bar \in bronze' \ bronze :
                     bar[1] = i /\ bar[2] \in GroupGood(i) /\ bar[3] = ingest.group.batch
           /\ ingest'.marks = ingest.marks /\ ingest'.dates = ingest.dates
           /\ ingest'.phase # "new"
<1>a. ingest \in IngestState
  BY DEF TypeInv, TypeCore, TypeOK
<1>1. PICK i \in Instruments : GroupOf(i)
  BY DEF IngestAppendNew, IngestAppendAmended, RunInv
<1>2. bronze' = bronze \cup Rows(ingest.group.new) \/ bronze' = bronze \cup Rows(ingest.group.amended)
  BY DEF IngestAppendNew, IngestAppendAmended
<1>3. ASSUME NEW bar \in bronze' \ bronze
      PROVE  bar[1] = i /\ bar[2] \in GroupGood(i) /\ bar[3] = ingest.group.batch
  BY <1>1, <1>2, <1>3 DEF Rows, GroupOf
<1>4. /\ ingest'.marks = ingest.marks /\ ingest'.dates = ingest.dates
      /\ ingest'.phase \in {"amended", "rejected"}
  BY <1>a DEF IngestAppendNew, IngestAppendAmended, IngestState
<1>5. UNCHANGED <<fetch_request, batches, watermark>>
  BY DEF IngestAppendNew, IngestAppendAmended
<1> QED BY <1>1, <1>2, <1>3, <1>4, <1>5

\* A day between the dates of a watermark stays there.
LEMMA WithinStays ==
    ASSUME TypeInv, RunInv, [Next]_vars, NEW i \in Instruments, NEW d \in Nat, Within(i, d)
    PROVE  Within(i, d)'
<1>a. /\ watermark \in [Instruments -> Watermark]
      /\ \A e \in ingest.dates : e.span \in DateSpan
  BY DEF TypeInv, TypeCore, TypeOK, SharedTypeOK, IngestState
<1>b. watermark[i] # NoWatermark
  BY NoWatermarkType DEF Within
<1>1. ASSUME watermark'[i].earliest = watermark[i].earliest, watermark'[i].latest = watermark[i].latest
      PROVE  Within(i, d)'
  BY <1>1 DEF Within
<1>2. CASE IngestFlush
  <2>1. CASE \A e \in ingest.dates : e.inst # i
    BY <1>1, <1>2, <2>1, FlushEffect
  <2>2. ASSUME NEW e \in ingest.dates, e.inst = i PROVE Within(i, d)'
    <3>1. CASE UNCHANGED watermark
      BY <1>1, <3>1
    <3>2. CASE watermark'[i] = Widened(watermark[i], e.span)
      <4>1. /\ watermark'[i].earliest = Earlier(watermark[i].earliest, e.span.earliest)
            /\ watermark'[i].latest = Later(watermark[i].latest, e.span.latest)
        BY <1>a, <1>b, <3>2, WidenedDates
      <4>2. /\ watermark[i].earliest \in Int /\ watermark[i].latest \in Int
            /\ e.span.earliest \in Int /\ e.span.latest \in Int
        BY <1>a DEF Watermark, DateSpan
      <4> QED BY <4>1, <4>2 DEF Within, Earlier, Later
    <3> QED BY <1>2, <2>2, <3>1, <3>2, FlushEffect
  <2> QED BY <2>1, <2>2
<1>3. ASSUME NEW j \in Instruments, Suspend(j) PROVE Within(i, d)'
  <2>1. /\ watermark'[i].earliest = watermark[i].earliest
        /\ watermark'[i].latest = watermark[i].latest
    BY <1>a, <1>3 DEF Suspend, Watermark
  <2> QED BY <1>1, <2>1
<1> QED BY <1>1, <1>2, <1>3, WatermarkWriters

\* A flush that does not fail takes the buffer into the watermarks.
LEMMA FlushedWithin ==
    ASSUME TypeInv, RunInv, IngestFlush, "watermark_flush" \notin Faults,
           NEW e \in ingest.dates, NEW d \in Nat,
           e.span.earliest <= d, d <= e.span.latest
    PROVE  Within(e.inst, d)'
<1>a. /\ e.inst \in Instruments /\ e.span \in DateSpan /\ watermark[e.inst] \in Watermark
  BY DEF TypeInv, TypeCore, TypeOK, SharedTypeOK, IngestState
<1>1. watermark'[e.inst] = Widened(watermark[e.inst], e.span)
  BY <1>a, FlushEffect
<1>2. /\ watermark[e.inst].earliest \in Int /\ watermark[e.inst].latest \in Int
      /\ e.span.earliest \in Int /\ e.span.latest \in Int
  BY <1>a DEF Watermark, DateSpan
<1>3. Widened(watermark[e.inst], e.span).earliest <= d /\ d <= Widened(watermark[e.inst], e.span).latest
  <2>1. CASE watermark[e.inst] = NoWatermark
    BY <1>a, <2>1, WidenedDates
  <2>2. CASE watermark[e.inst] # NoWatermark
    <3>1. /\ Widened(watermark[e.inst], e.span).earliest = Earlier(watermark[e.inst].earliest, e.span.earliest)
          /\ Widened(watermark[e.inst], e.span).latest = Later(watermark[e.inst].latest, e.span.latest)
      BY <1>a, <2>2, WidenedDates
    <3> QED BY <1>2, <3>1 DEF Earlier, Later
  <2> QED BY <2>1, <2>2
<1> QED BY <1>1, <1>3 DEF Within

LEMMA AccountedNext ==
    ASSUME TypeInv, BatchInv, TurnInv, RunInv, [Next]_vars, Accounted, MarksAccounted
    PROVE  Accounted'
<1> SUFFICES ASSUME NEW bar \in bronze'
             PROVE  Within(bar[1], bar[2])' \/ \E k \in WithStatus("LANDED")' : Brought(k, bar)'
  BY DEF Accounted
<1>1. ASSUME NEW k \in WithStatus("LANDED"), k \in WithStatus("LANDED")', Brought(k, bar)
      PROVE  Brought(k, bar)'
  BY <1>1, RangeKept DEF Brought, WithStatus
<1>2. ASSUME bar \in bronze, Within(bar[1], bar[2]) PROVE Within(bar[1], bar[2])'
  <2>1. bar[1] \in Instruments /\ bar[2] \in Nat
    BY <1>2 DEF TypeInv, TypeCore, TypeOK, SharedTypeOK, Bar
  <2> QED BY <1>2, <2>1, WithinStays
<1>3. CASE ~IngestMark /\ bar \in bronze
  BY <1>1, <1>2, <1>3, LandedStays DEF Accounted
<1>4. CASE bar \notin bronze
  <2>1. IngestAppendNew \/ IngestAppendAmended
    BY <1>4, BronzeWriters
  <2>2. PICK i \in Instruments :
          /\ GroupOf(i)
          /\ bar[1] = i /\ bar[2] \in GroupGood(i) /\ bar[3] = ingest.group.batch
    BY <1>4, <2>1, AppendEffect
  <2>3. PICK k \in Group(i) : bar[2] \in Bars(k)
    BY <2>2 DEF GroupGood, GroupBars
  <2>4. k \in WithStatus("LANDED") /\ Brought(k, bar)
    BY <2>2, <2>3 DEF Group, GroupOf, RunInv, Brought
  <2>5. ~IngestMark
    BY <2>1 DEF IngestMark, IngestAppendNew, IngestAppendAmended
  <2> QED BY <1>1, <2>4, <2>5, LandedStays
<1>5. CASE IngestMark /\ bar \in bronze
  <2>1. CASE Within(bar[1], bar[2])
    BY <1>2, <1>5, <2>1
  <2>2. ASSUME NEW k \in WithStatus("LANDED"), Brought(k, bar), ~Within(bar[1], bar[2])
        PROVE  \E l \in WithStatus("LANDED")' : Brought(l, bar)'
    <3>1. ingest.dates = {}
      BY <1>5 DEF IngestMark, RunInv
    <3>2. k \notin ingest.marks
      BY <1>5, <2>2, <3>1 DEF MarksAccounted
    <3>3. fetch_request' = SetStatus(fetch_request, ingest.marks, {"LANDED"}, "INGESTED")
      BY <1>5 DEF IngestMark
    <3>4. k \in WithStatus("LANDED")'
      BY <3>2, <3>3 DEF SetStatus, WithStatus
    <3> QED BY <1>1, <2>2, <3>4
  <2> QED BY <1>5, <2>1, <2>2 DEF Accounted
<1> QED BY <1>3, <1>4, <1>5

LEMMA MarksAccountedNext ==
    ASSUME "watermark_flush" \notin Faults,
           TypeInv, BatchInv, TurnInv, RunInv, EndsInv, [Next]_vars, ValidBars, MarksAccounted
    PROVE  MarksAccounted'
<1> SUFFICES ASSUME NEW k \in ingest'.marks, NEW bar \in bronze', Brought(k, bar)'
             PROVE  \/ Within(bar[1], bar[2])'
                    \/ \E e \in ingest'.dates : /\ e.inst = bar[1]
                                                /\ e.span.earliest <= bar[2] /\ bar[2] <= e.span.latest
  BY DEF MarksAccounted
<1> DEFINE Covered(ds) == \E e \in ds : /\ e.inst = bar[1]
                                        /\ e.span.earliest <= bar[2] /\ bar[2] <= e.span.latest
<1>a. ingest \in IngestState
  BY DEF TypeInv, TypeCore, TypeOK
<1>1. ASSUME k \in ingest.marks, bar \in bronze
      PROVE  Within(bar[1], bar[2])' \/ Covered(ingest.dates)
  <2>1. bar[1] \in Instruments /\ bar[2] \in Nat /\ k \in DOMAIN fetch_request
    BY <1>1 DEF TypeInv, TypeCore, TypeOK, SharedTypeOK, Bar, RunInv, WithStatus
  <2>2. Brought(k, bar)
    BY <2>1, RangeKept DEF Brought
  <2> QED BY <1>1, <2>1, <2>2, WithinStays DEF MarksAccounted
<1>2. CASE bar \notin bronze
  <2>1. IngestAppendNew \/ IngestAppendAmended
    BY <1>2, BronzeWriters
  <2>2. PICK i \in Instruments : GroupOf(i) /\ bar[1] = i
    BY <1>2, <2>1, AppendEffect
  <2>3. k \in ingest.marks
    BY <2>1, AppendEffect
  <2>4. PICK l \in Group(i) : TRUE
    BY <2>2 DEF GroupOf
  <2>5. l \in ingest.rows /\ KeyInstrument(l) = i
    BY DEF Group
  <2>6. KeyInstrument(k) # i
    BY <2>3, <2>5 DEF RunInv, OneEntryEach
  <2>7. KeyInstrument(k) = bar[1]
    BY DEF Brought
  <2> QED BY <2>2, <2>6, <2>7
<1>3. CASE bar \in bronze /\ ingest'.marks = ingest.marks /\ ingest'.dates = ingest.dates
  BY <1>1, <1>3
<1>4. CASE bar \in bronze /\ IngestFlush
  <2>1. k \in ingest.marks
    BY <1>a, <1>4 DEF IngestFlush, IngestState
  <2>2. ASSUME NEW e \in ingest.dates, e.inst = bar[1], e.span.earliest <= bar[2], bar[2] <= e.span.latest
        PROVE  Within(bar[1], bar[2])'
    <3>1. bar[2] \in Nat
      BY <1>4 DEF TypeInv, TypeCore, TypeOK, SharedTypeOK, Bar
    <3> QED BY <1>4, <2>2, <3>1, FlushedWithin
  <2> QED BY <1>1, <1>4, <2>1, <2>2
<1>5. ASSUME bar \in bronze, NEW i \in Instruments, NEW days, GroupThrough(i, days)
      PROVE  Within(bar[1], bar[2])' \/ Covered(ingest'.dates)
  <2>1. /\ ingest'.marks = ingest.marks \cup Group(i)
        /\ ingest.dates \subseteq ingest'.dates
        /\ \A s \in Spans(days) : [inst |-> i, span |-> s] \in ingest'.dates
    <3>1. PICK b : ingest' = Close(i, Group(i), b, days)
      BY <1>5 DEF GroupThrough
    <3> HIDE DEF Spans
    <3> QED BY <1>a, <3>1, CloseMarks, CloseEntries
  <2>2. CASE k \in ingest.marks
    BY <1>1, <1>5, <2>1, <2>2
  <2>3. CASE k \in Group(i)
    <3>1. /\ KeyInstrument(k) = i /\ k \in DOMAIN fetch_request /\ k \in ingest.rows
          /\ fetch_request' = fetch_request
      BY <1>5, <2>3 DEF Group, TypeInv, RowsExist, GroupThrough
    <3>2. bar[1] = i /\ bar[2] \in Bars(k)
      BY <3>1, RangeKept DEF Brought
    <3>3. bar[2] \in GroupBars(i) /\ bar[2] \in GroupGood(i)
      BY <1>5, <2>3, <3>2 DEF GroupBars, GroupGood, ValidBars
    <3>4. bar[2] \in days
      BY <1>5, <3>3 DEF GroupThrough
    <3>5. days \subseteq GroupBars(i)
      BY <1>5, <3>3 DEF GroupThrough, GroupGood
    <3>6. days \in SUBSET Nat
      <4>1. Group(i) \subseteq Keys
        BY <1>a DEF Group, IngestState
      <4> QED BY <3>5, <4>1, BarsAreDays DEF GroupBars
    <3>7. \A d \in days : d <= DayBound
      <4> SUFFICES ASSUME NEW d \in days PROVE d <= DayBound
        OBVIOUS
      <4>1. PICK l \in Group(i) : l \in DOMAIN fetch_request /\ d <= fetch_request[l].end
        BY <1>5, ThroughDays
      <4>2. fetch_request[l].end \in Int /\ fetch_request[l].end <= DayBound
        BY <4>1 DEF EndsInv, TypeInv, TypeCore, TypeOK, SharedTypeOK, Request
      <4>3. d \in Int /\ DayBound \in Int
        BY <3>6, BoundType
      <4> HIDE DEF DayBound
      <4> QED BY <4>1, <4>2, <4>3
    <3>8. PICK s \in Spans(days) : TRUE
      <4>1. DayBound \in Int
        BY BoundType
      <4> HIDE DEF DayBound, Spans
      <4> QED BY <3>4, <3>6, <3>7, <4>1, SpanOfDays
    <3>9. s.earliest <= bar[2] /\ bar[2] <= s.latest
      BY <3>4 DEF Spans
    <3>10. [inst |-> i, span |-> s] \in ingest'.dates
      BY <2>1
    <3> QED BY <3>2, <3>9, <3>10
  <2> QED BY <2>1, <2>2, <2>3
<1>6. CASE ingest'.marks = {}
  BY <1>6
<1> QED BY <1>2, <1>3, <1>4, <1>5, <1>6, RunOutcome

LEMMA AccountInit == Init => AccountInv
  BY DEF Init, EmptyTables, IdleIngest, AccountInv, ValidBars, Accounted, MarksAccounted

LEMMA AccountNext ==
    ASSUME "watermark_flush" \notin Faults
    PROVE  TypeInv /\ BatchInv /\ TurnInv /\ RunInv /\ EndsInv /\ AccountInv /\ [Next]_vars
             => AccountInv'
<1> SUFFICES ASSUME TypeInv, BatchInv, TurnInv, RunInv, EndsInv, AccountInv, [Next]_vars
             PROVE  AccountInv'
  OBVIOUS
<1>1. ValidBars'
  <2>1. ASSUME NEW bar \in bronze', bar \notin bronze PROVE bar[2] \notin InvalidDays[bar[1]]
    <3>1. IngestAppendNew \/ IngestAppendAmended
      BY <2>1, BronzeWriters
    <3>2. PICK i \in Instruments : bar[1] = i /\ bar[2] \in GroupGood(i)
      BY <2>1, <3>1, AppendEffect
    <3> QED BY <3>2 DEF GroupGood
  <2> QED BY <2>1 DEF AccountInv, ValidBars
<1>2. Accounted'
  BY AccountedNext DEF AccountInv
<1>3. MarksAccounted'
  BY MarksAccountedNext DEF AccountInv
<1> QED BY <1>1, <1>2, <1>3 DEF AccountInv

\* Where a watermark is, an initial load is not planned, and a history
\* extension ends the day before it.
LEMMA PlanBeforeWatermark ==
    ASSUME NEW i, NEW wm, NEW day, wm # NoWatermark,
           Plan(i, wm, day).mode \in {"INITIAL_LOAD", "HISTORY_EXTENSION"}
    PROVE  Plan(i, wm, day).mode = "HISTORY_EXTENSION" /\ Plan(i, wm, day).end = wm.earliest - 1
  BY DEF Plan

\* While the planner has plans, the ingestion job is idle and Bronze at rest.
LEMMA FreshPlansNext ==
    ASSUME "watermark_read" \notin Faults,
           TypeInv, BatchInv, TurnInv, [Next]_vars, Accounted, FreshPlans
    PROVE  FreshPlans'
<1> SUFFICES ASSUME NEW e \in planner'.emitted,
                    e.plan.mode \in {"INITIAL_LOAD", "HISTORY_EXTENSION"},
                    NEW bar \in bronze', bar[1] = e.inst
             PROVE  ~(e.plan.start <= bar[2] /\ bar[2] <= e.plan.end)
  BY DEF FreshPlans, NothingStored
<1>1. CASE e \in planner.emitted
  <2>1. ingest.phase = "idle"
    BY <1>1 DEF BatchInv, TurnInv
  <2>2. bar \in bronze
    BY <2>1, BronzeWriters DEF IngestAppendNew, IngestAppendAmended
  <2> QED BY <1>1, <2>2 DEF FreshPlans, NothingStored
<1>2. CASE PlannedFor(e)
  <2>1. PICK i \in Instruments : \E wm \in WatermarkRead(i) :
          /\ planner.phase = "plan" /\ i \notin planner.busy
          /\ e = [inst |-> i, plan |-> Plan(i, wm, today)]
          /\ UNCHANGED shared
    BY <1>2 DEF PlannedFor
  <2>2. /\ planner.phase = "plan" /\ i \notin planner.busy
        /\ e = [inst |-> i, plan |-> Plan(i, watermark[i], today)]
        /\ bronze' = bronze
    BY <2>1 DEF WatermarkRead, shared, delta
  <2>3. \A k \in WithStatus("LANDED") : KeyInstrument(k) # i
    BY <2>2 DEF BatchInv, InFlight
  <2>4. Within(i, bar[2])
    BY <2>2, <2>3 DEF Accounted, Brought
  <2>5. bar[2] \in Nat /\ watermark[i] \in Watermark
    BY <2>1, <2>2 DEF TypeInv, TypeCore, TypeOK, SharedTypeOK, Bar
  <2>6. watermark[i] # NoWatermark
    BY <2>4, <2>5, NoWatermarkType DEF Within
  <2>7. e.plan = Plan(i, watermark[i], today)
    BY <2>2
  <2>8. e.plan.end = watermark[i].earliest - 1
    BY <2>6, <2>7, PlanBeforeWatermark
  <2>9. watermark[i].earliest \in Int
    BY <2>5 DEF Watermark
  <2> QED BY <2>4, <2>5, <2>8, <2>9 DEF Within
<1> QED BY <1>1, <1>2, EmittedStep

LEMMA FreshLoadsNext ==
    ASSUME TypeInv, BatchInv, TurnInv, RunInv, [Next]_vars, FreshPlans, FreshLoads
    PROVE  FreshLoads'
<1> SUFFICES ASSUME NEW k \in InFlight', NEW bar \in bronze',
                    SkipsDedup(k)', KeyInstrument(k) = bar[1], bar[2] \in Bars(k)'
             PROVE  bar[3] = KeyBatch(k)
  BY DEF FreshLoads
<1>a. k \in DOMAIN fetch_request'
  BY DEF InFlight, WithStatus
<1>1. CASE k \in DOMAIN fetch_request
  <2>1. k \in InFlight
    BY <1>1, TableStep DEF RowStep, Has, InFlight
  <2>2. SkipsDedup(k) /\ bar[2] \in Bars(k)
    BY <1>1, RangeKept
  <2>3. CASE bar \in bronze
    BY <2>1, <2>2, <2>3 DEF FreshLoads
  <2>4. CASE bar \notin bronze
    <3>1. IngestAppendNew \/ IngestAppendAmended
      BY <2>4, BronzeWriters
    <3>2. PICK i \in Instruments : GroupOf(i) /\ bar[1] = i /\ bar[3] = ingest.group.batch
      BY <2>4, <3>1, AppendEffect
    <3>3. PICK l \in Group(i) : KeyBatch(l) = ingest.group.batch
      BY <3>2 DEF GroupOf
    <3>4. l \in InFlight /\ KeyInstrument(l) = i
      BY <3>3 DEF Group, RunInv, InFlight
    <3> QED BY <2>1, <3>2, <3>3, <3>4 DEF BatchInv, OneBatchInFlight
  <2> QED BY <2>3, <2>4
<1>2. CASE k \notin DOMAIN fetch_request
  <2>1. batches < MaxBatches /\ k \in NewKeys /\ PlannerInsert
    BY <1>a, <1>2, TableStep DEF NewRowStep
  <2>2. PICK e \in planner.emitted :
          /\ e.inst = KeyInstrument(k) /\ e.plan \in FetchPlan
          /\ NewRow(k).load = e.plan.mode
          /\ e.plan.start <= NewRow(k).start /\ NewRow(k).end <= e.plan.end
    BY <2>1, NewRowPlan DEF TypeInv, TypeCore
  <2>3. NewRow(k) \in Request /\ fetch_request'[k] = NewRow(k) /\ bronze' = bronze
    BY <1>a, <1>2, <2>1, NewRowType DEF TypeInv, TypeCore, PlannerInsert
  <2>4. e.plan.mode \in {"INITIAL_LOAD", "HISTORY_EXTENSION"}
    BY <2>2, <2>3 DEF SkipsDedup
  <2>5. NewRow(k).start <= bar[2] /\ bar[2] <= NewRow(k).end
    BY <2>3 DEF Bars
  <2>6. /\ NewRow(k).start \in Int /\ NewRow(k).end \in Int /\ bar[2] \in Int
        /\ e.plan.start \in Int /\ e.plan.end \in Int
    BY <2>2, <2>3 DEF Request, FetchPlan, TypeInv, TypeCore, TypeOK, SharedTypeOK, Bar
  <2>7. e.plan.start <= bar[2] /\ bar[2] <= e.plan.end
    BY <2>2, <2>5, <2>6
  <2> QED BY <2>2, <2>3, <2>4, <2>7 DEF FreshPlans, NothingStored
<1> QED BY <1>1, <1>2

\* A run comes to write a group only by opening it.
LEMMA GroupInHandFrom ==
    ASSUME TypeInv, [Next]_vars, ingest'.phase = "new"
    PROVE  UNCHANGED ingest \/ \E i \in Instruments : IngestOpenGroup(i)
<1>a. ingest \in IngestState
  BY DEF TypeInv, TypeCore, TypeOK
<1>1. ~(IngestReadFailed \/ IngestReadDone \/ IngestAppendNew \/ IngestAppendAmended
        \/ IngestGroupFails \/ IngestGroupsDone)
  BY <1>a DEF IngestReadFailed, IngestReadDone, IngestAppendNew, IngestAppendAmended,
              IngestGroupFails, IngestGroupsDone, IngestState
<1>2. ~(IngestMerge \/ IngestArchive \/ IngestCrash)
  BY DEF IngestMerge, IngestArchive, IngestCrash, IdleIngest
<1>3. ~IngestSelect
  <2>1. CASE ingest' = IdleIngest
    BY <2>1 DEF IdleIngest
  <2>2. CASE ingest' = [ingest EXCEPT
                          !.rows  = WithStatus("LANDED"),
                          !.phase = IF WithStatus("LANDED") = {} THEN "archive" ELSE "groups"]
    BY <2>2, <1>a DEF IngestState
  <2> QED BY <2>1, <2>2 DEF IngestSelect
<1>4. ~IngestAppendRejected
  BY <1>a, CloseMarks DEF IngestAppendRejected
<1>5. ~(IngestFlush \/ IngestMark)
  BY <1>a DEF IngestFlush, IngestMark, IngestState
<1> QED BY <1>1, <1>2, <1>3, <1>4, <1>5
        DEF Next, vars, PlannerStep, AgentStep, EnvironmentStep, IngestStep, StartIngest, IngestWork

\* What the replay guard has let through, if it was asked.
LEMMA OpenGroupGuard ==
    ASSUME ingest \in IngestState, NEW i, IngestOpenGroup(i), ingest'.phase = "new"
    PROVE  \E rep \in Group(i) :
             /\ SkipsDedup(rep) => FALSE \in GuardAnswers(i, KeyBatch(rep))
             /\ ingest'.group.inst = {i} /\ ingest'.group.keys = Group(i)
             /\ ingest'.group.new \subseteq GroupGood(i)
<1>1. PICK rep \in Group(i) :
          \/ \E days : ingest' = Close(i, Group(i), KeyBatch(rep), days)
          \/ /\ SkipsDedup(rep) => FALSE \in GuardAnswers(i, KeyBatch(rep))
             /\ \E known : \E revised :
                  ingest' = [ingest EXCEPT !.phase = "new",
                                           !.group = Opened(i, rep, known, revised)]
  BY Zenon DEF IngestOpenGroup, GroupBars, GroupGood, Opened
<1>2. ~(\E days : ingest' = Close(i, Group(i), KeyBatch(rep), days))
  BY CloseMarks
<1>3. PICK known : \E revised :
          ingest' = [ingest EXCEPT !.phase = "new", !.group = Opened(i, rep, known, revised)]
  BY <1>1, <1>2
<1>4. PICK revised :
          ingest' = [ingest EXCEPT !.phase = "new", !.group = Opened(i, rep, known, revised)]
  BY <1>3
<1>5. ingest'.group = Opened(i, rep, known, revised)
  BY <1>4 DEF IngestState
<1>6. /\ ingest'.group.inst = {i} /\ ingest'.group.keys = Group(i)
      /\ ingest'.group.new \subseteq GroupGood(i)
  <2> HIDE DEF GroupGood
  <2> QED BY <1>5 DEF Opened
<1>7. SkipsDedup(rep) => FALSE \in GuardAnswers(i, KeyBatch(rep))
  BY <1>1, <1>2
<1> QED BY <1>6, <1>7

LEMMA FreshGroupNext ==
    ASSUME "guard_query" \notin Faults,
           TypeInv, BatchInv, TurnInv, RunInv, [Next]_vars, FreshLoads, FreshGroup
    PROVE  FreshGroup'
<1> SUFFICES ASSUME ingest'.phase = "new", \A k \in ingest'.group.keys : SkipsDedup(k)',
                    NEW bar \in bronze', bar[1] \in ingest'.group.inst, bar[2] \in ingest'.group.new
             PROVE  FALSE
  BY DEF FreshGroup
<1>a. bar \in bronze
  BY BronzeWriters, AppendEffect
<1>b. \A i : \A k \in Group(i) : k \in DOMAIN fetch_request /\ (SkipsDedup(k)' => SkipsDedup(k))
  BY RangeKept DEF Group, TypeInv, RowsExist
<1>1. CASE UNCHANGED ingest
  <2>1. PICK i \in Instruments : GroupOf(i)
    BY <1>1 DEF RunInv
  <2>2. \A k \in ingest.group.keys : SkipsDedup(k)
    BY <1>1, <1>b, <2>1 DEF GroupOf
  <2> QED BY <1>1, <1>a, <2>2 DEF FreshGroup
<1>2. ASSUME NEW i \in Instruments, IngestOpenGroup(i) PROVE FALSE
  <2>1. PICK rep \in Group(i) :
             /\ SkipsDedup(rep) => FALSE \in GuardAnswers(i, KeyBatch(rep))
             /\ ingest'.group.inst = {i} /\ ingest'.group.keys = Group(i)
             /\ ingest'.group.new \subseteq GroupGood(i)
    BY <1>2, OpenGroupGuard DEF TypeInv, TypeCore, TypeOK
  <2>2. ~\E d \in VendorDays[i] : <<i, d, KeyBatch(rep)>> \in bronze
    BY <1>b, <2>1 DEF GuardAnswers
  <2>3. PICK k \in Group(i) : bar[2] \in Bars(k)
    BY <2>1 DEF GroupGood, GroupBars
  <2>4. k \in InFlight /\ rep \in InFlight /\ KeyInstrument(k) = i /\ KeyInstrument(rep) = i
    BY DEF Group, RunInv, InFlight
  <2>5. SkipsDedup(k) /\ bar[1] = i
    BY <1>b, <2>1
  <2>6. bar[3] = KeyBatch(rep)
    BY <1>a, <2>3, <2>4, <2>5 DEF FreshLoads, BatchInv, OneBatchInFlight
  <2>7. bar = <<i, bar[2], KeyBatch(rep)>>
    BY <1>a, <2>5, <2>6 DEF TypeInv, TypeCore, TypeOK, SharedTypeOK, Bar
  <2> QED BY <1>a, <2>2, <2>3, <2>4, <2>7 DEF Bars
<1> QED BY <1>1, <1>2, GroupInHandFrom

LEMMA FreshNext ==
    ASSUME {"watermark_read", "guard_query"} \cap Faults = {}
    PROVE  TypeInv /\ BatchInv /\ TurnInv /\ RunInv /\ AccountInv /\ FreshInv /\ [Next]_vars
             => FreshInv'
<1> SUFFICES ASSUME TypeInv, BatchInv, TurnInv, RunInv, AccountInv, FreshInv, [Next]_vars
             PROVE  FreshInv'
  OBVIOUS
<1>1. FreshPlans' /\ FreshLoads' /\ FreshGroup'
  BY FreshPlansNext, FreshLoadsNext, FreshGroupNext DEF FreshInv, AccountInv
<1>2. repeated' = {}
  <2>1. CASE IngestAppendNew
    <3>1. ASSUME NEW bar \in ingest.group.inst \X ingest.group.new, bar[2] \in Stored(bar[1]),
                 \A k \in ingest.group.keys : SkipsDedup(k)
          PROVE  FALSE
      <4>1. PICK b \in Batches : <<bar[1], bar[2], b>> \in bronze
        BY <3>1 DEF Stored
      <4>2. bar[1] \in ingest.group.inst /\ bar[2] \in ingest.group.new
        OBVIOUS
      <4>3. ingest.phase = "new"
        BY <2>1 DEF IngestAppendNew
      <4>4. <<bar[1], bar[2], b>>[1] = bar[1] /\ <<bar[1], bar[2], b>>[2] = bar[2]
        OBVIOUS
      <4> QED BY <3>1, <4>1, <4>2, <4>3, <4>4 DEF FreshInv, FreshGroup
    <3> QED BY <2>1, <3>1 DEF IngestAppendNew, FreshInv
  <2>2. CASE IngestAppendAmended
    BY <2>2 DEF IngestAppendAmended, FreshInv
  <2> QED BY <2>1, <2>2, BronzeWriters DEF FreshInv
<1> QED BY <1>1, <1>2 DEF FreshInv

LEMMA FreshInit == Init => FreshInv
  BY DEF Init, EmptyTables, IdlePlanner, IdleIngest, InFlight, WithStatus,
         FreshInv, FreshPlans, FreshLoads, FreshGroup

\* The planner gives an initial load or a history extension only days of which
\* Bronze has nothing, and the replay guard holds back the second attempt of one
\* that died half way: what these loads append without the dedup is new, through
\* every crash, retry and partial run, as long as the two jobs take turns and
\* neither the watermark nor the guard's query fails.
THEOREM DedupFreeLoadsAppendOnce ==
    ASSUME ~JobsOverlap, {"watermark_read", "watermark_flush", "guard_query"} \cap Faults = {}
    PROVE  Spec => []NoRepeatedAppend
<1>1. TypeInv /\ BatchInv /\ TurnInv /\ [Next]_vars => TurnInv'
  BY TurnNext
<1>2. TypeInv /\ BatchInv /\ TurnInv /\ RunInv /\ [Next]_vars => RunInv'
  BY RunNext
<1>3. TypeInv /\ BatchInv /\ TurnInv /\ RunInv /\ EndsInv /\ AccountInv /\ [Next]_vars => AccountInv'
  BY AccountNext
<1>4. TypeInv /\ BatchInv /\ TurnInv /\ RunInv /\ AccountInv /\ FreshInv /\ [Next]_vars => FreshInv'
  BY FreshNext
<1>5. FreshInv => NoRepeatedAppend
  BY DEF FreshInv, NoRepeatedAppend
<1> QED BY InitType, NextType, BatchInit, BatchNext, TurnInit, RunInit, EndsInit, EndsNext,
           AccountInit, FreshInit, <1>1, <1>2, <1>3, <1>4, <1>5, PTL DEF Spec
-----------------------------------------------------------------------------
(* Initial loads.                                                          *)

\* The selection holds all the LANDED requests of an instrument, or none.
SelectedWhole ==
    \A k \in ingest.rows, l \in WithStatus("LANDED") :
        KeyInstrument(k) = KeyInstrument(l) => l \in ingest.rows

\* Only the reconciliation lands requests.
LEMMA LandedByMerge ==
    ASSUME TypeInv, [Next]_vars, ~IngestMerge
    PROVE  WithStatus("LANDED")' \subseteq WithStatus("LANDED")
<1> DEFINE Goal == \A k \in DOMAIN fetch_request :
             fetch_request'[k].status = "LANDED" => fetch_request[k].status = "LANDED"
<1>a. fetch_request \in [DOMAIN fetch_request -> Request]
  BY DEF TypeInv, TypeCore, TypeOK, SharedTypeOK
<1>1. ASSUME UNCHANGED fetch_request PROVE Goal
  BY <1>1
<1>2. ASSUME PlannerInsert PROVE Goal
  BY <1>2 DEF PlannerInsert
<1>3. ASSUME PlannerMarkOrphans PROVE Goal
  <2>1. fetch_request' = SetStatus(fetch_request, planner.keys, Status, "ORPHANED")
    BY <1>3 DEF PlannerMarkOrphans
  <2> QED BY <1>a, <2>1, SetStatusEffect
<1>4. ASSUME IngestMark PROVE Goal
  <2>1. fetch_request' = SetStatus(fetch_request, ingest.marks, {"LANDED"}, "INGESTED")
    BY <1>4 DEF IngestMark
  <2> QED BY <1>a, <2>1, SetStatusEffect
<1>5. Goal
  BY <1>1, <1>2, <1>3, <1>4, TableWriters
<1>6. \A k \in DOMAIN fetch_request' \ DOMAIN fetch_request : fetch_request'[k].status = "PENDING"
  BY TableStep DEF NewRowStep
<1> QED BY <1>5, <1>6 DEF WithStatus

LEMMA RowsOutcome ==
    ASSUME TypeInv, RunInv, [Next]_vars
    PROVE  \/ ingest'.rows = ingest.rows /\ ~IngestMerge
           \/ ingest'.rows = {}
           \/ ingest'.rows = WithStatus("LANDED") /\ UNCHANGED fetch_request
           \/ \E i : ingest'.rows = ingest.rows \ Group(i) /\ ~IngestMerge
<1> DEFINE Goal == \/ ingest'.rows = ingest.rows
                   \/ ingest'.rows = {}
                   \/ ingest'.rows = WithStatus("LANDED") /\ UNCHANGED fetch_request
                   \/ \E i : ingest'.rows = ingest.rows \ Group(i)
<1>a. ingest \in IngestState
  BY DEF TypeInv, TypeCore, TypeOK
<1>1. ASSUME UNCHANGED ingest PROVE Goal
  BY <1>1
<1>2. ASSUME IngestReadFailed \/ IngestReadDone \/ IngestAppendNew \/ IngestAppendAmended
             \/ IngestGroupsDone \/ IngestFlush \/ IngestMark
      PROVE  Goal
  BY <1>2, <1>a DEF IngestReadFailed, IngestReadDone, IngestAppendNew, IngestAppendAmended,
                    IngestGroupsDone, IngestFlush, IngestMark, IngestState
<1>3. ASSUME IngestMerge \/ IngestArchive \/ IngestCrash PROVE ingest'.rows = {}
  BY <1>3 DEF IngestMerge, IngestArchive, IngestCrash, IdleIngest
<1>4. ASSUME IngestSelect PROVE Goal
  <2>1. CASE ingest' = IdleIngest
    BY <2>1 DEF IdleIngest
  <2>2. CASE ingest' = [ingest EXCEPT
                          !.rows  = WithStatus("LANDED"),
                          !.phase = IF WithStatus("LANDED") = {} THEN "archive" ELSE "groups"]
    BY <1>4, <2>2, <1>a DEF IngestState, IngestSelect, shared, delta
  <2> QED BY <1>4, <2>1, <2>2 DEF IngestSelect
<1>5. ASSUME NEW i \in Instruments, IngestOpenGroup(i) PROVE Goal
  <2>1. CASE \E b, days : ingest' = Close(i, Group(i), b, days)
    BY <1>a, <2>1, CloseMarks
  <2>2. CASE \E g : ingest' = [ingest EXCEPT !.phase = "new", !.group = g]
    BY <2>2, <1>a DEF IngestState
  <2> QED BY <1>5, <2>1, <2>2, OpenGroupEffect
<1>6. ASSUME IngestAppendRejected PROVE Goal
  <2>1. PICK i \in Instruments : GroupOf(i)
    BY <1>6 DEF IngestAppendRejected, RunInv
  <2>2. ingest' = Close(i, Group(i), ingest.group.batch, ingest.group.days)
    BY <1>6, <2>1 DEF IngestAppendRejected, GroupOf
  <2> QED BY <1>a, <2>2, CloseMarks
<1>7. ASSUME IngestGroupFails PROVE Goal
  <2>1. CASE ingest.phase = "groups"
    BY <1>7, <2>1, <1>a DEF IngestGroupFails, IngestState
  <2>2. CASE ingest.phase \in {"new", "amended", "rejected"}
    <3>1. PICK i \in Instruments : GroupOf(i)
      BY <2>2 DEF RunInv
    <3>2. ingest'.rows = ingest.rows \ ingest.group.keys
      BY <1>7, <2>2, <1>a DEF IngestGroupFails, IngestState
    <3>3. ingest.group.keys = Group(i)
      BY <3>1 DEF GroupOf
    <3> QED BY <3>2, <3>3
  <2> QED BY <1>7, <2>1, <2>2 DEF IngestGroupFails
<1> HIDE DEF Goal
<1>8. Goal
  BY <1>1, <1>2, <1>3, <1>4, <1>5, <1>6, <1>7
     DEF Goal, Next, vars, PlannerStep, AgentStep, EnvironmentStep, IngestStep, StartIngest, IngestWork
<1> QED BY <1>3, <1>8 DEF Goal

LEMMA SelectedWholeNext ==
    TypeInv /\ RunInv /\ SelectedWhole /\ [Next]_vars => SelectedWhole'
<1> SUFFICES ASSUME TypeInv, RunInv, SelectedWhole, [Next]_vars PROVE SelectedWhole'
  OBVIOUS
<1>1. CASE ingest'.rows = ingest.rows /\ ~IngestMerge
  BY <1>1, LandedByMerge DEF SelectedWhole
<1>2. CASE ingest'.rows = {}
  BY <1>2 DEF SelectedWhole
<1>3. CASE ingest'.rows = WithStatus("LANDED") /\ UNCHANGED fetch_request
  BY <1>3 DEF SelectedWhole, WithStatus
<1>4. ASSUME NEW i, ingest'.rows = ingest.rows \ Group(i), ~IngestMerge PROVE SelectedWhole'
  BY <1>4, LandedByMerge DEF SelectedWhole, Group
<1> QED BY <1>1, <1>2, <1>3, <1>4, RowsOutcome

\* What an INGESTED request or one about to be marked leaves behind: a watermark.
\* The batch in flight is the instrument's latest, and an initial load is planned
\* only where nothing was INGESTED.
NewestInFlight ==
    \A k \in InFlight, l \in DOMAIN fetch_request :
        KeyInstrument(k) = KeyInstrument(l) => KeyBatch(l) <= KeyBatch(k)

MarksLeaveWatermark ==
    \A k \in ingest.marks :
        \/ watermark[KeyInstrument(k)] # NoWatermark
        \/ \E e \in ingest.dates : e.inst = KeyInstrument(k)

LoadInv ==
    /\ InitialLoadOnce
    /\ \A k \in WithStatus("INGESTED") : watermark[KeyInstrument(k)] # NoWatermark
    /\ MarksLeaveWatermark
    /\ NewestInFlight
    /\ \A e \in planner.emitted : e.plan.mode = "INITIAL_LOAD" =>
         \A k \in WithStatus("INGESTED") : KeyInstrument(k) # e.inst

\* A group that is through has days to buffer, or finds a watermark.
LEMMA ThroughLeavesWatermark ==
    ASSUME NoneRejected, TypeInv, RunInv, EndsInv, DatesInv, AccountInv, SelectedWhole,
           NEW i \in Instruments, NEW days, GroupThrough(i, days)
    PROVE  watermark[i] # NoWatermark \/ \E s \in Spans(days) : TRUE
<1>a. \A k \in Group(i) : /\ k \in DOMAIN fetch_request /\ k \in Keys
                          /\ k \in ingest.rows /\ KeyInstrument(k) = i
  BY DEF Group, TypeInv, TypeCore, TypeOK, RowsExist, IngestState
<1>b. \A k \in Group(i) : fetch_request[k].end \in Nat /\ fetch_request[k].end <= DayBound
  <2>1. \A k \in Group(i) : fetch_request[k].end \in Int
    BY <1>a DEF TypeInv, TypeCore, TypeOK, SharedTypeOK, Request
  <2> QED BY <1>a, <2>1 DEF DatesInv, EndsInv
<1>c. DayBound \in Int
  BY BoundType
<1>d. GroupBars(i) \subseteq Nat
  BY <1>a, BarsAreDays DEF GroupBars
<1>e. GroupGood(i) = GroupBars(i)
  BY <1>a DEF GroupGood, GroupBars, Bars, NoneRejected
<1> HIDE DEF DayBound
<1>1. ASSUME days \in SUBSET Nat, days # {} PROVE \E s \in Spans(days) : TRUE
  <2>1. ASSUME NEW d \in days PROVE d <= DayBound
    <3>1. PICK k \in Group(i) : d <= fetch_request[k].end
      BY ThroughDays
    <3> QED BY <1>1, <1>b, <1>c, <3>1
  <2> HIDE DEF Spans
  <2> QED BY <1>1, <1>c, <2>1, SpanOfDays
<1>2. CASE days = GroupGood(i) /\ GroupBars(i) # {}
  BY <1>1, <1>2, <1>d, <1>e
<1>3. CASE days = LastEnd(i)
  <2> DEFINE ends == { fetch_request[k].end : k \in Group(i) }
  <2>1. ends \in SUBSET Nat /\ ends # {} /\ \A x \in ends : x <= DayBound
    BY <1>b DEF GroupThrough
  <2>2. PICK m \in ends : \A x \in ends : x <= m
    <3> HIDE DEF ends
    <3> QED BY <1>c, <2>1, HasGreatest
  <2>3. LastEnd(i) = { e \in ends : \A f \in ends : f <= e }
    BY DEF LastEnd
  <2>4. days # {} /\ days \in SUBSET Nat
    <3> HIDE DEF ends
    <3> QED BY <1>3, <2>1, <2>2, <2>3
  <2> QED BY <1>1, <2>4
<1>4. CASE days = GroupBars(i) /\ Stored(i) # {}
  <2>1. PICK d \in VendorDays[i] : \E b \in Batches : <<i, d, b>> \in bronze
    BY <1>4 DEF Stored
  <2>2. PICK b \in Batches : <<i, d, b>> \in bronze
    BY <2>1
  <2>3. CASE Within(i, d)
    <3>1. d \in Nat
      BY ControlPlaneAssumption
    <3>2. watermark[i] # NoWatermark
      BY <2>3, <3>1, NoWatermarkType DEF Within
    <3> QED BY <3>2
  <2>4. ASSUME NEW k \in WithStatus("LANDED"), KeyInstrument(k) = i, d \in Bars(k)
        PROVE  \E s \in Spans(days) : TRUE
    <3>1. k \in Group(i)
      <4>1. PICK l \in Group(i) : TRUE
        BY DEF GroupThrough
      <4> QED BY <1>a, <2>4, <4>1 DEF SelectedWhole, Group
    <3>2. d \in GroupBars(i)
      BY <2>4, <3>1 DEF GroupBars
    <3> QED BY <1>1, <1>4, <1>d, <3>2
  <2>5. Within(i, d) \/ \E k \in WithStatus("LANDED") : KeyInstrument(k) = i /\ d \in Bars(k)
    <3>1. <<i, d, b>>[1] = i /\ <<i, d, b>>[2] = d
      OBVIOUS
    <3> QED BY <2>2, <3>1 DEF AccountInv, Accounted, Brought
  <2> QED BY <2>3, <2>4, <2>5
<1> QED BY <1>2, <1>3, <1>4 DEF GroupThrough

\* A watermark that is there stays; a flush that does not fail makes one of each
\* entry of the buffer.
LEMMA WatermarkStays ==
    ASSUME TypeInv, RunInv, DatesInv, [Next]_vars, NEW i \in Instruments,
           \/ watermark[i] # NoWatermark
           \/ /\ "watermark_flush" \notin Faults /\ IngestFlush
              /\ \E e \in ingest.dates : e.inst = i
    PROVE  watermark'[i] # NoWatermark
<1>1. CASE watermark[i] # NoWatermark
  BY <1>1, WatermarkStep
<1>2. ASSUME watermark[i] = NoWatermark, "watermark_flush" \notin Faults, IngestFlush,
             NEW e \in ingest.dates, e.inst = i
      PROVE  watermark'[i] # NoWatermark
  <2>1. watermark'[i] = Widened(watermark[i], e.span)
    BY <1>2, FlushEffect
  <2>2. watermark[i] \in Watermark /\ e.span \in DateSpan /\ e.span.earliest >= 0
    BY DEF TypeInv, TypeCore, TypeOK, SharedTypeOK, IngestState, DatesInv
  <2>3. watermark'[i].earliest = e.span.earliest
    BY <1>2, <2>1, <2>2, WidenedDates
  <2>4. e.span.earliest # -1
    BY <2>2 DEF DateSpan
  <2> QED BY <2>3, <2>4, NoWatermarkType
<1> QED BY <1>1, <1>2

LEMMA MarksLeaveWatermarkNext ==
    ASSUME NoneRejected, "watermark_flush" \notin Faults,
           TypeInv, RunInv, EndsInv, DatesInv, AccountInv, SelectedWhole, [Next]_vars,
           MarksLeaveWatermark
    PROVE  MarksLeaveWatermark'
<1> SUFFICES ASSUME NEW k \in ingest'.marks
             PROVE  \/ watermark'[KeyInstrument(k)] # NoWatermark
                    \/ \E e \in ingest'.dates : e.inst = KeyInstrument(k)
  BY DEF MarksLeaveWatermark, NoWatermark
<1>a. ingest \in IngestState
  BY DEF TypeInv, TypeCore, TypeOK
<1>b. \A l \in ingest.marks \cup ingest.rows : KeyInstrument(l) \in Instruments
  BY KeyParts DEF RunInv, WithStatus, TypeInv, TypeCore, TypeOK, SharedTypeOK
<1>1. CASE ingest'.marks = ingest.marks /\ ingest'.dates = ingest.dates
  BY <1>1, <1>b, WatermarkStays DEF MarksLeaveWatermark
<1>2. CASE IngestFlush
  <2>1. k \in ingest.marks
    BY <1>a, <1>2 DEF IngestFlush, IngestState
  <2> QED BY <1>2, <1>b, <2>1, WatermarkStays DEF MarksLeaveWatermark
<1>3. ASSUME NEW i \in Instruments, NEW days, GroupThrough(i, days)
      PROVE  \/ watermark'[KeyInstrument(k)] # NoWatermark
             \/ \E e \in ingest'.dates : e.inst = KeyInstrument(k)
  <2>1. /\ ingest'.marks = ingest.marks \cup Group(i)
        /\ ingest.dates \subseteq ingest'.dates
        /\ \A s \in Spans(days) : [inst |-> i, span |-> s] \in ingest'.dates
    <3>1. PICK b : ingest' = Close(i, Group(i), b, days)
      BY <1>3 DEF GroupThrough
    <3> HIDE DEF Spans
    <3> QED BY <1>a, <3>1, CloseMarks, CloseEntries
  <2>2. CASE k \in ingest.marks
    BY <1>b, <2>1, <2>2, WatermarkStays DEF MarksLeaveWatermark
  <2>3. CASE k \in Group(i)
    <3>1. KeyInstrument(k) = i
      BY <2>3 DEF Group
    <3>2. watermark[i] # NoWatermark \/ \E s \in Spans(days) : TRUE
      BY <1>3, ThroughLeavesWatermark
    <3>3. ASSUME NEW s \in Spans(days) PROVE \E e \in ingest'.dates : e.inst = i
      <4>1. [inst |-> i, span |-> s] \in ingest'.dates
        BY <2>1
      <4>2. [inst |-> i, span |-> s].inst = i
        OBVIOUS
      <4> QED BY <4>1, <4>2
    <3> QED BY <3>1, <3>2, <3>3, WatermarkStays
  <2> QED BY <2>1, <2>2, <2>3
<1>4. CASE ingest'.marks = {}
  BY <1>4
<1> QED BY <1>1, <1>2, <1>3, <1>4, RunOutcome

LEMMA NewestInFlightNext ==
    ASSUME TypeInv, BatchInv, NewestInFlight, [Next]_vars
    PROVE  NewestInFlight'
<1>1. CASE ~PlannerInsert
  BY <1>1, BatchFrame DEF BatchKept, NewestInFlight
<1>2. CASE PlannerInsert
  <2>1. batches < MaxBatches /\ planner.phase = "insert"
    BY <1>2 DEF PlannerInsert, TypeInv, TypeCore, BatchLeft
  <2>2. /\ DOMAIN fetch_request' = DOMAIN fetch_request \cup NewKeys
        /\ \A k \in DOMAIN fetch_request : fetch_request'[k] = fetch_request[k]
    BY <1>2 DEF PlannerInsert
  <2>3. \A k \in NewKeys : KeyBatch(k) = batches + 1 /\ KeyInstrument(k) \notin planner.busy
    BY <2>1, NewKeysType DEF BatchInv, NextBatch, TypeInv, TypeCore
  <2>4. batches \in Int /\ \A k \in DOMAIN fetch_request : KeyBatch(k) \in Int
    BY KeyParts, ControlPlaneAssumption
       DEF TypeInv, TypeCore, TypeOK, SharedTypeOK, Batches
  <2>5. InFlight' \subseteq InFlight \cup NewKeys
    BY <2>2 DEF InFlight, WithStatus
  <2>6. \A k \in InFlight : KeyInstrument(k) \in planner.busy
    BY <2>1 DEF BatchInv
  <2>7. \A k \in DOMAIN fetch_request : KeyBatch(k) <= batches
    BY DEF BatchInv
  <2> SUFFICES ASSUME NEW k \in InFlight', NEW l \in DOMAIN fetch_request',
                      KeyInstrument(k) = KeyInstrument(l)
               PROVE  KeyBatch(l) <= KeyBatch(k)
    BY DEF NewestInFlight
  <2>8. CASE k \in NewKeys
    BY <2>2, <2>3, <2>4, <2>7, <2>8
  <2>9. CASE k \in InFlight /\ l \notin NewKeys
    BY <2>2, <2>9 DEF NewestInFlight
  <2> QED BY <2>3, <2>5, <2>6, <2>8, <2>9
<1> QED BY <1>1, <1>2

LEMMA LoadNext ==
    ASSUME NoneRejected, {"watermark_read", "watermark_flush"} \cap Faults = {}
    PROVE  TypeInv /\ BatchInv /\ TurnInv /\ RunInv /\ EndsInv /\ DatesInv /\ AccountInv
             /\ SelectedWhole /\ LoadInv /\ [Next]_vars => LoadInv'
<1> SUFFICES ASSUME TypeInv, BatchInv, TurnInv, RunInv, EndsInv, DatesInv, AccountInv,
                    SelectedWhole, LoadInv, [Next]_vars
             PROVE  LoadInv'
  OBVIOUS
<1>a. \A k \in DOMAIN fetch_request : KeyInstrument(k) \in Instruments /\ KeyBatch(k) \in Int
  BY KeyParts DEF TypeInv, TypeCore, TypeOK, SharedTypeOK, Batches
<1>b. ASSUME NEW k \in WithStatus("INGESTED")', k \notin WithStatus("INGESTED")
      PROVE  /\ IngestMark /\ k \in ingest.marks /\ k \in WithStatus("LANDED")
             /\ k \in DOMAIN fetch_request
  <2>1. IngestMark
    BY <1>b, IngestedByMark
  <2>2. fetch_request' = SetStatus(fetch_request, ingest.marks, {"LANDED"}, "INGESTED")
    BY <2>1 DEF IngestMark
  <2>3. k \in DOMAIN fetch_request
    BY <2>2 DEF SetStatus, WithStatus
  <2>4. fetch_request'[k].status = IF k \in ingest.marks /\ fetch_request[k].status \in {"LANDED"}
                                   THEN "INGESTED" ELSE fetch_request[k].status
    BY <2>2, <2>3, SetStatusEffect DEF TypeInv, TypeCore, TypeOK, SharedTypeOK
  <2> QED BY <1>b, <2>1, <2>3, <2>4 DEF WithStatus
<1>1. InitialLoadOnce'
  <2> SUFFICES ASSUME NEW k \in DOMAIN fetch_request', NEW l \in DOMAIN fetch_request',
                      KeyInstrument(k) = KeyInstrument(l), KeyBatch(k) < KeyBatch(l),
                      fetch_request'[l].load = "INITIAL_LOAD", k \in WithStatus("INGESTED")'
               PROVE  FALSE
    BY DEF InitialLoadOnce, Has
  <2>1. CASE l \in DOMAIN fetch_request /\ k \in WithStatus("INGESTED")
    <3>1. fetch_request[l].load = "INITIAL_LOAD" /\ k \in DOMAIN fetch_request
      BY <2>1, RowKept DEF WithStatus
    <3> QED BY <2>1, <3>1 DEF LoadInv, InitialLoadOnce, Has
  <2>2. CASE l \in DOMAIN fetch_request /\ k \notin WithStatus("INGESTED")
    <3>1. k \in InFlight /\ k \in DOMAIN fetch_request
      BY <1>b, <2>2 DEF InFlight
    <3>2. KeyBatch(l) <= KeyBatch(k)
      BY <2>2, <3>1 DEF LoadInv, NewestInFlight
    <3> QED BY <1>a, <2>2, <3>1, <3>2
  <2>3. CASE l \notin DOMAIN fetch_request
    <3>1. batches < MaxBatches /\ l \in NewKeys /\ PlannerInsert
      BY <2>3, TableStep DEF NewRowStep
    <3>2. PICK e \in planner.emitted : e.inst = KeyInstrument(l) /\ NewRow(l).load = e.plan.mode
      BY <3>1, NewRowPlan DEF TypeInv, TypeCore
    <3>3. fetch_request'[l] = NewRow(l)
      BY <2>3, <3>1 DEF PlannerInsert
    <3>4. k \in WithStatus("INGESTED")
      BY <1>b, <3>1 DEF IngestMark, PlannerInsert, TurnInv
    <3> QED BY <3>2, <3>3, <3>4 DEF LoadInv
  <2> QED BY <2>1, <2>2, <2>3
<1>2. \A k \in WithStatus("INGESTED")' : watermark'[KeyInstrument(k)] # NoWatermark
  <2> SUFFICES ASSUME NEW k \in WithStatus("INGESTED")'
               PROVE  watermark'[KeyInstrument(k)] # NoWatermark
    OBVIOUS
  <2>1. CASE k \in WithStatus("INGESTED")
    <3>1. KeyInstrument(k) \in Instruments
      BY <1>a, <2>1 DEF WithStatus
    <3> QED BY <2>1, <3>1, WatermarkStays DEF LoadInv
  <2>2. CASE k \notin WithStatus("INGESTED")
    <3>1. ingest.dates = {}
      BY <1>b, <2>2 DEF IngestMark, RunInv
    <3>2. watermark[KeyInstrument(k)] # NoWatermark
      BY <1>b, <2>2, <3>1 DEF LoadInv, MarksLeaveWatermark
    <3> QED BY <1>a, <1>b, <2>2, <3>2, WatermarkStays
  <2> QED BY <2>1, <2>2
<1>3. MarksLeaveWatermark'
  BY MarksLeaveWatermarkNext DEF LoadInv
<1>4. NewestInFlight'
  BY NewestInFlightNext DEF LoadInv
<1>5. \A e \in planner'.emitted : e.plan.mode = "INITIAL_LOAD" =>
         \A k \in WithStatus("INGESTED")' : KeyInstrument(k) # e.inst
  <2> SUFFICES ASSUME NEW e \in planner'.emitted, e.plan.mode = "INITIAL_LOAD",
                      NEW k \in WithStatus("INGESTED")', KeyInstrument(k) = e.inst
               PROVE  FALSE
    OBVIOUS
  <2>1. CASE e \in planner.emitted
    <3>1. ingest.phase = "idle"
      BY <2>1 DEF BatchInv, TurnInv
    <3>2. k \in WithStatus("INGESTED")
      BY <1>b, <3>1 DEF IngestMark
    <3> QED BY <2>1, <3>2 DEF LoadInv
  <2>2. CASE PlannedFor(e)
    <3>1. PICK i \in Instruments : \E wm \in WatermarkRead(i) :
            /\ e = [inst |-> i, plan |-> Plan(i, wm, today)]
            /\ UNCHANGED shared
      BY <2>2 DEF PlannedFor
    <3>2. e = [inst |-> i, plan |-> Plan(i, watermark[i], today)] /\ fetch_request' = fetch_request
      BY <3>1 DEF WatermarkRead, shared, delta
    <3>3. e.plan = Plan(i, watermark[i], today) /\ e.inst = i
      BY <3>2
    <3>4. watermark[i] = NoWatermark
      BY <3>3, PlanBeforeWatermark
    <3>5. k \in WithStatus("INGESTED")
      BY <3>2 DEF WithStatus
    <3> QED BY <3>3, <3>4, <3>5 DEF LoadInv
  <2> QED BY <2>1, <2>2, EmittedStep
<1>6. NoWatermark' = NoWatermark
  BY DEF NoWatermark
<1> QED BY <1>1, <1>2, <1>3, <1>4, <1>5, <1>6 DEF LoadInv

LEMMA LoadInit == Init => LoadInv /\ SelectedWhole
  BY DEF Init, EmptyTables, IdlePlanner, IdleIngest, InFlight, WithStatus, LoadInv,
         InitialLoadOnce, MarksLeaveWatermark, NewestInFlight, SelectedWhole

\* An instrument whose initial load was INGESTED is not loaded from the start
\* again, even if the vendor had no bar for it: every group leaves a watermark
\* behind before its requests are marked.  This takes the jobs' turns, watermark
\* calls that do not fail, and no group whose bars are all rejected.
THEOREM IngestedLoadsAreNotRepeated ==
    ASSUME ~JobsOverlap, HistoriesStart, NoneRejected,
           {"watermark_read", "watermark_flush"} \cap Faults = {}
    PROVE  Spec => []InitialLoadOnce
<1>1. TypeInv /\ BatchInv /\ TurnInv /\ [Next]_vars => TurnInv'
  BY TurnNext
<1>2. TypeInv /\ BatchInv /\ TurnInv /\ RunInv /\ [Next]_vars => RunInv'
  BY RunNext
<1>3. TypeInv /\ DatesInv /\ [Next]_vars => DatesInv'
  BY DatesNext
<1>4. TypeInv /\ BatchInv /\ TurnInv /\ RunInv /\ EndsInv /\ AccountInv /\ [Next]_vars => AccountInv'
  BY AccountNext
<1>5. TypeInv /\ BatchInv /\ TurnInv /\ RunInv /\ EndsInv /\ DatesInv /\ AccountInv
        /\ SelectedWhole /\ LoadInv /\ [Next]_vars => LoadInv'
  BY LoadNext
<1>6. Init => DatesInv
  BY DEF Init, EmptyTables, IdlePlanner, IdleIngest, DatesInv
<1>7. LoadInv => InitialLoadOnce
  BY DEF LoadInv
<1> QED BY InitType, NextType, BatchInit, BatchNext, TurnInit, RunInit, EndsInit, EndsNext,
           AccountInit, LoadInit, SelectedWholeNext,
           <1>1, <1>2, <1>3, <1>4, <1>5, <1>6, <1>7, PTL DEF Spec
=============================================================================
