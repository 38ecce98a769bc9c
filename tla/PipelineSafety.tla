---------------------------- MODULE PipelineSafety ----------------------------
(***************************************************************************)
(* Type correctness of the pipeline, that queue, payloads and request      *)
(* table agree, and that what is INGESTED is stored, for every value of    *)
(* the constants.                                                          *)
(*   - TypeOK needs three facts to be inductive: a planner run about to    *)
(*     insert has a batch left, a group being written has a batch, and the *)
(*     rows the ingestion job selected are in control.fetch_request.       *)
(*   - QueueInv and BatchInv are the inductive invariants behind           *)
(*     NoUntrackedWork, LandedHasPayload, ReceiptNotLost, OneBatchInFlight.*)
(*   - Orphan repair leaves queued work alone, if listings do not fail     *)
(*     (OrphanInv).  As long as, moreover, the planner and the ingestion   *)
(*     job do not run side by side (TurnInv), the pipeline implements      *)
(*     RequestLifecycle.  That condition is needed: orphan repair updates  *)
(*     by key alone, whatever the status is now.                           *)
(*   - What is INGESTED is stored (StoredInv), if loads that skip the      *)
(*     dedup consist of one request and none of their bars is rejected:    *)
(*     the conditions under which the replay guard may stop a whole group. *)
(*   - A watermark only widens, if histories start at a date (DatesInv).   *)
(***************************************************************************)
EXTENDS Pipeline, TLAPS

(* Type correctness.                                                       *)
BatchLeft == planner.phase = "insert" => batches < MaxBatches

GroupHasBatch == ingest.phase \in {"new", "amended", "rejected"} => ingest.group.batch \in Batches

RowsExist == ingest.rows \subseteq DOMAIN fetch_request

TypeCore == TypeOK /\ BatchLeft /\ GroupHasBatch
TypeInv  == TypeCore /\ RowsExist
-----------------------------------------------------------------------------
LEMMA KeyParts ==
    ASSUME NEW k \in Keys
    PROVE  KeyBatch(k) \in Batches /\ KeyInstrument(k) \in Instruments /\ KeySeq(k) \in Nat \ {0}
  BY DEF Keys, KeyBatch, KeyInstrument, KeySeq

\* SetStatus changes no row but for its status.
LEMMA SetStatusType ==
    ASSUME NEW T, T \in [DOMAIN T -> Request], NEW ks, NEW from, NEW to \in Status
    PROVE  /\ DOMAIN SetStatus(T, ks, from, to) = DOMAIN T
           /\ SetStatus(T, ks, from, to) \in [DOMAIN T -> Request]
  BY DEF SetStatus, Request

\* What IngestionPlanner.plan decides is a load with integer dates.
LEMMA PlanType ==
    ASSUME NEW i \in Instruments, NEW wm \in Watermark, NEW day \in Int,
           Plan(i, wm, day).mode # "NO_OP"
    PROVE  Plan(i, wm, day) \in FetchPlan
<1>1. InitialStart(i, day) \in Int
  BY PlanningAssumption DEF InitialStart, NoDate
<1>2. Later(wm.latest - BufferDays, wm.earliest) \in Int
  BY PlanningAssumption DEF Later, Watermark
<1> QED BY <1>1, <1>2, PlanningAssumption DEF Plan, FetchPlan, LoadTypes, Watermark, Range

LEMMA BuiltRowType ==
    ASSUME NEW p \in FetchPlan, NEW s \in Nat \ {0}
    PROVE  BuiltRow(p, s) \in Request
<1>1. ChunkDays(p.mode) \in Int
  BY PlanningAssumption DEF ChunkDays
<1>2. ChunkStart(p.start, ChunkDays(p.mode), s) \in Int
  BY <1>1 DEF ChunkStart, FetchPlan
<1>3. ChunkEnd(p.start, p.end, ChunkDays(p.mode), s) \in Int
  BY <1>1, <1>2 DEF ChunkEnd, Earlier, FetchPlan
<1> QED BY <1>2, <1>3 DEF BuiltRow, Request, Status, FetchPlan

\* The keys of a planner run are keys of its new batch.
LEMMA NewKeysType ==
    ASSUME TypeOK, batches < MaxBatches
    PROVE  /\ NewKeys \subseteq Keys
           /\ \A k \in NewKeys : /\ KeyBatch(k) = NextBatch
                                 /\ \E e \in planner.emitted : e.inst = KeyInstrument(k)
<1>1. NextBatch \in Batches
  BY ControlPlaneAssumption DEF TypeOK, SharedTypeOK, NextBatch, Batches
<1> SUFFICES ASSUME NEW e \in planner.emitted, NEW k \in BuiltKeys(NextBatch, e.inst, e.plan)
             PROVE  k \in Keys /\ KeyBatch(k) = NextBatch /\ KeyInstrument(k) = e.inst
  BY DEF NewKeys
<1>2. e.inst \in Instruments
  BY DEF TypeOK, PlannerState
<1>3. PICK s \in 1 .. ChunkCount(e.plan.start, e.plan.end, ChunkDays(e.plan.mode)) :
          k = <<NextBatch, e.inst, s>>
  BY DEF BuiltKeys
<1>4. s \in Nat \ {0}
  BY <1>3
<1> QED BY <1>1, <1>2, <1>3, <1>4 DEF Keys, KeyBatch, KeyInstrument

\* Every row a planner run inserts is a request.
LEMMA NewRowType ==
    ASSUME TypeOK, batches < MaxBatches, NEW k \in NewKeys
    PROVE  NewRow(k) \in Request /\ NewRow(k).status = "PENDING"
<1> DEFINE e == CHOOSE e \in planner.emitted : e.inst = KeyInstrument(k)
<1>1. e \in planner.emitted
  BY NewKeysType
<1>2. e.plan \in FetchPlan
  BY <1>1 DEF TypeOK, PlannerState
<1>3. KeySeq(k) \in Nat \ {0}
  BY NewKeysType, KeyParts
<1>4. NewRow(k) = BuiltRow(e.plan, KeySeq(k))
  BY DEF NewRow
<1> HIDE DEF e
<1> QED BY <1>2, <1>3, <1>4, BuiltRowType DEF BuiltRow
-----------------------------------------------------------------------------

LEMMA SharedUnchanged == SharedTypeOK /\ UNCHANGED shared => SharedTypeOK'
  BY DEF SharedTypeOK, shared, delta, queue, clock

\* One turn of the planning loop passes an instrument over, emits for it, or
\* ends the run.
PlanOutcome(i, wm) ==
    \/ planner' = [planner EXCEPT !.todo = planner.todo \ {i}]
    \/ /\ Plan(i, wm, today).mode # "NO_OP" /\ i \notin planner.busy
       /\ planner' = [planner EXCEPT !.todo = planner.todo \ {i}, !.emitted =
               planner.emitted \cup {[inst |-> i, plan |-> Plan(i, wm, today)]}]
    \/ planner' = IdlePlanner

LEMMA PlanEffect ==
    ASSUME NEW i, PlannerPlan(i)
    PROVE  \E wm \in WatermarkRead(i) : PlanOutcome(i, wm)
  BY DEF PlannerPlan, PlanOutcome

LEMMA PlannerStepType == TypeInv /\ PlannerStep => TypeCore'
<1> SUFFICES ASSUME TypeInv, UNCHANGED <<agent, ingest>>,
                    StartPlanner \/ PlannerWork \/ PlannerCrash
             PROVE  SharedTypeOK' /\ planner' \in PlannerState /\ BatchLeft'
  BY DEF PlannerStep, TypeInv, TypeCore, TypeOK, GroupHasBatch
<1> USE SharedUnchanged DEF TypeInv, TypeCore, TypeOK
<1>1. CASE PlannerStart
  BY <1>1 DEF PlannerStart, BatchLeft, PlannerState, PlannerPhases, SharedTypeOK, WithStatus
<1>2. CASE PlannerListPending
  <2>1. PICK existing : planner' = [planner EXCEPT
                                      !.keys  = planner.keys \ existing,
                                      !.phase = IF planner.keys \subseteq existing
                                                THEN "inflight" ELSE "update"]
    BY <1>2 DEF PlannerListPending
  <2>2. planner.keys \ existing \subseteq Keys
    BY DEF PlannerState
  <2>3. planner'.phase \in {"inflight", "update"} /\ planner' \in PlannerState
    BY <2>1, <2>2 DEF PlannerState, PlannerPhases
  <2> QED BY <1>2, <2>3 DEF PlannerListPending, BatchLeft
<1>3. CASE PlannerMarkOrphans
  <2>1. /\ DOMAIN fetch_request' = DOMAIN fetch_request
        /\ fetch_request' \in [DOMAIN fetch_request -> Request]
    BY <1>3, SetStatusType DEF PlannerMarkOrphans, SharedTypeOK, Status
  <2>2. planner' \in PlannerState /\ planner'.phase = "inflight"
    BY <1>3 DEF PlannerMarkOrphans, PlannerState, PlannerPhases
  <2> QED BY <1>3, <2>1, <2>2
          DEF PlannerMarkOrphans, SharedTypeOK, BatchLeft, queue, clock
<1>4. CASE PlannerReadInFlight
  <2>1. { KeyInstrument(k) : k \in InFlight } \subseteq Instruments
    BY KeyParts DEF InFlight, WithStatus, SharedTypeOK
  <2>2. planner' \in PlannerState /\ planner'.phase = "plan"
    BY <1>4, <2>1 DEF PlannerReadInFlight, PlannerState, PlannerPhases
  <2> QED BY <1>4, <2>2 DEF PlannerReadInFlight, BatchLeft
<1>5. ASSUME NEW i \in planner.todo, PlannerPlan(i)
      PROVE  SharedTypeOK' /\ planner' \in PlannerState /\ BatchLeft'
  <2>1. i \in Instruments
    BY DEF PlannerState
  <2>2. PICK wm \in WatermarkRead(i) : PlanOutcome(i, wm)
    BY <1>5, PlanEffect
  <2>3. wm \in Watermark /\ today \in Int
    <3>1. NoWatermark \in Watermark
      BY DEF NoWatermark, Watermark
    <3>2. watermark[i] \in Watermark /\ today \in Int
      BY <2>1 DEF SharedTypeOK
    <3>3. wm = watermark[i] \/ wm = NoWatermark
      BY DEF WatermarkRead
    <3> QED BY <3>1, <3>2, <3>3
  <2>4. CASE planner' = [planner EXCEPT !.todo = planner.todo \ {i}]
    BY <1>5, <2>4 DEF PlannerPlan, BatchLeft, PlannerState
  <2>5. CASE planner' = IdlePlanner
    BY <1>5, <2>5 DEF PlannerPlan, BatchLeft, PlannerState, PlannerPhases, IdlePlanner
  <2>6. ASSUME Plan(i, wm, today).mode # "NO_OP",
               planner' = [planner EXCEPT !.todo = planner.todo \ {i}, !.emitted =
                     planner.emitted \cup {[inst |-> i, plan |-> Plan(i, wm, today)]}]
        PROVE  SharedTypeOK' /\ planner' \in PlannerState /\ BatchLeft'
    <3>1. [inst |-> i, plan |-> Plan(i, wm, today)] \in [inst : Instruments, plan : FetchPlan]
      BY <2>1, <2>3, <2>6, PlanType
    <3> QED BY <1>5, <2>6, <3>1 DEF PlannerPlan, BatchLeft, PlannerState
  <2> QED BY <2>2, <2>4, <2>5, <2>6 DEF PlanOutcome
<1>6. CASE PlannerPlanned
  BY <1>6 DEF PlannerPlanned, BatchLeft, PlannerState, PlannerPhases, IdlePlanner, 
              shared, delta
<1>7. CASE PlannerInsert
  <2>1. batches < MaxBatches
    BY <1>7 DEF PlannerInsert, BatchLeft
  <2>2. DOMAIN fetch_request' = DOMAIN fetch_request \cup NewKeys
    BY <1>7 DEF PlannerInsert
  <2>3. ASSUME NEW k \in DOMAIN fetch_request' PROVE fetch_request'[k] \in Request
    BY <1>7, <2>1, <2>3, NewRowType DEF PlannerInsert, SharedTypeOK
  <2>4. fetch_request' = [k \in DOMAIN fetch_request' |-> fetch_request'[k]]
    BY <1>7 DEF PlannerInsert
  <2>5. fetch_request' \in [DOMAIN fetch_request' -> Request]
    BY <2>3, <2>4
  <2>6. DOMAIN fetch_request' \subseteq Keys
    BY <2>1, <2>2, NewKeysType DEF SharedTypeOK
  <2>7. batches' \in 0 .. MaxBatches
    BY <1>7, <2>1, ControlPlaneAssumption DEF PlannerInsert, NextBatch, SharedTypeOK
  <2>8. planner' \in PlannerState /\ planner'.phase = "manifests"
    BY <1>7, <2>1, NewKeysType DEF PlannerInsert, PlannerState, PlannerPhases, IdlePlanner
  <2> QED BY <1>7, <2>5, <2>6, <2>7, <2>8
          DEF PlannerInsert, SharedTypeOK, BatchLeft, queue, clock
<1>8. ASSUME NEW k \in planner.keys, PlannerPutManifest(k)
      PROVE  SharedTypeOK' /\ planner' \in PlannerState /\ BatchLeft'
  <2>1. k \in Keys
    BY DEF PlannerState
  <2>2. planner' \in PlannerState /\ planner'.phase = "manifests"
    BY <1>8 DEF PlannerPutManifest, PlannerState
  <2> QED BY <1>8, <2>1, <2>2 DEF PlannerPutManifest, SharedTypeOK, BatchLeft, delta, clock
<1>9. CASE PlannerFinish
  BY <1>9 DEF PlannerFinish, BatchLeft, PlannerState, PlannerPhases, IdlePlanner
<1>10. CASE PlannerCrash
  BY <1>10, ControlPlaneAssumption
     DEF PlannerCrash, Crash, BatchLeft, PlannerState, PlannerPhases, IdlePlanner,
         SharedTypeOK, delta, queue
<1> QED BY <1>1, <1>2, <1>3, <1>4, <1>5, <1>6, <1>7, <1>8, <1>9, <1>10
        DEF StartPlanner, PlannerWork
-----------------------------------------------------------------------------

LEMMA AgentStepType == TypeInv /\ AgentStep => TypeCore'
<1> SUFFICES ASSUME TypeInv, UNCHANGED <<planner, ingest>>, AgentWork \/ AgentCrash
             PROVE  /\ SharedTypeOK' /\ BatchLeft'
                    /\ agent' \in AgentState /\ agent'.key \subseteq agent'.todo
  BY DEF AgentStep, TypeInv, TypeCore, TypeOK, GroupHasBatch
<1> USE SharedUnchanged DEF TypeInv, TypeCore, TypeOK, BatchLeft
<1> DEFINE AgentOK == agent' \in AgentState /\ agent'.key \subseteq agent'.todo
<1>a. agent.key \subseteq Keys /\ agent.todo \subseteq Keys /\ agent.attempt \in 0 .. MaxAttempts
  BY DEF AgentState
<1>b. 0 \in 0 .. MaxAttempts /\ 1 \in 0 .. MaxAttempts
  BY AgentAssumption
<1>1. CASE AgentPoll
  <2>1. PICK listing \in SUBSET pending :
          agent' = [IdleAgent EXCEPT !.phase = "ready", !.todo = listing]
    BY <1>1 DEF AgentPoll
  <2>2. AgentOK
    <3>1. listing \subseteq Keys
      BY DEF SharedTypeOK
    <3>2. agent' = [phase |-> "ready", todo |-> listing, key |-> {}, attempt |-> 0]
      BY <2>1 DEF IdleAgent
    <3> QED BY <3>1, <3>2, <1>b DEF AgentState, AgentPhases
  <2> QED BY <1>1, <2>2 DEF AgentPoll, shared, delta
<1>2. ASSUME NEW k \in agent.todo, AgentTake(k)
      PROVE  SharedTypeOK' /\ BatchLeft' /\ AgentOK
  <2>1. AgentOK
    <3>1. k \in Keys /\ {k} \subseteq agent.todo
      BY <1>a
    <3>2. agent' \in { [phase |-> "fetch", todo |-> agent.todo, key |-> {k}, attempt |-> 1],
                       [phase |-> "put_failed", todo |-> agent.todo, key |-> {k},
                        attempt |-> agent.attempt] }
      BY <1>2 DEF AgentTake, AgentState
    <3> QED BY <3>1, <3>2, <1>a, <1>b DEF AgentState, AgentPhases
  <2> QED BY <1>2, <2>1 DEF AgentTake, shared, delta
<1>3. CASE AgentLand
  <2>1. AgentOK
    BY <1>3 DEF AgentLand, AgentState, AgentPhases
  <2>2. raw' \subseteq Keys
    BY <1>3, <1>a DEF AgentLand, SharedTypeOK
  <2>3. SharedTypeOK'
    BY <1>3, <2>2 DEF AgentLand, SharedTypeOK, delta, clock
  <2> QED BY <1>3, <2>1, <2>3 DEF AgentLand, delta
<1>4. CASE AgentPutDone
  <2>1. AgentOK
    BY <1>4 DEF AgentPutDone, AgentState, AgentPhases
  <2>2. done' \subseteq Keys
    BY <1>4, <1>a DEF AgentPutDone, SharedTypeOK
  <2>3. SharedTypeOK'
    BY <1>4, <2>2 DEF AgentPutDone, SharedTypeOK, delta, clock
  <2> QED BY <1>4, <2>1, <2>3 DEF AgentPutDone, delta
<1>5. CASE AgentAttemptFails
  <2>1. AgentOK
    <3>1. CASE agent.attempt < MaxAttempts
      <4>1. agent' = [agent EXCEPT !.phase = "fetch", !.attempt = agent.attempt + 1]
        BY <1>5, <3>1 DEF AgentAttemptFails
      <4>2. agent.attempt + 1 \in 0 .. MaxAttempts
        BY <1>a, <3>1, AgentAssumption
      <4> QED BY <4>1, <4>2 DEF AgentState, AgentPhases
    <3>2. CASE ~(agent.attempt < MaxAttempts)
      <4>1. agent' = [agent EXCEPT !.phase = "put_failed"]
        BY <1>5, <3>2 DEF AgentAttemptFails
      <4> QED BY <4>1 DEF AgentState, AgentPhases
    <3> QED BY <3>1, <3>2
  <2>2. pending' \subseteq Keys
    BY <1>5, <1>a DEF AgentAttemptFails, SharedTypeOK
  <2>3. SharedTypeOK'
    BY <1>5, <2>2 DEF AgentAttemptFails, SharedTypeOK, delta, clock
  <2> QED BY <1>5, <2>1, <2>3 DEF AgentAttemptFails, delta
<1>6. CASE AgentPutFailed
  <2>1. AgentOK
    BY <1>6 DEF AgentPutFailed, AgentState, AgentPhases
  <2>2. failed' \subseteq Keys
    BY <1>6, <1>a DEF AgentPutFailed, SharedTypeOK
  <2>3. SharedTypeOK'
    BY <1>6, <2>2 DEF AgentPutFailed, SharedTypeOK, delta, clock
  <2> QED BY <1>6, <2>1, <2>3 DEF AgentPutFailed, delta
<1>7. CASE AgentDeletePending
  <2>1. AgentOK
    <3>1. agent' = [phase |-> "ready", todo |-> agent.todo \ agent.key, key |-> {},
                    attempt |-> 0]
      BY <1>7 DEF AgentDeletePending, AgentState
    <3> QED BY <3>1, <1>a, <1>b DEF AgentState, AgentPhases
  <2>2. pending' \subseteq Keys
    BY <1>7, <1>a DEF AgentDeletePending, SharedTypeOK
  <2>3. SharedTypeOK'
    BY <1>7, <2>2 DEF AgentDeletePending, SharedTypeOK, delta, clock
  <2> QED BY <1>7, <2>1, <2>3 DEF AgentDeletePending, delta
<1>8. CASE AgentCycleEnds
  <2>1. AgentOK
    BY <1>8, <1>b DEF AgentCycleEnds, AgentState, AgentPhases, IdleAgent
  <2> QED BY <1>8, <2>1 DEF AgentCycleEnds, shared, delta
<1>9. CASE AgentCrash
  <2>1. AgentOK
    BY <1>9, <1>b DEF AgentCrash, AgentState, AgentPhases, IdleAgent
  <2> QED BY <1>9, <2>1, ControlPlaneAssumption
          DEF AgentCrash, Crash, SharedTypeOK, delta, queue
<1> QED BY <1>1, <1>2, <1>3, <1>4, <1>5, <1>6, <1>7, <1>8, <1>9 DEF AgentWork

LEMMA EnvironmentStepType == TypeInv /\ EnvironmentStep => TypeCore'
<1> SUFFICES ASSUME TypeInv, UNCHANGED <<planner, agent, ingest>>,
                    NextDay \/ \E i \in Instruments : Suspend(i)
             PROVE  SharedTypeOK' /\ BatchLeft'
  BY DEF EnvironmentStep, TypeInv, TypeCore, TypeOK, GroupHasBatch
<1> USE DEF TypeInv, TypeCore, TypeOK, BatchLeft
<1>1. CASE NextDay
  BY <1>1, ControlPlaneAssumption DEF NextDay, SharedTypeOK, delta, queue
<1>2. ASSUME NEW i \in Instruments, Suspend(i) PROVE SharedTypeOK' /\ BatchLeft'
  BY <1>2 DEF Suspend, SharedTypeOK, Watermark, queue, clock
<1> QED BY <1>1, <1>2
-----------------------------------------------------------------------------
\* The bars of a request are days of its instrument.
LEMMA BarsAreDays ==
    ASSUME NEW k \in Keys
    PROVE  Bars(k) \subseteq Nat
  BY KeyParts, ControlPlaneAssumption DEF Bars

\* Closing a group keeps the bookkeeping of the run well typed.
LEMMA CloseType ==
    ASSUME ingest \in IngestState, NEW i \in Instruments, NEW keys \in SUBSET Keys,
           NEW b \in Batches, NEW days \in SUBSET Int
    PROVE  Close(i, keys, b, days) \in IngestState
<1>1. [inst : {i}, span : Spans(days)] \subseteq [inst : Instruments, span : DateSpan]
  BY DEF Spans, DateSpan
<1>2. NoGroup \in GroupState
  BY DEF NoGroup, GroupState
<1>3. /\ ingest.rows \ keys \subseteq Keys
      /\ ingest.marks \cup keys \subseteq Keys
      /\ ingest.worked \cup {b} \subseteq Batches
      /\ ingest.dates \cup [inst : {i}, span : Spans(days)]
           \subseteq [inst : Instruments, span : DateSpan]
  BY <1>1 DEF IngestState
<1> HIDE DEF Spans
<1> QED BY <1>2, <1>3 DEF Close, IngestState, IngestPhases

\* Closing a group takes its rows off the selection.
LEMMA CloseRows ==
    ASSUME ingest \in IngestState, NEW i, NEW keys, NEW b, NEW days
    PROVE  /\ Close(i, keys, b, days).rows = ingest.rows \ keys
           /\ Close(i, keys, b, days).phase = "groups"
<1>1. Close(i, keys, b, days).rows = ingest.rows \ keys
  BY DEF Close, IngestState
<1>2. Close(i, keys, b, days).phase = "groups"
  BY DEF Close, IngestState
<1> QED BY <1>1, <1>2

\* What opening a group does: it closes the group at once, with the days of
\* its bars or the last end date, or goes on to write it.
GroupBars(i) == UNION { Bars(k) : k \in Group(i) }
GroupGood(i) == GroupBars(i) \ InvalidDays[i]
LastEnd(i) == LET ends == { fetch_request[k].end : k \in Group(i) }
              IN  { e \in ends : \A f \in ends : f <= e }
Opened(i, rep, known, revised) ==
    [inst |-> {i}, keys |-> Group(i), batch |-> KeyBatch(rep), days |-> GroupGood(i),
     new |-> GroupGood(i) \ known, amended |-> revised,
     bad |-> GroupBars(i) \cap InvalidDays[i]]

LEMMA OpenGroupEffect ==
    ASSUME NEW i, IngestOpenGroup(i)
    PROVE  \E rep \in Group(i) :
             \/ ingest' = Close(i, Group(i), KeyBatch(rep), GroupBars(i))
             \/ ingest' = Close(i, Group(i), KeyBatch(rep), LastEnd(i))
             \/ \E known \in IF SkipsDedup(rep) THEN {{}} ELSE KnownDays(i) :
                \E revised \in SUBSET (RevisedDays \cap known \cap GroupGood(i)) :
                  ingest' = [ingest EXCEPT !.phase = "new",
                                           !.group = Opened(i, rep, known, revised)]
  BY Zenon DEF IngestOpenGroup, GroupBars, GroupGood, LastEnd, Opened

\* The rows a group appends are bars.
LEMMA RowsType ==
    ASSUME ingest \in IngestState, ingest.group.batch \in Batches,
           NEW days \in SUBSET Nat
    PROVE  Rows(days) \subseteq Bar
  BY DEF Rows, Bar, IngestState, GroupState

LEMMA WidenedType ==
    ASSUME NEW wm \in Watermark, NEW span \in DateSpan
    PROVE  Widened(wm, span) \in Watermark
  BY DEF Widened, Watermark, DateSpan, Earlier, Later

LEMMA IngestStepType == TypeInv /\ IngestStep => TypeCore'
<1> SUFFICES ASSUME TypeInv, UNCHANGED <<planner, agent>>,
                    StartIngest \/ IngestWork \/ IngestGroupFails \/ IngestCrash
             PROVE  SharedTypeOK' /\ BatchLeft' /\ ingest' \in IngestState /\ GroupHasBatch'
  BY DEF IngestStep, TypeInv, TypeCore, TypeOK
<1> USE DEF TypeInv, TypeCore, TypeOK, BatchLeft
<1> DEFINE Goal == SharedTypeOK' /\ BatchLeft' /\ ingest' \in IngestState /\ GroupHasBatch'
<1>a. IdleIngest \in IngestState /\ NoGroup \in GroupState
  BY DEF IdleIngest, IngestState, IngestPhases, NoGroup, GroupState
\* Steps that leave the shared state alone.
<1>b. UNCHANGED shared => SharedTypeOK' /\ BatchLeft'
  BY SharedUnchanged DEF shared, delta
<1>1. CASE IngestReadFailed
  <2>1. PICK seen \in SUBSET failed : ingest' = [ingest EXCEPT !.phase = "receipts", !.bad = seen]
    BY <1>1 DEF IngestReadFailed, ReceiptReads
  <2>2. seen \subseteq Keys
    BY <2>1 DEF SharedTypeOK
  <2>3. ingest' \in IngestState /\ ingest'.phase = "receipts"
    BY <2>1, <2>2 DEF IngestState, IngestPhases
  <2> QED BY <1>1, <1>b, <2>3 DEF IngestReadFailed, GroupHasBatch
<1>2. CASE IngestReadDone
  <2>1. PICK seen \in SUBSET done :
          ingest' = [ingest EXCEPT !.phase = "merge", !.good = seen, !.bad = ingest.bad \ seen]
    BY <1>2 DEF IngestReadDone, ReceiptReads
  <2>2. seen \subseteq Keys /\ ingest.bad \ seen \subseteq Keys
    BY <2>1 DEF SharedTypeOK, IngestState
  <2>3. ingest' \in IngestState /\ ingest'.phase = "merge"
    BY <2>1, <2>2 DEF IngestState, IngestPhases
  <2> QED BY <1>2, <1>b, <2>3 DEF IngestReadDone, GroupHasBatch
<1>3. CASE IngestMerge
  <2> DEFINE T == SetStatus(fetch_request, ingest.good, {"PENDING"}, "LANDED")
  <2>1. T \in [DOMAIN T -> Request] /\ DOMAIN T = DOMAIN fetch_request
    BY SetStatusType DEF SharedTypeOK, Status
  <2>2. fetch_request' = SetStatus(T, ingest.bad, {"PENDING"}, "FAILED")
    BY <1>3 DEF IngestMerge
  <2> HIDE DEF T
  <2>3. /\ fetch_request' \in [DOMAIN fetch_request -> Request]
        /\ DOMAIN fetch_request' = DOMAIN fetch_request
    BY <2>1, <2>2, SetStatusType DEF Status
  <2>4. SharedTypeOK' /\ BatchLeft'
    BY <1>3, <2>3 DEF IngestMerge, SharedTypeOK, queue, clock
  <2>5. ingest' \in IngestState /\ ingest'.phase = "select"
    BY <1>3, <1>a DEF IngestMerge, IngestState, IngestPhases
  <2> QED BY <2>4, <2>5 DEF GroupHasBatch
<1>4. CASE IngestSelect
  <2>1. WithStatus("LANDED") \subseteq Keys
    BY DEF WithStatus, SharedTypeOK
  <2>2. /\ ingest' \in IngestState
        /\ ingest'.phase \in {"archive", "groups", "idle"}
    BY <1>4, <1>a, <2>1 DEF IngestSelect, IngestState, IngestPhases, IdleIngest
  <2> QED BY <1>4, <1>b, <2>2 DEF IngestSelect, GroupHasBatch
<1>5. ASSUME NEW i \in Instruments, IngestOpenGroup(i) PROVE Goal
  <2>1. Group(i) \subseteq Keys /\ Group(i) \subseteq DOMAIN fetch_request
    BY DEF Group, IngestState, RowsExist
  <2>2. GroupBars(i) \subseteq Nat /\ GroupBars(i) \subseteq Int /\ GroupGood(i) \subseteq Nat
    BY <2>1, BarsAreDays DEF GroupBars, GroupGood
  <2>3. LastEnd(i) \subseteq Int
    BY <2>1 DEF LastEnd, SharedTypeOK, Request
  <2>4. PICK rep \in Group(i) :
          \/ ingest' = Close(i, Group(i), KeyBatch(rep), GroupBars(i))
          \/ ingest' = Close(i, Group(i), KeyBatch(rep), LastEnd(i))
          \/ \E known : \E revised \in SUBSET GroupGood(i) :
               ingest' = [ingest EXCEPT !.phase = "new",
                                        !.group = Opened(i, rep, known, revised)]
    BY <1>5, OpenGroupEffect
  <2>5. KeyBatch(rep) \in Batches
    BY <2>1, KeyParts
  <2>6. CASE \/ ingest' = Close(i, Group(i), KeyBatch(rep), GroupBars(i))
             \/ ingest' = Close(i, Group(i), KeyBatch(rep), LastEnd(i))
    <3>1. ingest' \in IngestState /\ ingest'.phase = "groups"
      BY <2>1, <2>2, <2>3, <2>5, <2>6, CloseType, CloseRows
    <3> QED BY <1>5, <1>b, <3>1 DEF IngestOpenGroup, GroupHasBatch
  <2>7. ASSUME NEW known, NEW revised \in SUBSET GroupGood(i),
               ingest' = [ingest EXCEPT !.phase = "new",
                                        !.group = Opened(i, rep, known, revised)]
        PROVE  Goal
    <3>1. Opened(i, rep, known, revised) \in GroupState
      <4>1. /\ GroupGood(i) \ known \subseteq Nat /\ revised \subseteq Nat
            /\ GroupBars(i) \cap InvalidDays[i] \subseteq Nat
        BY <2>2
      <4>2. KeyBatch(rep) \in Nat
        BY <2>5 DEF Batches
      <4> QED BY <2>1, <2>2, <4>1, <4>2 DEF Opened, GroupState
    <3>2. Opened(i, rep, known, revised).batch \in Batches
      BY <2>5 DEF Opened
    <3>3. /\ ingest' \in IngestState
          /\ ingest'.group = Opened(i, rep, known, revised)
      BY <2>7, <3>1 DEF IngestState, IngestPhases
    <3> QED BY <1>5, <1>b, <3>2, <3>3 DEF IngestOpenGroup, GroupHasBatch
  <2> QED BY <2>4, <2>6, <2>7
<1>6. CASE IngestAppendNew
  <2>1. ingest.group.batch \in Batches /\ ingest.group.new \subseteq Nat
        /\ ingest.group.inst \subseteq Instruments
    BY <1>6 DEF IngestAppendNew, GroupHasBatch, IngestState, GroupState
  <2>2. bronze' \subseteq Bar /\ repeated' \subseteq Instruments \X Nat
    BY <1>6, <2>1, RowsType DEF IngestAppendNew, SharedTypeOK
  <2>3. SharedTypeOK' /\ BatchLeft'
    BY <1>6, <2>2 DEF IngestAppendNew, SharedTypeOK, queue, clock
  <2>4. ingest' \in IngestState /\ ingest'.group = ingest.group
    BY <1>6 DEF IngestAppendNew, IngestState, IngestPhases
  <2> QED BY <2>1, <2>3, <2>4 DEF GroupHasBatch
<1>7. CASE IngestAppendAmended
  <2>1. ingest.group.batch \in Batches /\ ingest.group.amended \subseteq Nat
    BY <1>7 DEF IngestAppendAmended, GroupHasBatch, IngestState, GroupState
  <2>2. bronze' \subseteq Bar
    BY <1>7, <2>1, RowsType DEF IngestAppendAmended, SharedTypeOK
  <2>3. SharedTypeOK' /\ BatchLeft'
    BY <1>7, <2>2 DEF IngestAppendAmended, SharedTypeOK, queue, clock
  <2>4. ingest' \in IngestState /\ ingest'.group = ingest.group
    BY <1>7 DEF IngestAppendAmended, IngestState, IngestPhases
  <2> QED BY <2>1, <2>3, <2>4 DEF GroupHasBatch
<1>8. CASE IngestAppendRejected
  <2>1. /\ ingest.group.batch \in Batches /\ ingest.group.bad \subseteq Nat
        /\ ingest.group.inst \subseteq Instruments /\ ingest.group.keys \subseteq Keys
        /\ ingest.group.days \subseteq Int
    BY <1>8 DEF IngestAppendRejected, GroupHasBatch, IngestState, GroupState
  <2>2. rejected' \subseteq Bar
    BY <1>8, <2>1, RowsType DEF IngestAppendRejected, SharedTypeOK
  <2>3. SharedTypeOK' /\ BatchLeft'
    BY <1>8, <2>2 DEF IngestAppendRejected, SharedTypeOK, queue, clock
  <2>4. PICK i \in ingest.group.inst :
          ingest' = Close(i, ingest.group.keys, ingest.group.batch, ingest.group.days)
    BY <1>8 DEF IngestAppendRejected
  <2>5. ingest' \in IngestState
    BY <2>1, <2>4, CloseType
  <2>6. ingest'.phase = "groups"
    BY <2>4 DEF Close, IngestState
  <2> QED BY <2>3, <2>5, <2>6 DEF GroupHasBatch
<1>9. CASE IngestGroupFails
  <2>1. PICK ks : \/ ingest' = [ingest EXCEPT !.rows = ingest.rows \ ks] /\ ingest.phase = "groups"
                  \/ ingest' = [ingest EXCEPT !.phase = "groups", !.group = NoGroup,
                                              !.rows = ingest.rows \ ks]
    BY <1>9 DEF IngestGroupFails
  <2>2. ingest.rows \ ks \subseteq Keys
    BY DEF IngestState
  <2>3. ingest' \in IngestState /\ ingest'.phase = "groups"
    BY <1>a, <2>1, <2>2 DEF IngestState, IngestPhases
  <2>4. SharedTypeOK' /\ BatchLeft'
    BY <1>9, ControlPlaneAssumption DEF IngestGroupFails, Crash, SharedTypeOK, delta, queue
  <2> QED BY <2>3, <2>4 DEF GroupHasBatch
<1>10. CASE IngestGroupsDone
  <2>1. ingest' \in IngestState /\ ingest'.phase = "flush"
    BY <1>10 DEF IngestGroupsDone, IngestState, IngestPhases
  <2> QED BY <1>10, <1>b, <2>1 DEF IngestGroupsDone, GroupHasBatch
<1>11. CASE IngestFlush
  <2>1. watermark' \in [Instruments -> Watermark]
    <3>1. ASSUME NEW i \in Instruments, \E e \in ingest.dates : e.inst = i
          PROVE  Widened(watermark[i], (CHOOSE e \in ingest.dates : e.inst = i).span) \in Watermark
      <4> DEFINE c == CHOOSE e \in ingest.dates : e.inst = i
      <4>1. c \in ingest.dates
        BY <3>1
      <4>2. c.span \in DateSpan /\ watermark[i] \in Watermark
        BY <4>1 DEF IngestState, SharedTypeOK
      <4> HIDE DEF c
      <4>3. Widened(watermark[i], c.span) \in Watermark
        BY <4>2, WidenedType
      <4> QED BY <4>3 DEF c
    <3>2. \A i \in Instruments : watermark[i] \in Watermark
      BY DEF SharedTypeOK
    <3>3. CASE UNCHANGED watermark
      BY <3>3 DEF SharedTypeOK
    <3>4. CASE watermark' = [i \in Instruments |->
                 IF \E e \in ingest.dates : e.inst = i
                 THEN Widened(watermark[i], (CHOOSE e \in ingest.dates : e.inst = i).span)
                 ELSE watermark[i]]
      BY <3>1, <3>2, <3>4
    <3> QED BY <1>11, <3>3, <3>4 DEF IngestFlush
  <2>2. SharedTypeOK' /\ BatchLeft'
    BY <1>11, <2>1 DEF IngestFlush, SharedTypeOK, queue, clock
  <2>3. ingest' \in IngestState /\ ingest'.phase = "mark"
    BY <1>11 DEF IngestFlush, IngestState, IngestPhases
  <2> QED BY <2>2, <2>3 DEF GroupHasBatch
<1>12. CASE IngestMark
  <2>1. /\ fetch_request' \in [DOMAIN fetch_request -> Request]
        /\ DOMAIN fetch_request' = DOMAIN fetch_request
    BY <1>12, SetStatusType DEF IngestMark, SharedTypeOK, Status
  <2>2. SharedTypeOK' /\ BatchLeft'
    BY <1>12, <2>1 DEF IngestMark, SharedTypeOK, queue, clock
  <2>3. ingest' \in IngestState /\ ingest'.phase = "archive"
    BY <1>12 DEF IngestMark, IngestState, IngestPhases
  <2> QED BY <2>2, <2>3 DEF GroupHasBatch
<1>13. CASE IngestArchive
  <2>1. SharedTypeOK' /\ BatchLeft'
    BY <1>13 DEF IngestArchive, SharedTypeOK, delta, clock
  <2> QED BY <1>13, <1>a, <2>1 DEF IngestArchive, GroupHasBatch, IdleIngest
<1>14. CASE IngestCrash
  <2>1. SharedTypeOK' /\ BatchLeft'
    BY <1>14, ControlPlaneAssumption DEF IngestCrash, Crash, SharedTypeOK, delta, queue
  <2> QED BY <1>14, <1>a, <2>1 DEF IngestCrash, GroupHasBatch, IdleIngest
<1> QED BY <1>1, <1>2, <1>3, <1>4, <1>5, <1>6, <1>7, <1>8, <1>9, <1>10, <1>11, <1>12,
           <1>13, <1>14 DEF StartIngest, IngestWork
-----------------------------------------------------------------------------

\* Only four statements write control.fetch_request.
LEMMA TableWriters ==
    ASSUME [Next]_vars
    PROVE  \/ UNCHANGED fetch_request
           \/ PlannerMarkOrphans \/ PlannerInsert \/ IngestMerge \/ IngestMark
  BY DEF Next, vars, shared, delta, queue, clock,
         PlannerStep, StartPlanner, PlannerStart, PlannerWork, PlannerListPending,
         PlannerReadInFlight, PlannerPlan, PlannerPlanned, PlannerPutManifest,
         PlannerFinish, PlannerCrash,
         AgentStep, AgentWork, AgentPoll, AgentTake, AgentLand, AgentPutDone,
         AgentAttemptFails, AgentPutFailed, AgentDeletePending, AgentCycleEnds, AgentCrash,
         IngestStep, StartIngest, IngestReadFailed, IngestWork, IngestReadDone, IngestSelect,
         IngestOpenGroup, IngestAppendNew, IngestAppendAmended, IngestAppendRejected,
         IngestGroupFails, IngestGroupsDone, IngestFlush, IngestArchive, IngestCrash,
         EnvironmentStep, NextDay, Suspend

\* No row is ever deleted from control.fetch_request.
LEMMA DomainGrows ==
    ASSUME [Next]_vars
    PROVE  DOMAIN fetch_request \subseteq DOMAIN fetch_request'
  BY TableWriters DEF PlannerInsert, PlannerMarkOrphans, IngestMerge, IngestMark, SetStatus

\* The ingestion job's selection is a selection of rows.
LEMMA RowsExistStep ==
    ASSUME TypeInv, [Next]_vars
    PROVE  RowsExist'
<1> DEFINE Shrinks == ingest'.rows \subseteq ingest.rows \/ ingest'.rows \subseteq WithStatus("LANDED")
<1> USE DEF TypeInv, TypeCore, TypeOK, IngestState, IdleIngest
<1>1. ASSUME UNCHANGED ingest PROVE Shrinks
  BY <1>1
<1>2. ASSUME IngestReadFailed \/ IngestReadDone \/ IngestMerge PROVE Shrinks
  BY <1>2 DEF IngestReadFailed, IngestReadDone, IngestMerge
<1>3. ASSUME IngestSelect PROVE Shrinks
  <2>1. CASE ingest' = IdleIngest
    BY <2>1
  <2>2. CASE ingest' = [ingest EXCEPT
                          !.rows  = WithStatus("LANDED"),
                          !.phase = IF WithStatus("LANDED") = {} THEN "archive" ELSE "groups"]
    BY <2>2
  <2> QED BY <1>3, <2>1, <2>2 DEF IngestSelect
<1>4. ASSUME NEW i \in Instruments, IngestOpenGroup(i) PROVE Shrinks
  <2>1. CASE \E b, days : ingest' = Close(i, Group(i), b, days)
    BY <2>1, CloseRows
  <2>2. CASE \E g : ingest' = [ingest EXCEPT !.phase = "new", !.group = g]
    BY <2>2
  <2> QED BY <1>4, <2>1, <2>2, OpenGroupEffect
<1>5. ASSUME IngestAppendNew \/ IngestAppendAmended \/ IngestAppendRejected PROVE Shrinks
  <2>1. CASE IngestAppendNew \/ IngestAppendAmended
    BY <2>1 DEF IngestAppendNew, IngestAppendAmended
  <2>2. CASE IngestAppendRejected
    BY <2>2, CloseRows DEF IngestAppendRejected
  <2> QED BY <1>5, <2>1, <2>2
<1>6. ASSUME IngestGroupFails PROVE Shrinks
  BY <1>6 DEF IngestGroupFails
<1>7. ASSUME IngestGroupsDone \/ IngestFlush \/ IngestMark PROVE Shrinks
  BY <1>7 DEF IngestGroupsDone, IngestFlush, IngestMark
<1>8. ASSUME IngestArchive \/ IngestCrash PROVE Shrinks
  BY <1>8 DEF IngestArchive, IngestCrash
<1>9. Shrinks
  BY <1>1, <1>2, <1>3, <1>4, <1>5, <1>6, <1>7, <1>8
     DEF Next, vars, PlannerStep, AgentStep, EnvironmentStep, IngestStep, StartIngest, IngestWork
<1> QED BY <1>9, DomainGrows DEF RowsExist, TypeInv, WithStatus
-----------------------------------------------------------------------------

LEMMA InitType == Init => TypeInv
<1> SUFFICES ASSUME Init PROVE TypeInv
  OBVIOUS
<1>1. SharedTypeOK
  BY ControlPlaneAssumption
     DEF Init, EmptyTables, SharedTypeOK, NoWatermark, Watermark, Keys, Bar
<1>2. planner \in PlannerState /\ planner.phase = "idle"
  BY DEF Init, IdlePlanner, PlannerState, PlannerPhases
<1>3. agent \in AgentState /\ agent.key \subseteq agent.todo
  BY AgentAssumption DEF Init, IdleAgent, AgentState, AgentPhases
<1>4. ingest \in IngestState /\ ingest.phase = "idle"
  BY DEF Init, IdleIngest, IngestState, IngestPhases, NoGroup, GroupState
<1>5. ingest.rows = {}
  BY DEF Init, IdleIngest
<1> QED BY <1>1, <1>2, <1>3, <1>4, <1>5
        DEF TypeInv, TypeCore, TypeOK, BatchLeft, GroupHasBatch, RowsExist

LEMMA NextType == TypeInv /\ [Next]_vars => TypeInv'
<1>1. CASE UNCHANGED vars
  <2> SUFFICES ASSUME TypeInv PROVE TypeInv'
    OBVIOUS
  <2>1. SharedTypeOK'
    BY <1>1, SharedUnchanged DEF TypeInv, TypeCore, TypeOK, vars
  <2> QED BY <1>1, <2>1
          DEF TypeInv, TypeCore, TypeOK, BatchLeft, GroupHasBatch, RowsExist,
              vars, shared, delta
<1>2. TypeInv /\ Next => TypeCore'
  BY PlannerStepType, AgentStepType, IngestStepType, EnvironmentStepType DEF Next
<1> QED BY <1>1, <1>2, RowsExistStep DEF TypeInv

\* The tables, the queue and the runs in progress are well typed in every
\* reachable state: no step of the planner, the agent or the ingestion job,
\* whatever fails or dies in between, leaves them malformed.
THEOREM PipelineTypeCorrect == Spec => []TypeOK
<1>1. Spec => []TypeInv
  BY InitType, NextType, PTL DEF Spec
<1> QED BY <1>1, PTL DEF TypeInv, TypeCore
-----------------------------------------------------------------------------
(* The queue and the request table.                                        *)

\* Whatever a process holds or finds in the queue has a row.
Tracked == pending \cup done \cup failed \cup raw \cup agent.todo \cup planner.keys
             \subseteq DOMAIN fetch_request

\* A success receipt, in done/ or in the hands of a process, has a payload.
Landed ==
    /\ done \subseteq raw /\ ingest.good \subseteq raw
    /\ agent.phase \in {"put_done", "delete_done"} => agent.key \subseteq raw
    /\ LandedHasPayload

\* A PENDING request the agent has landed, or is about to, is still queued or
\* has its receipt; a manifest is deleted only when its receipt is there or
\* has been consumed.
Awaited(k) == Has(k, "PENDING") => k \in pending \cup done \cup failed

Receipts ==
    /\ \A k \in raw \cup agent.todo : Awaited(k)
    /\ agent.phase = "delete_done" => \A k \in agent.key : Has(k, "PENDING") => k \in done
    /\ agent.phase = "delete_failed" => agent.key \subseteq failed

QueueInv == Tracked /\ Landed /\ Receipts

\* Batch ids count up; while a run plans, the in-flight instruments are among
\* those it read, and it emits for none of them.
BatchInv ==
    /\ \A k \in DOMAIN fetch_request : KeyBatch(k) <= batches
    /\ planner.phase \in {"plan", "insert"} =>
         { KeyInstrument(k) : k \in InFlight } \subseteq planner.busy
    /\ planner.phase \notin {"plan", "insert"} => planner.emitted = {}
    /\ \A e \in planner.emitted : e.inst \notin planner.busy
    /\ OneBatchInFlight
-----------------------------------------------------------------------------
\* What one statement does to the status of the rows in ks.
LEMMA SetStatusEffect ==
    ASSUME NEW T, T \in [DOMAIN T -> Request], NEW ks, NEW from, NEW to, NEW k \in DOMAIN T
    PROVE  /\ k \in DOMAIN SetStatus(T, ks, from, to)
           /\ SetStatus(T, ks, from, to)[k].status =
                IF k \in ks /\ T[k].status \in from THEN to ELSE T[k].status
  BY DEF SetStatus, Request

\* A row that is there already becomes PENDING never, LANDED only from PENDING by
\* a success receipt, INGESTED only from LANDED; the rows a run adds are PENDING.
RowStep(k) ==
    /\ Has(k, "PENDING")' => Has(k, "PENDING")
    /\ Has(k, "LANDED")' => Has(k, "LANDED") \/ (Has(k, "PENDING") /\ k \in ingest.good)
    /\ Has(k, "INGESTED")' => Has(k, "INGESTED") \/ Has(k, "LANDED")

NewRowStep(k) ==
    /\ batches < MaxBatches
    /\ k \in NewKeys /\ PlannerInsert
    /\ k \in DOMAIN fetch_request' /\ fetch_request'[k].status = "PENDING"

LEMMA TableStep ==
    ASSUME TypeInv, [Next]_vars
    PROVE  /\ \A k \in DOMAIN fetch_request : RowStep(k)
           /\ \A k \in DOMAIN fetch_request' \ DOMAIN fetch_request : NewRowStep(k)
<1> DEFINE Old == \A k \in DOMAIN fetch_request : RowStep(k)
           New == \A k \in DOMAIN fetch_request' \ DOMAIN fetch_request : NewRowStep(k)
<1>a. fetch_request \in [DOMAIN fetch_request -> Request]
  BY DEF TypeInv, TypeCore, TypeOK, SharedTypeOK
<1>1. ASSUME UNCHANGED fetch_request PROVE Old /\ New
  BY <1>1 DEF RowStep, Has, WithStatus
<1>2. ASSUME PlannerInsert PROVE Old /\ New
  <2>1. batches < MaxBatches
    BY <1>2 DEF TypeInv, TypeCore, BatchLeft, PlannerInsert
  <2>2. Old
    BY <1>2 DEF PlannerInsert, RowStep, Has, WithStatus
  <2>3. \A k \in NewKeys : NewRow(k).status = "PENDING"
    BY <2>1, NewRowType DEF TypeInv, TypeCore
  <2>4. New
    BY <1>2, <2>1, <2>3 DEF PlannerInsert, NewRowStep
  <2> QED BY <2>2, <2>4
<1>3. ASSUME PlannerMarkOrphans PROVE Old /\ New
  <2>1. fetch_request' = SetStatus(fetch_request, planner.keys, Status, "ORPHANED")
    BY <1>3 DEF PlannerMarkOrphans
  <2>2. DOMAIN fetch_request' = DOMAIN fetch_request
    BY <2>1 DEF SetStatus
  <2>3. ASSUME NEW k \in DOMAIN fetch_request
        PROVE  \/ fetch_request'[k].status = fetch_request[k].status
               \/ fetch_request'[k].status = "ORPHANED"
    BY <1>a, <2>1, SetStatusEffect
  <2> QED BY <2>2, <2>3 DEF RowStep, Has, WithStatus
<1>4. ASSUME IngestMerge PROVE Old /\ New
  <2> DEFINE T == SetStatus(fetch_request, ingest.good, {"PENDING"}, "LANDED")
  <2>1. T \in [DOMAIN T -> Request] /\ DOMAIN T = DOMAIN fetch_request
    BY <1>a, SetStatusType DEF Status
  <2>2. \A k \in DOMAIN fetch_request :
          T[k].status = IF k \in ingest.good /\ fetch_request[k].status \in {"PENDING"}
                        THEN "LANDED" ELSE fetch_request[k].status
    BY <1>a, SetStatusEffect
  <2>3. fetch_request' = SetStatus(T, ingest.bad, {"PENDING"}, "FAILED")
    BY <1>4 DEF IngestMerge
  <2> HIDE DEF T
  <2>4. DOMAIN fetch_request' = DOMAIN fetch_request
    BY <2>1, <2>3 DEF SetStatus
  <2>5. \A k \in DOMAIN fetch_request :
          fetch_request'[k].status = IF k \in ingest.bad /\ T[k].status \in {"PENDING"}
                                     THEN "FAILED" ELSE T[k].status
    BY <2>1, <2>3, SetStatusEffect
  <2> QED BY <2>2, <2>4, <2>5 DEF RowStep, Has, WithStatus
<1>5. ASSUME IngestMark PROVE Old /\ New
  <2>1. fetch_request' = SetStatus(fetch_request, ingest.marks, {"LANDED"}, "INGESTED")
    BY <1>5 DEF IngestMark
  <2>2. DOMAIN fetch_request' = DOMAIN fetch_request
    BY <2>1 DEF SetStatus
  <2>3. \A k \in DOMAIN fetch_request :
          fetch_request'[k].status =
            IF k \in ingest.marks /\ fetch_request[k].status \in {"LANDED"}
            THEN "INGESTED" ELSE fetch_request[k].status
    BY <1>a, <2>1, SetStatusEffect
  <2> QED BY <2>2, <2>3 DEF RowStep, Has, WithStatus
<1> QED BY <1>1, <1>2, <1>3, <1>4, <1>5, TableWriters
-----------------------------------------------------------------------------
(* Steps that leave the queue, the raw zone and the agent alone.           *)

LEMMA QueueFrame ==
    ASSUME TypeInv, QueueInv, [Next]_vars, UNCHANGED <<queue, agent>>,
           planner'.keys \subseteq DOMAIN fetch_request',
           ingest'.good \subseteq ingest.good \cup done
    PROVE  QueueInv'
<1>1. Tracked'
  BY DomainGrows DEF QueueInv, Tracked, queue
<1>2. Landed'
  <2>1. ASSUME NEW k \in (WithStatus("LANDED") \cup WithStatus("INGESTED"))' PROVE k \in raw
    <3>1. k \in DOMAIN fetch_request'
      BY DEF WithStatus
    <3>2. CASE k \in DOMAIN fetch_request
      BY <3>2, TableStep DEF RowStep, Has, QueueInv, Landed, LandedHasPayload
    <3>3. CASE k \notin DOMAIN fetch_request
      BY <3>1, <3>3, TableStep DEF NewRowStep, WithStatus
    <3> QED BY <3>2, <3>3
  <2> QED BY <2>1 DEF QueueInv, Landed, LandedHasPayload, queue
<1>3. Receipts'
  <2>1. \A k \in raw \cup agent.todo : k \in DOMAIN fetch_request
    BY DEF QueueInv, Tracked
  <2>2. agent.key \subseteq agent.todo
    BY DEF TypeInv, TypeCore, TypeOK
  <2> QED BY <2>1, <2>2, TableStep DEF QueueInv, Receipts, Awaited, RowStep, queue
<1> QED BY <1>1, <1>2, <1>3 DEF QueueInv

\* The planner's keys are rows it has read or inserted.
LEMMA PlannerKeysHaveRows ==
    ASSUME TypeInv, QueueInv, PlannerStep
    PROVE  planner'.keys \subseteq DOMAIN fetch_request'
<1> USE DEF TypeInv, TypeCore, TypeOK, PlannerState, IdlePlanner
<1>a. planner.keys \subseteq DOMAIN fetch_request
  BY DEF QueueInv, Tracked
<1>b. DOMAIN fetch_request \subseteq DOMAIN fetch_request'
  BY DomainGrows DEF Next
<1> DEFINE Goal == planner'.keys \subseteq DOMAIN fetch_request'
<1>1. ASSUME PlannerStart PROVE Goal
  BY <1>1, <1>b DEF PlannerStart, WithStatus
<1>2. ASSUME PlannerListPending PROVE Goal
  BY <1>2, <1>a, <1>b DEF PlannerListPending
<1>3. ASSUME PlannerMarkOrphans \/ PlannerReadInFlight PROVE Goal
  BY <1>3 DEF PlannerMarkOrphans, PlannerReadInFlight
<1>4. ASSUME NEW i \in planner.todo, PlannerPlan(i) PROVE Goal
  <2>1. PICK wm \in WatermarkRead(i) : PlanOutcome(i, wm)
    BY <1>4, PlanEffect
  <2>2. planner'.keys = planner.keys \/ planner'.keys = {}
    <3>1. CASE planner' = [planner EXCEPT !.todo = planner.todo \ {i}, !.emitted =
                 planner.emitted \cup {[inst |-> i, plan |-> Plan(i, wm, today)]}]
      BY <3>1
    <3>2. CASE planner' = [planner EXCEPT !.todo = planner.todo \ {i}]
      BY <3>2
    <3>3. CASE planner' = IdlePlanner
      BY <3>3
    <3> QED BY <2>1, <3>1, <3>2, <3>3 DEF PlanOutcome
  <2> QED BY <2>2, <1>a, <1>b
<1>5. ASSUME PlannerPlanned \/ PlannerFinish \/ PlannerCrash PROVE Goal
  BY <1>5, <1>a, <1>b DEF PlannerPlanned, PlannerFinish, PlannerCrash
<1>6. ASSUME PlannerInsert PROVE Goal
  BY <1>6 DEF PlannerInsert
<1>7. ASSUME NEW k \in planner.keys, PlannerPutManifest(k) PROVE Goal
  BY <1>7, <1>a, <1>b DEF PlannerPutManifest
<1> QED BY <1>1, <1>2, <1>3, <1>4, <1>5, <1>6, <1>7
        DEF PlannerStep, StartPlanner, PlannerWork

LEMMA PlannerStepQueue == TypeInv /\ QueueInv /\ PlannerStep => QueueInv'
<1> SUFFICES ASSUME TypeInv, QueueInv, PlannerStep PROVE QueueInv'
  OBVIOUS
<1>1. planner'.keys \subseteq DOMAIN fetch_request'
  BY PlannerKeysHaveRows
<1>2. CASE \E k \in planner.keys : PlannerPutManifest(k)
  <2>1. /\ UNCHANGED <<fetch_request, done, failed, raw>>
        /\ pending \subseteq pending' /\ pending' \subseteq pending \cup planner.keys
    BY <1>2 DEF PlannerPutManifest, delta
  <2>2. UNCHANGED <<agent, ingest>>
    BY DEF PlannerStep
  <2> QED BY <1>1, <2>1, <2>2
          DEF QueueInv, Tracked, Landed, LandedHasPayload, Receipts, Awaited, Has, WithStatus
<1>3. CASE ~ \E k \in planner.keys : PlannerPutManifest(k)
  <2>1. UNCHANGED queue
    BY <1>3 DEF PlannerStep, StartPlanner, PlannerWork, PlannerStart, PlannerListPending,
                PlannerMarkOrphans, PlannerReadInFlight, PlannerPlan, PlannerPlanned,
                PlannerInsert, PlannerFinish, PlannerCrash, shared
  <2>2. UNCHANGED <<agent, ingest>>
    BY DEF PlannerStep
  <2> QED BY <1>1, <2>1, <2>2, QueueFrame DEF Next
<1> QED BY <1>2, <1>3
-----------------------------------------------------------------------------
(* The agent moves manifests about; it never touches a row.                *)

LEMMA AgentStepQueue == TypeInv /\ QueueInv /\ AgentStep => QueueInv'
<1> SUFFICES ASSUME TypeInv, QueueInv, AgentWork \/ AgentCrash, UNCHANGED <<planner, ingest>>
             PROVE  QueueInv'
  BY DEF AgentStep
<1> USE DEF QueueInv, Tracked, Landed, LandedHasPayload, Receipts, Awaited, Has, WithStatus
<1>a. agent \in AgentState /\ agent.key \subseteq agent.todo
  BY DEF TypeInv, TypeCore, TypeOK
<1>b. agent.key \subseteq DOMAIN fetch_request
  BY <1>a
<1>1. CASE AgentPoll
  <2>1. PICK listing \in SUBSET pending :
          agent' = [IdleAgent EXCEPT !.phase = "ready", !.todo = listing]
    BY <1>1 DEF AgentPoll
  <2>2. agent'.todo = listing /\ agent'.phase = "ready"
    BY <2>1 DEF IdleAgent
  <2> QED BY <1>1, <2>2 DEF AgentPoll, shared, delta, queue
<1>2. ASSUME NEW k \in agent.todo, AgentTake(k) PROVE QueueInv'
  <2>1. agent'.todo = agent.todo /\ agent'.phase \in {"fetch", "put_failed"}
    BY <1>2, <1>a DEF AgentTake, AgentState
  <2> QED BY <1>2, <2>1 DEF AgentTake, shared, delta, queue
<1>3. CASE AgentLand
  <2>1. agent'.todo = agent.todo /\ agent'.key = agent.key /\ agent'.phase = "put_done"
    BY <1>3, <1>a DEF AgentLand, AgentState
  <2> QED BY <1>3, <1>a, <1>b, <2>1 DEF AgentLand, delta
<1>4. CASE AgentPutDone
  <2>1. agent'.todo = agent.todo /\ agent'.key = agent.key /\ agent'.phase = "delete_done"
    BY <1>4, <1>a DEF AgentPutDone, AgentState
  <2> QED BY <1>4, <1>a, <1>b, <2>1 DEF AgentPutDone, delta
<1>5. CASE AgentAttemptFails
  <2>1. agent'.todo = agent.todo /\ agent'.phase \in {"fetch", "put_failed"}
    BY <1>5, <1>a DEF AgentAttemptFails, AgentState
  <2>2. CASE UNCHANGED pending
    BY <1>5, <2>1, <2>2 DEF AgentAttemptFails, delta
  <2>3. CASE agent.phase = "delete_done" /\ pending' = pending \ agent.key
    BY <1>5, <2>1, <2>3 DEF AgentAttemptFails, delta
  <2> QED BY <1>5, <2>2, <2>3 DEF AgentAttemptFails
<1>6. CASE AgentPutFailed
  <2>1. agent'.todo = agent.todo /\ agent'.key = agent.key /\ agent'.phase = "delete_failed"
    BY <1>6, <1>a DEF AgentPutFailed, AgentState
  <2> QED BY <1>6, <1>a, <1>b, <2>1 DEF AgentPutFailed, delta
<1>7. CASE AgentDeletePending
  <2>1. agent'.todo = agent.todo \ agent.key /\ agent'.phase = "ready"
    BY <1>7, <1>a DEF AgentDeletePending, AgentState
  <2> QED BY <1>7, <1>a, <2>1 DEF AgentDeletePending, delta
<1>8. CASE AgentCycleEnds \/ AgentCrash
  <2>1. agent' = IdleAgent /\ UNCHANGED <<delta, queue>>
    BY <1>8 DEF AgentCycleEnds, AgentCrash, shared
  <2> QED BY <2>1 DEF IdleAgent, delta, queue
<1> QED BY <1>1, <1>2, <1>3, <1>4, <1>5, <1>6, <1>7, <1>8 DEF AgentWork
-----------------------------------------------------------------------------
(* The ingestion job consumes receipts and purges those it is through with. *)

LEMMA IngestGoodHasReceipts ==
    ASSUME TypeInv, IngestStep
    PROVE  ingest'.good \subseteq ingest.good \cup done
<1> USE DEF IdleIngest
<1>a. ingest \in IngestState
  BY DEF TypeInv, TypeCore, TypeOK
<1> DEFINE Goal == ingest'.good \subseteq ingest.good \cup done
<1>1. ASSUME IngestReadFailed \/ IngestGroupsDone \/ IngestFlush \/ IngestMark
             \/ IngestAppendNew \/ IngestAppendAmended
      PROVE  Goal
  BY <1>1, <1>a DEF IngestReadFailed, IngestGroupsDone, IngestFlush, IngestMark,
                    IngestAppendNew, IngestAppendAmended, IngestState
<1>2. ASSUME IngestReadDone PROVE Goal
  BY <1>2, <1>a DEF IngestReadDone, ReceiptReads, IngestState
<1>3. ASSUME IngestMerge \/ IngestArchive \/ IngestCrash PROVE Goal
  BY <1>3 DEF IngestMerge, IngestArchive, IngestCrash
<1>4. ASSUME IngestSelect PROVE Goal
  <2>1. CASE ingest' = IdleIngest
    BY <2>1
  <2>2. CASE ingest' = [ingest EXCEPT
                          !.rows  = WithStatus("LANDED"),
                          !.phase = IF WithStatus("LANDED") = {} THEN "archive" ELSE "groups"]
    BY <2>2, <1>a DEF IngestState
  <2> QED BY <1>4, <2>1, <2>2 DEF IngestSelect
<1>5. ASSUME NEW i \in Instruments, IngestOpenGroup(i) PROVE Goal
  <2>1. CASE \E ks, b, days : ingest' = Close(i, ks, b, days)
    BY <2>1, <1>a DEF Close, IngestState
  <2>2. CASE \E g : ingest' = [ingest EXCEPT !.phase = "new", !.group = g]
    BY <2>2, <1>a DEF IngestState
  <2> QED BY <1>5, <2>1, <2>2, OpenGroupEffect
<1>6. ASSUME IngestAppendRejected PROVE Goal
  BY <1>6, <1>a DEF IngestAppendRejected, Close, IngestState
<1>7. ASSUME IngestGroupFails PROVE Goal
  BY <1>7, <1>a DEF IngestGroupFails, IngestState
<1> QED BY <1>1, <1>2, <1>3, <1>4, <1>5, <1>6, <1>7
        DEF IngestStep, StartIngest, IngestWork

LEMMA IngestStepQueue == TypeInv /\ QueueInv /\ IngestStep => QueueInv'
<1> SUFFICES ASSUME TypeInv, QueueInv, IngestStep PROVE QueueInv'
  OBVIOUS
<1>1. UNCHANGED <<planner, agent>> /\ planner.keys \subseteq DOMAIN fetch_request'
  BY DomainGrows DEF IngestStep, QueueInv, Tracked, Next
<1>2. ingest'.good \subseteq ingest.good \cup done
  BY IngestGoodHasReceipts
<1>3. CASE IngestArchive
  <2>1. /\ UNCHANGED <<fetch_request, pending, failed, raw>>
        /\ done' \subseteq done
        /\ \A k \in done \ done' : Has(k, "INGESTED")
    BY <1>3 DEF IngestArchive, delta, Has
  <2>2. \A k \in done \ done' : ~Has(k, "PENDING")
    BY <2>1 DEF Has, WithStatus
  <2>3. ingest'.good = {}
    BY <1>3 DEF IngestArchive, IdleIngest
  <2> QED BY <1>1, <2>1, <2>2, <2>3
          DEF QueueInv, Tracked, Landed, LandedHasPayload, Receipts, Awaited, Has, WithStatus
<1>4. CASE ~IngestArchive
  <2>1. UNCHANGED queue
    BY <1>4 DEF IngestStep, StartIngest, IngestReadFailed, IngestWork, IngestReadDone,
                IngestMerge, IngestSelect, IngestOpenGroup, IngestAppendNew,
                IngestAppendAmended, IngestAppendRejected, IngestGroupFails,
                IngestGroupsDone, IngestFlush, IngestMark, IngestCrash, shared
  <2> QED BY <1>1, <1>2, <2>1, QueueFrame DEF Next
<1> QED BY <1>3, <1>4

LEMMA QueueInit == Init => QueueInv
  BY DEF Init, EmptyTables, IdlePlanner, IdleAgent, IdleIngest, QueueInv, Tracked, Landed,
         LandedHasPayload, Receipts, Awaited, Has, WithStatus

LEMMA QueueNext == TypeInv /\ QueueInv /\ [Next]_vars => QueueInv'
<1> SUFFICES ASSUME TypeInv, QueueInv, [Next]_vars PROVE QueueInv'
  OBVIOUS
<1>1. CASE UNCHANGED vars
  BY <1>1 DEF vars, shared, delta, queue, QueueInv, Tracked, Landed, LandedHasPayload,
              Receipts, Awaited, Has, WithStatus
<1>2. CASE EnvironmentStep
  <2>1. UNCHANGED <<fetch_request, queue, planner, agent, ingest>>
    BY <1>2 DEF EnvironmentStep, NextDay, Suspend, delta
  <2> QED BY <2>1 DEF queue, QueueInv, Tracked, Landed, LandedHasPayload,
                      Receipts, Awaited, Has, WithStatus
<1> QED BY <1>1, <1>2, PlannerStepQueue, AgentStepQueue, IngestStepQueue DEF Next

LEMMA QueueInvariant == Spec => [](TypeInv /\ QueueInv)
  BY InitType, NextType, QueueInit, QueueNext, PTL DEF Spec

\* No crash, lost manifest or stale listing ever leaves an object in the queue
\* that control.fetch_request knows nothing of.
THEOREM QueueIsTracked == Spec => []NoUntrackedWork
<1>1. QueueInv => NoUntrackedWork
  BY DEF QueueInv, Tracked, NoUntrackedWork
<1> QED BY <1>1, QueueInvariant, PTL

\* Whatever receipts the ingestion job reads, and however the agent's attempts
\* and crashes interleave with it, LANDED and INGESTED mean a payload exists.
THEOREM LandedMeansPayload == Spec => []LandedHasPayload
<1>1. QueueInv => LandedHasPayload
  BY DEF QueueInv, Landed
<1> QED BY <1>1, QueueInvariant, PTL

\* A landing is never lost track of: while its request is PENDING, its manifest
\* or one of its receipts is there for the next agent cycle or reconcile.
THEOREM LandingIsReconcilable == Spec => []ReceiptNotLost
<1>1. QueueInv => ReceiptNotLost
  BY DEF QueueInv, Receipts, Awaited, ReceiptNotLost, Has
<1> QED BY <1>1, QueueInvariant, PTL
-----------------------------------------------------------------------------
(* One batch in flight per instrument.                                     *)

\* No step but the insert adds rows or unfinished requests.
BatchKept ==
    /\ UNCHANGED batches
    /\ DOMAIN fetch_request' = DOMAIN fetch_request
    /\ InFlight' \subseteq InFlight

LEMMA BatchFrame ==
    ASSUME TypeInv, [Next]_vars, ~PlannerInsert
    PROVE  BatchKept
<1>1. UNCHANGED batches
  BY DEF Next, vars, shared, delta, queue, clock,
         PlannerStep, StartPlanner, PlannerStart, PlannerWork, PlannerListPending,
         PlannerMarkOrphans, PlannerReadInFlight, PlannerPlan, PlannerPlanned,
         PlannerPutManifest, PlannerFinish, PlannerCrash,
         AgentStep, AgentWork, AgentPoll, AgentTake, AgentLand, AgentPutDone,
         AgentAttemptFails, AgentPutFailed, AgentDeletePending, AgentCycleEnds, AgentCrash,
         IngestStep, StartIngest, IngestReadFailed, IngestWork, IngestReadDone, IngestMerge,
         IngestSelect, IngestOpenGroup, IngestAppendNew, IngestAppendAmended,
         IngestAppendRejected, IngestGroupFails, IngestGroupsDone, IngestFlush, IngestMark,
         IngestArchive, IngestCrash, EnvironmentStep, NextDay, Suspend
<1>2. \A k \in DOMAIN fetch_request' : k \in DOMAIN fetch_request
  BY TableStep DEF NewRowStep
<1>3. DOMAIN fetch_request' = DOMAIN fetch_request
  BY <1>2, DomainGrows
<1>4. ASSUME NEW k \in InFlight' PROVE k \in InFlight
  <2>1. CASE Has(k, "PENDING")'
    BY <1>3, <2>1, TableStep DEF RowStep, Has, InFlight, WithStatus
  <2>2. CASE Has(k, "LANDED")'
    BY <1>3, <2>2, TableStep DEF RowStep, Has, InFlight, WithStatus
  <2> QED BY <2>1, <2>2 DEF Has, InFlight
<1> QED BY <1>1, <1>3, <1>4 DEF BatchKept

\* The part of BatchInv that does not concern the plan in progress.
LEMMA BatchFrameInv ==
    ASSUME BatchInv, BatchKept
    PROVE  /\ (\A k \in DOMAIN fetch_request : KeyBatch(k) <= batches)'
           /\ OneBatchInFlight'
           /\ { KeyInstrument(k) : k \in InFlight' } \subseteq { KeyInstrument(k) : k \in InFlight }
  BY DEF BatchInv, BatchKept, OneBatchInFlight

\* A step that keeps or drops the plan in progress keeps BatchInv.
LEMMA BatchSame ==
    ASSUME BatchInv, BatchKept,
           \/ UNCHANGED <<planner>>
           \/ planner'.phase \notin {"plan", "insert"} /\ planner'.emitted = {}
           \/ /\ planner.phase = "plan" /\ planner'.phase \in {"plan", "insert"}
              /\ planner'.busy = planner.busy
              /\ \A e \in planner'.emitted : e \in planner.emitted \/ e.inst \notin planner.busy
    PROVE  BatchInv'
<1>1. /\ (\A k \in DOMAIN fetch_request : KeyBatch(k) <= batches)'
      /\ OneBatchInFlight'
      /\ { KeyInstrument(k) : k \in InFlight' } \subseteq { KeyInstrument(k) : k \in InFlight }
  BY BatchFrameInv
<1>2. /\ { KeyInstrument(k) : k \in InFlight }' = { KeyInstrument(k) : k \in InFlight' }
  OBVIOUS
<1> QED BY <1>1, <1>2 DEF BatchInv

LEMMA PlannerStepBatch == TypeInv /\ BatchInv /\ PlannerStep => BatchInv'
<1> SUFFICES ASSUME TypeInv, BatchInv, PlannerStep PROVE BatchInv'
  OBVIOUS
<1>a. planner \in PlannerState
  BY DEF TypeInv, TypeCore, TypeOK
<1>b. planner.phase \notin {"plan", "insert"} => planner.emitted = {}
  BY DEF BatchInv
<1>1. CASE PlannerInsert
  <2>1. batches < MaxBatches /\ planner.phase = "insert"
    BY <1>1 DEF PlannerInsert, TypeInv, TypeCore, BatchLeft
  <2>2. /\ DOMAIN fetch_request' = DOMAIN fetch_request \cup NewKeys
        /\ \A k \in DOMAIN fetch_request : fetch_request'[k] = fetch_request[k]
        /\ batches' = batches + 1
    BY <1>1 DEF PlannerInsert, NextBatch
  <2>3. planner'.phase = "manifests" /\ planner'.emitted = {}
    BY <1>1 DEF PlannerInsert, IdlePlanner
  <2>4. \A k \in NewKeys : /\ KeyBatch(k) = batches + 1
                           /\ KeyInstrument(k) \notin planner.busy
    BY <2>1, NewKeysType DEF BatchInv, NextBatch, TypeInv, TypeCore
  <2>5. batches \in Int /\ \A k \in DOMAIN fetch_request : KeyBatch(k) \in Int
    BY KeyParts, ControlPlaneAssumption
       DEF TypeInv, TypeCore, TypeOK, SharedTypeOK, Batches
  <2>6. \A k \in DOMAIN fetch_request' : KeyBatch(k) <= batches'
    BY <2>2, <2>4, <2>5 DEF BatchInv
  <2>7. InFlight' \subseteq InFlight \cup NewKeys
    BY <2>2 DEF InFlight, WithStatus
  <2>8. \A k \in InFlight : KeyInstrument(k) \in planner.busy
    BY <2>1 DEF BatchInv
  <2>9. OneBatchInFlight'
    BY <2>4, <2>7, <2>8 DEF BatchInv, OneBatchInFlight
  <2> QED BY <2>3, <2>6, <2>9 DEF BatchInv
<1>2. CASE PlannerReadInFlight
  <2>1. /\ planner'.busy = { KeyInstrument(k) : k \in InFlight }
        /\ planner'.emitted = {} /\ planner'.phase = "plan"
    BY <1>2, <1>a, <1>b DEF PlannerReadInFlight, PlannerState
  <2>2. UNCHANGED <<batches, fetch_request>>
    BY <1>2 DEF PlannerReadInFlight, shared, delta
  <2> QED BY <2>1, <2>2 DEF BatchInv, OneBatchInFlight, InFlight, WithStatus
<1>3. CASE ~PlannerInsert /\ ~PlannerReadInFlight
  <2>1. BatchKept
    BY <1>3, BatchFrame DEF Next
  <2> DEFINE Goal ==
           \/ UNCHANGED <<planner>>
           \/ planner'.phase \notin {"plan", "insert"} /\ planner'.emitted = {}
           \/ /\ planner.phase = "plan" /\ planner'.phase \in {"plan", "insert"}
              /\ planner'.busy = planner.busy
              /\ \A e \in planner'.emitted : e \in planner.emitted \/ e.inst \notin planner.busy
  <2>2. ASSUME PlannerStart \/ PlannerListPending \/ PlannerMarkOrphans PROVE Goal
    BY <2>2, <1>a, <1>b DEF PlannerStart, PlannerListPending, PlannerMarkOrphans, PlannerState
  <2>3. ASSUME NEW i \in planner.todo, PlannerPlan(i) PROVE Goal
    <3>1. PICK wm \in WatermarkRead(i) : PlanOutcome(i, wm)
      BY <2>3, PlanEffect
    <3>2. planner.phase = "plan"
      BY <2>3 DEF PlannerPlan
    <3>3. CASE planner' = [planner EXCEPT !.todo = planner.todo \ {i}]
      BY <3>2, <3>3, <1>a DEF PlannerState
    <3>4. CASE planner' = IdlePlanner
      BY <3>4 DEF IdlePlanner
    <3>5. ASSUME i \notin planner.busy, NEW p,
                 planner' = [planner EXCEPT !.todo = planner.todo \ {i}, !.emitted =
                       planner.emitted \cup {[inst |-> i, plan |-> p]}]
          PROVE  Goal
      <4>1. planner'.emitted = planner.emitted \cup {[inst |-> i, plan |-> p]}
        BY <3>5, <1>a DEF PlannerState
      <4>2. planner'.phase = "plan" /\ planner'.busy = planner.busy
        BY <3>2, <3>5, <1>a DEF PlannerState
      <4> QED BY <3>2, <3>5, <4>1, <4>2
    <3> QED BY <3>1, <3>3, <3>4, <3>5 DEF PlanOutcome
  <2>4. ASSUME PlannerPlanned PROVE Goal
    BY <2>4, <1>a DEF PlannerPlanned, PlannerState, IdlePlanner
  <2>5. ASSUME PlannerFinish \/ PlannerCrash PROVE Goal
    BY <2>5 DEF PlannerFinish, PlannerCrash, IdlePlanner
  <2>6. ASSUME NEW k \in planner.keys, PlannerPutManifest(k) PROVE Goal
    BY <2>6, <1>a, <1>b DEF PlannerPutManifest, PlannerState
  <2>7. Goal
    BY <1>3, <2>2, <2>3, <2>4, <2>5, <2>6 DEF PlannerStep, StartPlanner, PlannerWork
  <2> QED BY <2>1, <2>7, BatchSame
<1> QED BY <1>1, <1>2, <1>3

LEMMA BatchInit == Init => BatchInv
  BY DEF Init, EmptyTables, IdlePlanner, BatchInv, OneBatchInFlight, InFlight, WithStatus

LEMMA BatchNext == TypeInv /\ BatchInv /\ [Next]_vars => BatchInv'
<1> SUFFICES ASSUME TypeInv, BatchInv, [Next]_vars PROVE BatchInv'
  OBVIOUS
<1>1. CASE UNCHANGED planner /\ ~PlannerInsert
  BY <1>1, BatchFrame, BatchSame
<1>2. CASE UNCHANGED vars
  BY <1>2 DEF vars, shared, delta, BatchInv, OneBatchInFlight, InFlight, WithStatus
<1>3. CASE AgentStep \/ IngestStep \/ EnvironmentStep
  <2>1. UNCHANGED planner
    BY <1>3 DEF AgentStep, IngestStep, EnvironmentStep
  <2>2. ~PlannerInsert
    BY <2>1 DEF PlannerInsert, IdlePlanner, TypeInv
  <2> QED BY <1>1, <2>1, <2>2
<1> QED BY <1>2, <1>3, PlannerStepBatch DEF Next

\* An instrument's unfinished requests all stem from one planner run, although
\* the run reads the in-flight set long before it inserts, and the agent and the
\* ingestion job go on in between.
THEOREM NeverDoubleQueued == Spec => []OneBatchInFlight
<1>1. Spec => [](TypeInv /\ BatchInv)
  BY InitType, NextType, BatchInit, BatchNext, PTL DEF Spec
<1>2. BatchInv => OneBatchInFlight
  BY DEF BatchInv
<1> QED BY <1>1, <1>2, PTL
-----------------------------------------------------------------------------
(* The life cycle.                                                         *)

\* One job at a time; until repair is through, the rows it read are PENDING, and
\* so are the rows whose manifests are still to be put.
TurnInv ==
    /\ planner.phase = "idle" \/ ingest.phase = "idle"
    /\ planner.phase \in {"list", "update", "manifests"} =>
         planner.keys \subseteq WithStatus("PENDING")

LEMMA TurnInit == Init => TurnInv
  BY DEF Init, IdlePlanner, TurnInv

\* The keys of a new batch are not in the table.
LEMMA NewKeysAreNew ==
    ASSUME TypeInv, BatchInv, PlannerInsert
    PROVE  NewKeys \cap DOMAIN fetch_request = {}
<1>1. batches < MaxBatches
  BY DEF PlannerInsert, TypeInv, TypeCore, BatchLeft
<1>2. \A k \in NewKeys : KeyBatch(k) = batches + 1
  BY <1>1, NewKeysType DEF NextBatch, TypeInv, TypeCore
<1>3. batches \in Int /\ \A k \in DOMAIN fetch_request : KeyBatch(k) \in Int
  BY KeyParts, ControlPlaneAssumption DEF TypeInv, TypeCore, TypeOK, SharedTypeOK, Batches
<1> QED BY <1>2, <1>3 DEF BatchInv

LEMMA PlannerStepTurn ==
    ASSUME ~JobsOverlap, TypeInv, BatchInv, TurnInv, PlannerStep
    PROVE  TurnInv'
<1>a. planner \in PlannerState
  BY DEF TypeInv, TypeCore, TypeOK
<1>1. UNCHANGED ingest
  BY DEF PlannerStep
<1>2. ingest.phase = "idle"
  BY DEF PlannerStep, StartPlanner, PlannerWork, PlannerListPending, PlannerMarkOrphans,
         PlannerReadInFlight, PlannerPlan, PlannerPlanned, PlannerInsert,
         PlannerPutManifest, PlannerFinish, PlannerCrash, TurnInv
<1> DEFINE Goal == planner'.phase \in {"list", "update", "manifests"} =>
                     planner'.keys \subseteq WithStatus("PENDING")'
<1>3. ASSUME PlannerStart PROVE Goal
  BY <1>3, <1>a DEF PlannerStart, PlannerState, WithStatus, shared, delta
<1>4. ASSUME PlannerListPending PROVE Goal
  BY <1>4, <1>a DEF PlannerListPending, PlannerState, TurnInv, WithStatus, shared, delta
<1>5. ASSUME PlannerMarkOrphans \/ PlannerReadInFlight \/ PlannerPlanned \/ PlannerInsert
             \/ PlannerFinish \/ PlannerCrash
      PROVE  Goal
  <2>1. CASE PlannerMarkOrphans \/ PlannerReadInFlight
    BY <2>1, <1>a DEF PlannerMarkOrphans, PlannerReadInFlight, PlannerState
  <2>2. CASE PlannerPlanned
    BY <2>2, <1>a DEF PlannerPlanned, PlannerState, IdlePlanner
  <2>3. CASE PlannerInsert
    <3>1. planner'.keys = NewKeys
      BY <2>3 DEF PlannerInsert, IdlePlanner
    <3>2. NewKeys \subseteq DOMAIN fetch_request'
      BY <2>3 DEF PlannerInsert
    <3>3. \A k \in NewKeys : fetch_request'[k].status = "PENDING"
      BY <2>3, <3>2, NewKeysAreNew, TableStep DEF NewRowStep, Next
    <3> QED BY <3>1, <3>2, <3>3 DEF WithStatus
  <2>4. CASE PlannerFinish \/ PlannerCrash
    BY <2>4 DEF PlannerFinish, PlannerCrash, IdlePlanner
  <2> QED BY <1>5, <2>1, <2>2, <2>3, <2>4
<1>6. ASSUME NEW i \in planner.todo, PlannerPlan(i) PROVE Goal
  <2>1. PICK wm \in WatermarkRead(i) : PlanOutcome(i, wm)
    BY <1>6, PlanEffect
  <2>2. planner.phase = "plan"
    BY <1>6 DEF PlannerPlan
  <2>3. CASE planner' = [planner EXCEPT !.todo = planner.todo \ {i}]
    BY <2>2, <2>3, <1>a DEF PlannerState
  <2>4. CASE planner' = [planner EXCEPT !.todo = planner.todo \ {i}, !.emitted =
               planner.emitted \cup {[inst |-> i, plan |-> Plan(i, wm, today)]}]
    BY <2>2, <2>4, <1>a DEF PlannerState
  <2>5. CASE planner' = IdlePlanner
    BY <2>5 DEF IdlePlanner
  <2> QED BY <2>1, <2>3, <2>4, <2>5 DEF PlanOutcome
<1>7. ASSUME NEW k \in planner.keys, PlannerPutManifest(k) PROVE Goal
  BY <1>7, <1>a DEF PlannerPutManifest, PlannerState, TurnInv, WithStatus, delta
<1>8. Goal
  BY <1>3, <1>4, <1>5, <1>6, <1>7 DEF PlannerStep, StartPlanner, PlannerWork
<1> QED BY <1>1, <1>2, <1>8 DEF TurnInv

LEMMA IngestStepTurn ==
    ASSUME ~JobsOverlap, TypeInv, TurnInv, IngestStep
    PROVE  TurnInv'
<1>1. UNCHANGED planner
  BY DEF IngestStep
<1>2. planner.phase = "idle"
  BY DEF IngestStep, StartIngest, IngestWork, IngestReadDone, IngestMerge, IngestSelect,
         IngestOpenGroup, IngestAppendNew, IngestAppendAmended, IngestAppendRejected,
         IngestGroupFails, IngestGroupsDone, IngestFlush, IngestMark, IngestArchive,
         IngestCrash, TurnInv
<1> QED BY <1>1, <1>2 DEF TurnInv

LEMMA TurnNext ==
    ASSUME ~JobsOverlap
    PROVE  TypeInv /\ BatchInv /\ TurnInv /\ [Next]_vars => TurnInv'
<1> SUFFICES ASSUME TypeInv, BatchInv, TurnInv, [Next]_vars PROVE TurnInv'
  OBVIOUS
<1>1. CASE UNCHANGED <<fetch_request, planner, ingest>>
  BY <1>1 DEF TurnInv, WithStatus
<1>2. CASE AgentStep
  BY <1>1, <1>2 DEF AgentStep, AgentWork, AgentPoll, AgentTake, AgentLand, AgentPutDone,
                    AgentAttemptFails, AgentPutFailed, AgentDeletePending,
                    AgentCycleEnds, AgentCrash, shared, delta
<1>3. CASE EnvironmentStep \/ UNCHANGED vars
  BY <1>1, <1>3 DEF EnvironmentStep, NextDay, Suspend, vars, shared, delta
<1> QED BY <1>2, <1>3, PlannerStepTurn, IngestStepTurn DEF Next
-----------------------------------------------------------------------------
(* The step mapping.                                                       *)

LEMMA StatusMoves ==
    ASSUME DOMAIN fetch_request' = DOMAIN fetch_request, NEW from, NEW to,
           \A k \in DOMAIN fetch_request :
               fetch_request'[k].status # fetch_request[k].status =>
                   fetch_request[k].status = from /\ fetch_request'[k].status \in to
    PROVE  Lifecycle!Move(from, to)
  BY DEF Lifecycle!Move, StatusOf

\* What a step may do to the statuses, the queue left aside.
StatusStep ==
    \/ \E b \in Batches : Lifecycle!Adds(b)
    \/ Lifecycle!Move("PENDING", {"LANDED", "FAILED"})
    \/ Lifecycle!Move("PENDING", {"ORPHANED"})
    \/ Lifecycle!Move("LANDED", {"INGESTED"})

LEMMA LifecycleStep ==
    ASSUME TypeInv, BatchInv, TurnInv, [Next]_vars
    PROVE  StatusStep \/ UNCHANGED StatusOf
<1>a. fetch_request \in [DOMAIN fetch_request -> Request]
  BY DEF TypeInv, TypeCore, TypeOK, SharedTypeOK
<1>1. CASE UNCHANGED fetch_request
  BY <1>1 DEF StatusOf
<1>2. CASE PlannerMarkOrphans
  <2>1. fetch_request' = SetStatus(fetch_request, planner.keys, Status, "ORPHANED")
    BY <1>2 DEF PlannerMarkOrphans
  <2>2. planner.keys \subseteq WithStatus("PENDING")
    BY <1>2 DEF PlannerMarkOrphans, TurnInv
  <2>3. DOMAIN fetch_request' = DOMAIN fetch_request
    BY <2>1 DEF SetStatus
  <2>4. \A k \in DOMAIN fetch_request :
          fetch_request'[k].status # fetch_request[k].status =>
              fetch_request[k].status = "PENDING" /\ fetch_request'[k].status \in {"ORPHANED"}
    BY <1>a, <2>1, <2>2, SetStatusEffect DEF WithStatus
  <2>5. Lifecycle!Move("PENDING", {"ORPHANED"})
    BY <2>3, <2>4, StatusMoves
  <2> QED BY <2>5 DEF StatusStep
<1>3. CASE IngestMerge
  <2> DEFINE T == SetStatus(fetch_request, ingest.good, {"PENDING"}, "LANDED")
  <2>1. T \in [DOMAIN T -> Request] /\ DOMAIN T = DOMAIN fetch_request
    BY <1>a, SetStatusType DEF Status
  <2>2. \A k \in DOMAIN fetch_request :
          T[k].status = IF k \in ingest.good /\ fetch_request[k].status \in {"PENDING"}
                        THEN "LANDED" ELSE fetch_request[k].status
    BY <1>a, SetStatusEffect
  <2>3. fetch_request' = SetStatus(T, ingest.bad, {"PENDING"}, "FAILED")
    BY <1>3 DEF IngestMerge
  <2> HIDE DEF T
  <2>4. DOMAIN fetch_request' = DOMAIN fetch_request
    BY <2>1, <2>3 DEF SetStatus
  <2>5. \A k \in DOMAIN fetch_request :
          fetch_request'[k].status = IF k \in ingest.bad /\ T[k].status \in {"PENDING"}
                                     THEN "FAILED" ELSE T[k].status
    BY <2>1, <2>3, SetStatusEffect
  <2>6. \A k \in DOMAIN fetch_request :
          fetch_request'[k].status # fetch_request[k].status =>
              /\ fetch_request[k].status = "PENDING"
              /\ fetch_request'[k].status \in {"LANDED", "FAILED"}
    BY <2>2, <2>5
  <2>7. Lifecycle!Move("PENDING", {"LANDED", "FAILED"})
    BY <2>4, <2>6, StatusMoves
  <2> QED BY <2>7 DEF StatusStep
<1>4. CASE IngestMark
  <2>1. fetch_request' = SetStatus(fetch_request, ingest.marks, {"LANDED"}, "INGESTED")
    BY <1>4 DEF IngestMark
  <2>2. DOMAIN fetch_request' = DOMAIN fetch_request
    BY <2>1 DEF SetStatus
  <2>3. \A k \in DOMAIN fetch_request :
          fetch_request'[k].status # fetch_request[k].status =>
              fetch_request[k].status = "LANDED" /\ fetch_request'[k].status \in {"INGESTED"}
    BY <1>a, <2>1, SetStatusEffect
  <2>4. Lifecycle!Move("LANDED", {"INGESTED"})
    BY <2>2, <2>3, StatusMoves
  <2> QED BY <2>4 DEF StatusStep
<1>5. CASE PlannerInsert
  <2>1. batches < MaxBatches /\ planner.phase = "insert"
    BY <1>5 DEF PlannerInsert, TypeInv, TypeCore, BatchLeft
  <2>2. NextBatch \in Batches /\ batches \in Int
    BY <2>1, ControlPlaneAssumption
       DEF NextBatch, Batches, TypeInv, TypeCore, TypeOK, SharedTypeOK
  <2>3. \A k \in DOMAIN fetch_request : k[1] # NextBatch
    <3>1. \A k \in DOMAIN fetch_request : KeyBatch(k) <= batches /\ KeyBatch(k) \in Int
      BY KeyParts DEF BatchInv, TypeInv, TypeCore, TypeOK, SharedTypeOK, Batches
    <3> QED BY <3>1, <2>2 DEF KeyBatch, NextBatch
  <2>4. DOMAIN StatusOf' = DOMAIN fetch_request' /\ DOMAIN StatusOf = DOMAIN fetch_request
    BY DEF StatusOf
  <2>5. DOMAIN fetch_request \subseteq DOMAIN fetch_request'
    BY DomainGrows
  <2>6. \A k \in DOMAIN fetch_request : StatusOf'[k] = StatusOf[k]
    BY <1>5 DEF PlannerInsert, StatusOf
  <2>7. Lifecycle!Queued \subseteq planner.busy
    BY <2>1 DEF Lifecycle!Queued, Lifecycle!Unfinished, StatusOf, BatchInv, InFlight,
                WithStatus, KeyInstrument
  <2>8. ASSUME NEW k \in DOMAIN StatusOf' \ DOMAIN StatusOf
        PROVE  k[1] = NextBatch /\ k[2] \notin Lifecycle!Queued /\ StatusOf'[k] = "PENDING"
    <3>1. k \in NewKeys /\ fetch_request'[k].status = "PENDING"
      BY <2>4, <2>8, TableStep DEF NewRowStep
    <3>2. KeyBatch(k) = NextBatch /\ KeyInstrument(k) \notin planner.busy
      BY <2>1, <3>1, NewKeysType DEF BatchInv, TypeInv, TypeCore
    <3>3. StatusOf'[k] = "PENDING"
      BY <2>4, <2>8, <3>1 DEF StatusOf
    <3> QED BY <2>7, <3>2, <3>3 DEF KeyBatch, KeyInstrument
  <2>9. Lifecycle!Adds(NextBatch)
    BY <2>3, <2>4, <2>5, <2>6, <2>8 DEF Lifecycle!Adds
  <2> QED BY <2>2, <2>9 DEF StatusStep
<1> QED BY <1>1, <1>2, <1>3, <1>4, <1>5, TableWriters

\* INGESTED, FAILED and ORPHANED are terminal, and stay so under every failure,
\* as long as the two jobs take turns.
THEOREM TerminalStatusIsFinal ==
    ASSUME ~JobsOverlap
    PROVE  Spec => TerminalIsFinal
<1> DEFINE Final == \A k \in DOMAIN fetch_request :
             fetch_request[k].status \in {"INGESTED", "FAILED", "ORPHANED"} =>
                 fetch_request'[k].status = fetch_request[k].status
<1>1. TypeInv /\ BatchInv /\ TurnInv /\ [Next]_vars => [Final]_fetch_request
  <2> SUFFICES ASSUME TypeInv, BatchInv, TurnInv, [Next]_vars PROVE Final
    OBVIOUS
  <2>1. CASE UNCHANGED StatusOf
    <3>1. DOMAIN fetch_request' = DOMAIN fetch_request
      BY <2>1 DEF StatusOf
    <3> QED BY <2>1, <3>1 DEF StatusOf
  <2>2. CASE StatusStep
    <3>1. \A k \in DOMAIN fetch_request :
            /\ k \in DOMAIN fetch_request'
            /\ StatusOf[k] = fetch_request[k].status
            /\ StatusOf'[k] = fetch_request'[k].status
      BY DomainGrows DEF StatusOf
    <3>2. DOMAIN StatusOf = DOMAIN fetch_request
      BY DEF StatusOf
    <3> QED BY <2>2, <3>1, <3>2 DEF StatusStep, Lifecycle!Adds, Lifecycle!Move
  <2> QED BY <2>1, <2>2, LifecycleStep
<1>2. TypeInv /\ BatchInv /\ TurnInv /\ [Next]_vars => TurnInv'
  BY TurnNext
<1> QED BY InitType, NextType, BatchInit, BatchNext, TurnInit, <1>1, <1>2, PTL
        DEF Spec, TerminalIsFinal
-----------------------------------------------------------------------------
(* Orphan repair.                                                          *)

\* Between its listing and its update, nobody but the planner itself would put
\* what it is about to mark; the manifests it puts are of rows that are new.
OrphanInv ==
    /\ OrphanNotQueued
    /\ planner.phase = "update" => planner.keys \cap pending = {}
    /\ planner.phase = "manifests" => planner.keys \cap WithStatus("ORPHANED") = {}

\* Only orphan repair makes orphans.
LEMMA OrphansOnlyFromRepair ==
    ASSUME TypeInv, [Next]_vars, ~PlannerMarkOrphans
    PROVE  WithStatus("ORPHANED")' \subseteq WithStatus("ORPHANED")
<1> DEFINE Goal == \A k \in DOMAIN fetch_request :
             fetch_request'[k].status = "ORPHANED" => fetch_request[k].status = "ORPHANED"
<1>a. fetch_request \in [DOMAIN fetch_request -> Request]
  BY DEF TypeInv, TypeCore, TypeOK, SharedTypeOK
<1>1. ASSUME UNCHANGED fetch_request PROVE Goal
  BY <1>1
<1>2. ASSUME PlannerInsert PROVE Goal
  BY <1>2 DEF PlannerInsert
<1>3. ASSUME IngestMerge PROVE Goal
  <2> DEFINE T == SetStatus(fetch_request, ingest.good, {"PENDING"}, "LANDED")
  <2>1. T \in [DOMAIN T -> Request] /\ DOMAIN T = DOMAIN fetch_request
    BY <1>a, SetStatusType DEF Status
  <2>2. \A k \in DOMAIN fetch_request :
          T[k].status = "ORPHANED" => fetch_request[k].status = "ORPHANED"
    BY <1>a, SetStatusEffect
  <2>3. fetch_request' = SetStatus(T, ingest.bad, {"PENDING"}, "FAILED")
    BY <1>3 DEF IngestMerge
  <2> HIDE DEF T
  <2>4. \A k \in DOMAIN fetch_request :
          fetch_request'[k].status = "ORPHANED" => T[k].status = "ORPHANED"
    BY <2>1, <2>3, SetStatusEffect
  <2> QED BY <2>2, <2>4
<1>4. ASSUME IngestMark PROVE Goal
  <2>1. fetch_request' = SetStatus(fetch_request, ingest.marks, {"LANDED"}, "INGESTED")
    BY <1>4 DEF IngestMark
  <2> QED BY <1>a, <2>1, SetStatusEffect
<1>5. Goal
  BY <1>1, <1>2, <1>3, <1>4, TableWriters
<1>6. \A k \in DOMAIN fetch_request' \ DOMAIN fetch_request : fetch_request'[k].status = "PENDING"
  BY TableStep DEF NewRowStep
<1> QED BY <1>5, <1>6 DEF WithStatus

\* Only the planner puts manifests.
LEMMA QueueShrinks ==
    ASSUME AgentStep \/ IngestStep \/ EnvironmentStep \/ UNCHANGED vars
    PROVE  pending' \subseteq pending /\ UNCHANGED planner
  BY DEF vars, shared, delta, queue, clock,
         AgentStep, AgentWork, AgentPoll, AgentTake, AgentLand, AgentPutDone,
         AgentAttemptFails, AgentPutFailed, AgentDeletePending, AgentCycleEnds, AgentCrash,
         IngestStep, StartIngest, IngestReadFailed, IngestWork, IngestReadDone, IngestMerge,
         IngestSelect, IngestOpenGroup, IngestAppendNew, IngestAppendAmended,
         IngestAppendRejected, IngestGroupFails, IngestGroupsDone, IngestFlush, IngestMark,
         IngestArchive, IngestCrash, EnvironmentStep, NextDay, Suspend

LEMMA PlannerStepOrphan ==
    ASSUME "pending_list" \notin Faults, TypeInv, BatchInv, OrphanInv, PlannerStep
    PROVE  OrphanInv'
<1>a. planner \in PlannerState
  BY DEF TypeInv, TypeCore, TypeOK
<1>b. [Next]_vars
  BY DEF Next
<1> DEFINE Quiet == /\ UNCHANGED <<pending, fetch_request>>
                    /\ planner'.phase \notin {"update", "manifests"}
<1>1. ASSUME Quiet PROVE OrphanInv'
  BY <1>1 DEF OrphanInv, OrphanNotQueued, WithStatus
<1>2. CASE PlannerStart \/ PlannerReadInFlight \/ PlannerPlanned \/ PlannerFinish \/ PlannerCrash
  <2>1. UNCHANGED <<pending, fetch_request>>
    BY <1>2 DEF PlannerStart, PlannerReadInFlight, PlannerPlanned, PlannerFinish, PlannerCrash,
                shared, delta, queue
  <2>2. CASE PlannerStart \/ PlannerReadInFlight
    BY <1>1, <1>a, <2>1, <2>2 DEF PlannerStart, PlannerReadInFlight, PlannerState
  <2>3. CASE PlannerPlanned
    BY <1>1, <1>a, <2>1, <2>3 DEF PlannerPlanned, PlannerState, IdlePlanner
  <2>4. CASE PlannerFinish \/ PlannerCrash
    BY <1>1, <2>1, <2>4 DEF PlannerFinish, PlannerCrash, IdlePlanner
  <2> QED BY <1>2, <2>2, <2>3, <2>4
<1>3. CASE PlannerListPending
  <2>1. /\ planner'.keys = planner.keys \ pending
        /\ planner'.phase \in {"inflight", "update"}
    BY <1>3, <1>a DEF PlannerListPending, PlannerState
  <2>2. UNCHANGED <<pending, fetch_request>>
    BY <1>3 DEF PlannerListPending, shared, delta, queue
  <2> QED BY <2>1, <2>2 DEF OrphanInv, OrphanNotQueued, WithStatus
<1>4. CASE PlannerMarkOrphans
  <2>1. /\ fetch_request' = SetStatus(fetch_request, planner.keys, Status, "ORPHANED")
        /\ planner.phase = "update" /\ UNCHANGED pending
    BY <1>4 DEF PlannerMarkOrphans, queue
  <2>2. planner'.phase = "inflight"
    BY <1>4, <1>a DEF PlannerMarkOrphans, PlannerState
  <2>3. fetch_request \in [DOMAIN fetch_request -> Request]
    BY DEF TypeInv, TypeCore, TypeOK, SharedTypeOK
  <2>4. DOMAIN fetch_request' = DOMAIN fetch_request
    BY <2>1 DEF SetStatus
  <2>5. WithStatus("ORPHANED")' \subseteq WithStatus("ORPHANED") \cup planner.keys
    BY <2>1, <2>3, <2>4, SetStatusEffect DEF WithStatus
  <2> QED BY <2>1, <2>2, <2>5 DEF OrphanInv, OrphanNotQueued
<1>5. ASSUME NEW i \in planner.todo, PlannerPlan(i) PROVE OrphanInv'
  <2>1. PICK wm \in WatermarkRead(i) : PlanOutcome(i, wm)
    BY <1>5, PlanEffect
  <2>2. planner.phase = "plan" /\ UNCHANGED <<pending, fetch_request>>
    BY <1>5 DEF PlannerPlan, shared, delta, queue
  <2>3. CASE planner' = [planner EXCEPT !.todo = planner.todo \ {i}]
    BY <1>1, <1>a, <2>2, <2>3 DEF PlannerState
  <2>4. CASE planner' = [planner EXCEPT !.todo = planner.todo \ {i}, !.emitted =
               planner.emitted \cup {[inst |-> i, plan |-> Plan(i, wm, today)]}]
    BY <1>1, <1>a, <2>2, <2>4 DEF PlannerState
  <2>5. CASE planner' = IdlePlanner
    BY <1>1, <2>2, <2>5 DEF IdlePlanner
  <2> QED BY <2>1, <2>3, <2>4, <2>5 DEF PlanOutcome
<1>6. CASE PlannerInsert
  <2>4. NewKeys \cap DOMAIN fetch_request = {}
    BY <1>6, NewKeysAreNew
  <2>5. ~PlannerMarkOrphans
    BY <1>6 DEF PlannerInsert, PlannerMarkOrphans
  <2>6. WithStatus("ORPHANED")' \subseteq WithStatus("ORPHANED")
    BY <1>b, <2>5, OrphansOnlyFromRepair
  <2>7. planner'.phase = "manifests" /\ planner'.keys = NewKeys /\ UNCHANGED pending
    BY <1>6 DEF PlannerInsert, IdlePlanner, queue
  <2> QED BY <2>4, <2>6, <2>7 DEF OrphanInv, OrphanNotQueued, WithStatus
<1>7. ASSUME NEW k \in planner.keys, PlannerPutManifest(k) PROVE OrphanInv'
  <2>1. /\ planner.phase = "manifests" /\ planner'.phase = "manifests"
        /\ planner'.keys \subseteq planner.keys
        /\ pending' \subseteq pending \cup planner.keys /\ UNCHANGED fetch_request
    BY <1>7, <1>a DEF PlannerPutManifest, PlannerState, delta
  <2> QED BY <2>1 DEF OrphanInv, OrphanNotQueued, WithStatus
<1> QED BY <1>2, <1>3, <1>4, <1>5, <1>6, <1>7 DEF PlannerStep, StartPlanner, PlannerWork

LEMMA OrphanNext ==
    ASSUME "pending_list" \notin Faults
    PROVE  TypeInv /\ BatchInv /\ OrphanInv /\ [Next]_vars => OrphanInv'
<1> SUFFICES ASSUME TypeInv, BatchInv, OrphanInv, [Next]_vars PROVE OrphanInv'
  OBVIOUS
<1>1. CASE PlannerStep
  BY <1>1, PlannerStepOrphan
<1>2. CASE AgentStep \/ IngestStep \/ EnvironmentStep \/ UNCHANGED vars
  <2>1. pending' \subseteq pending /\ UNCHANGED planner
    BY <1>2, QueueShrinks
  <2>2. ~PlannerMarkOrphans
    BY <2>1 DEF PlannerMarkOrphans, TypeInv, TypeCore, TypeOK, PlannerState
  <2>3. WithStatus("ORPHANED")' \subseteq WithStatus("ORPHANED")
    BY <2>2, OrphansOnlyFromRepair
  <2> QED BY <2>1, <2>3 DEF OrphanInv, OrphanNotQueued
<1> QED BY <1>1, <1>2 DEF Next

\* As long as a failed listing is not taken for an empty queue, orphan repair
\* never marks a request whose manifest the agent can still find, whoever dies
\* and even with both jobs side by side.
THEOREM RepairSparesTheQueue ==
    ASSUME "pending_list" \notin Faults
    PROVE  Spec => []OrphanNotQueued
<1>1. Init => OrphanInv
  BY DEF Init, EmptyTables, IdlePlanner, OrphanInv, OrphanNotQueued, WithStatus
<1>2. TypeInv /\ BatchInv /\ OrphanInv /\ [Next]_vars => OrphanInv'
  BY OrphanNext
<1>3. OrphanInv => OrphanNotQueued
  BY DEF OrphanInv
<1> QED BY InitType, NextType, BatchInit, BatchNext, <1>1, <1>2, <1>3, PTL DEF Spec
-----------------------------------------------------------------------------
(* Rows and queue together.                                                *)

\* A step that leaves the queue alone.
LEMMA StatusStepIsLifecycle ==
    ASSUME "pending_list" \notin Faults, TypeInv, BatchInv, TurnInv, OrphanInv,
           [Next]_vars, UNCHANGED pending
    PROVE  Lifecycle!LifecycleNext \/ UNCHANGED <<StatusOf, pending>>
<1>1. CASE UNCHANGED StatusOf
  BY <1>1
<1>2. CASE \E b \in Batches : Lifecycle!Adds(b)
  BY <1>2 DEF Lifecycle!Emit, Lifecycle!LifecycleNext
<1>3. CASE Lifecycle!Move("PENDING", {"LANDED", "FAILED"})
  BY <1>3 DEF Lifecycle!Reconcile, Lifecycle!LifecycleNext
<1>4. CASE Lifecycle!Move("LANDED", {"INGESTED"})
  BY <1>4 DEF Lifecycle!Complete, Lifecycle!LifecycleNext
<1>5. CASE Lifecycle!Move("PENDING", {"ORPHANED"})
  <2>1. WithStatus("ORPHANED")' \cap pending = {}
    BY OrphanNext DEF OrphanInv, OrphanNotQueued
  <2>2. /\ DOMAIN StatusOf = DOMAIN fetch_request
        /\ DOMAIN StatusOf' = DOMAIN fetch_request'
    BY DEF StatusOf
  <2>3. \A k \in DOMAIN fetch_request' : StatusOf'[k] = fetch_request'[k].status
    BY DEF StatusOf
  <2>4. ASSUME NEW k \in pending \cap DOMAIN StatusOf, StatusOf'[k] # StatusOf[k] PROVE FALSE
    <3>1. StatusOf'[k] = "ORPHANED" /\ k \in DOMAIN fetch_request'
      BY <1>5, <2>2, <2>4 DEF Lifecycle!Move
    <3> QED BY <2>1, <2>3, <2>4, <3>1 DEF WithStatus
  <2> QED BY <1>5, <2>4 DEF Lifecycle!Repair, Lifecycle!LifecycleNext
<1> QED BY <1>1, <1>2, <1>3, <1>4, <1>5, LifecycleStep DEF StatusStep

LEMMA LifecycleNextStep ==
    ASSUME "pending_list" \notin Faults, TypeInv, BatchInv, TurnInv, OrphanInv, [Next]_vars
    PROVE  Lifecycle!LifecycleNext \/ UNCHANGED <<StatusOf, pending>>
<1>1. ASSUME NEW k \in planner.keys, PlannerPutManifest(k)
      PROVE  Lifecycle!LifecycleNext \/ UNCHANGED <<StatusOf, pending>>
  <2>1. /\ pending' = pending \cup {k} \/ pending' = pending
        /\ UNCHANGED fetch_request /\ k \in WithStatus("PENDING")
    BY <1>1 DEF PlannerPutManifest, TurnInv, delta
  <2>2. k \in DOMAIN StatusOf /\ StatusOf[k] = "PENDING" /\ UNCHANGED StatusOf
    BY <2>1 DEF StatusOf, WithStatus
  <2>3. Lifecycle!Enqueue
    BY <2>1, <2>2 DEF Lifecycle!Enqueue
  <2> QED BY <2>3 DEF Lifecycle!LifecycleNext
<1>2. CASE AgentStep
  <2>1. pending' \subseteq pending
    BY <1>2, QueueShrinks
  <2>2. UNCHANGED StatusOf
    BY <1>2 DEF AgentStep, AgentWork, AgentPoll, AgentTake, AgentLand, AgentPutDone,
                AgentAttemptFails, AgentPutFailed, AgentDeletePending, AgentCycleEnds,
                AgentCrash, shared, delta, StatusOf
  <2> QED BY <2>1, <2>2 DEF Lifecycle!Take, Lifecycle!LifecycleNext
<1>3. CASE ~AgentStep /\ ~ \E k \in planner.keys : PlannerPutManifest(k)
  <2>1. UNCHANGED pending
    BY <1>3 DEF Next, vars, shared, queue,
         PlannerStep, StartPlanner, PlannerStart, PlannerWork, PlannerListPending,
         PlannerMarkOrphans, PlannerReadInFlight, PlannerPlan, PlannerPlanned, PlannerInsert,
         PlannerFinish, PlannerCrash,
         IngestStep, StartIngest, IngestReadFailed, IngestWork, IngestReadDone, IngestMerge,
         IngestSelect, IngestOpenGroup, IngestAppendNew, IngestAppendAmended,
         IngestAppendRejected, IngestGroupFails, IngestGroupsDone, IngestFlush, IngestMark,
         IngestArchive, IngestCrash, EnvironmentStep, NextDay, Suspend
  <2> QED BY <2>1, StatusStepIsLifecycle
<1> QED BY <1>1, <1>2, <1>3

\* The rows of control.fetch_request and the queue go through the documented
\* life cycle and no other: terminal states stay, no state is skipped, a
\* manifest is put only for a PENDING row, none of a row that is given up waits
\* in the queue, and a new batch leaves alone every instrument with unfinished
\* requests.  The pipeline implements RequestLifecycle whenever its two jobs
\* take turns and a failed listing is not taken for an empty queue.
THEOREM PipelineFollowsLifecycle ==
    ASSUME ~JobsOverlap, "pending_list" \notin Faults
    PROVE  Spec => FollowsLifecycle
<1>1. Init => Lifecycle!LifecycleInit
  BY DEF Init, EmptyTables, Lifecycle!LifecycleInit, StatusOf
<1>2. TypeInv /\ BatchInv /\ TurnInv /\ OrphanInv /\ [Next]_vars
        => [Lifecycle!LifecycleNext]_<<StatusOf, pending>>
  BY LifecycleNextStep
<1>3. TypeInv /\ BatchInv /\ TurnInv /\ [Next]_vars => TurnInv'
  BY TurnNext
<1>4. Init => OrphanInv
  BY DEF Init, EmptyTables, IdlePlanner, OrphanInv, OrphanNotQueued, WithStatus
<1>5. TypeInv /\ BatchInv /\ OrphanInv /\ [Next]_vars => OrphanInv'
  BY OrphanNext
<1> QED BY InitType, NextType, BatchInit, BatchNext, TurnInit, <1>1, <1>2, <1>3, <1>4, <1>5, PTL
        DEF Spec, FollowsLifecycle, Lifecycle!LifecycleSpec
-----------------------------------------------------------------------------
(* Bronze.                                                                 *)

\* A load that skips the dedup is one request of its instrument and batch, so
\* that the replay guard speaks of this request and no other.
LoadsAreWhole ==
    \A k, l \in DOMAIN fetch_request :
      SkipsDedup(k) /\ KeyInstrument(k) = KeyInstrument(l) /\ KeyBatch(k) = KeyBatch(l) => k = l

NoneRejected == \A i \in Instruments : VendorDays[i] \cap InvalidDays[i] = {}

Kept(i, d) == \E b \in Batches : <<i, d, b>> \in bronze \cup rejected

Complete(k) == \A d \in Bars(k) : Kept(KeyInstrument(k), d)

\* The selected rows of an instrument are of one batch: they were in flight
\* together.
SelectedTogether ==
    \A k, l \in ingest.rows : KeyInstrument(k) = KeyInstrument(l) => KeyBatch(k) = KeyBatch(l)

\* What is not stored of a group that is being written is still to be appended.
GroupInHand ==
    ingest.phase \in {"new", "amended", "rejected"} =>
      /\ ingest.group.batch <= batches
      /\ \A k \in ingest.group.keys :
           /\ k \in DOMAIN fetch_request
           /\ KeyBatch(k) = ingest.group.batch /\ ingest.group.inst = {KeyInstrument(k)}
           /\ \A d \in Bars(k) :
                Kept(KeyInstrument(k), d) \/ (ingest.phase = "new" /\ d \in ingest.group.new)
      /\ \E k \in ingest.group.keys : TRUE

\* A bar of a batch proves that the batch's one-request load is stored.
GuardSound ==
    /\ \A bar \in bronze : bar[3] <= batches
    /\ \A bar \in bronze : \A k \in DOMAIN fetch_request :
         SkipsDedup(k) /\ KeyInstrument(k) = bar[1] /\ KeyBatch(k) = bar[3] => Complete(k)

StoredInv ==
    /\ IngestedIsComplete
    /\ SelectedTogether
    /\ GroupInHand
    /\ \A k \in ingest.marks : k \in DOMAIN fetch_request /\ Complete(k)
    /\ GuardSound

\* A row keeps its range and its load, so that what it asks for never changes.
LEMMA RowKept ==
    ASSUME TypeInv, [Next]_vars, NEW k \in DOMAIN fetch_request
    PROVE  /\ fetch_request'[k].start = fetch_request[k].start
           /\ fetch_request'[k].end = fetch_request[k].end
           /\ fetch_request'[k].load = fetch_request[k].load
<1>a. fetch_request \in [DOMAIN fetch_request -> Request]
  BY DEF TypeInv, TypeCore, TypeOK, SharedTypeOK
<1>b. ASSUME NEW T, T \in [DOMAIN T -> Request], k \in DOMAIN T, NEW ks, NEW from, NEW to
      PROVE  /\ SetStatus(T, ks, from, to)[k].start = T[k].start
             /\ SetStatus(T, ks, from, to)[k].end = T[k].end
             /\ SetStatus(T, ks, from, to)[k].load = T[k].load
  BY <1>b DEF SetStatus, Request
<1> DEFINE Same == /\ fetch_request'[k].start = fetch_request[k].start
                   /\ fetch_request'[k].end = fetch_request[k].end
                   /\ fetch_request'[k].load = fetch_request[k].load
<1>1. ASSUME UNCHANGED fetch_request PROVE Same
  BY <1>1
<1>2. ASSUME PlannerInsert PROVE Same
  BY <1>2 DEF PlannerInsert
<1>3. ASSUME PlannerMarkOrphans PROVE Same
  BY <1>3, <1>a, <1>b DEF PlannerMarkOrphans
<1>4. ASSUME IngestMerge PROVE Same
  <2> DEFINE T == SetStatus(fetch_request, ingest.good, {"PENDING"}, "LANDED")
  <2>1. T \in [DOMAIN T -> Request] /\ DOMAIN T = DOMAIN fetch_request
    BY <1>a, SetStatusType DEF Status
  <2>2. T[k].start = fetch_request[k].start /\ T[k].end = fetch_request[k].end
        /\ T[k].load = fetch_request[k].load
    BY <1>a, <1>b
  <2>3. fetch_request' = SetStatus(T, ingest.bad, {"PENDING"}, "FAILED")
    BY <1>4 DEF IngestMerge
  <2> HIDE DEF T
  <2>4. /\ fetch_request'[k].start = T[k].start /\ fetch_request'[k].end = T[k].end
        /\ fetch_request'[k].load = T[k].load
    BY <1>b, <2>1, <2>3
  <2> QED BY <2>2, <2>4
<1>5. ASSUME IngestMark PROVE Same
  BY <1>5, <1>a, <1>b DEF IngestMark
<1> QED BY <1>1, <1>2, <1>3, <1>4, <1>5, TableWriters

LEMMA RangeKept ==
    ASSUME TypeInv, [Next]_vars, NEW k \in DOMAIN fetch_request
    PROVE  /\ k \in DOMAIN fetch_request'
           /\ Bars(k)' = Bars(k) /\ SkipsDedup(k)' = SkipsDedup(k)
  BY RowKept, DomainGrows DEF Bars, SkipsDedup

\* Bronze, the rejected table and the table of requests only grow; a row gets
\* INGESTED only by the mark.
LEMMA KeptGrows ==
    ASSUME bronze \subseteq bronze', rejected \subseteq rejected'
    PROVE  \A i, d : Kept(i, d) => Kept(i, d)'
  BY DEF Kept

LEMMA CompleteStays ==
    ASSUME TypeInv, [Next]_vars, bronze \subseteq bronze', rejected \subseteq rejected',
           NEW k \in DOMAIN fetch_request, Complete(k)
    PROVE  Complete(k)'
  BY RangeKept, KeptGrows DEF Complete

LEMMA IngestedByMark ==
    ASSUME TypeInv, [Next]_vars, ~IngestMark
    PROVE  WithStatus("INGESTED")' \subseteq WithStatus("INGESTED")
<1> DEFINE Goal == \A k \in DOMAIN fetch_request :
             fetch_request'[k].status = "INGESTED" => fetch_request[k].status = "INGESTED"
<1>a. fetch_request \in [DOMAIN fetch_request -> Request]
  BY DEF TypeInv, TypeCore, TypeOK, SharedTypeOK
<1>1. ASSUME UNCHANGED fetch_request PROVE Goal
  BY <1>1
<1>2. ASSUME PlannerInsert PROVE Goal
  BY <1>2 DEF PlannerInsert
<1>3. ASSUME PlannerMarkOrphans PROVE Goal
  <2>1. fetch_request' = SetStatus(fetch_request, planner.keys, Status, "ORPHANED")
    BY <1>3 DEF PlannerMarkOrphans
  <2> QED BY <1>a, <2>1, SetStatusEffect
<1>4. ASSUME IngestMerge PROVE Goal
  <2> DEFINE T == SetStatus(fetch_request, ingest.good, {"PENDING"}, "LANDED")
  <2>1. T \in [DOMAIN T -> Request] /\ DOMAIN T = DOMAIN fetch_request
    BY <1>a, SetStatusType DEF Status
  <2>2. \A k \in DOMAIN fetch_request :
          T[k].status = "INGESTED" => fetch_request[k].status = "INGESTED"
    BY <1>a, SetStatusEffect
  <2>3. fetch_request' = SetStatus(T, ingest.bad, {"PENDING"}, "FAILED")
    BY <1>4 DEF IngestMerge
  <2> HIDE DEF T
  <2>4. \A k \in DOMAIN fetch_request :
          fetch_request'[k].status = "INGESTED" => T[k].status = "INGESTED"
    BY <2>1, <2>3, SetStatusEffect
  <2> QED BY <2>2, <2>4
<1>5. Goal
  BY <1>1, <1>2, <1>3, <1>4, TableWriters
<1>6. \A k \in DOMAIN fetch_request' \ DOMAIN fetch_request : fetch_request'[k].status = "PENDING"
  BY TableStep DEF NewRowStep
<1> QED BY <1>5, <1>6 DEF WithStatus

\* A step that neither appends nor marks, and keeps of the run a part.
LEMMA StoredFrame ==
    ASSUME TypeInv, BatchInv, StoredInv, [Next]_vars, ~IngestMark,
           bronze' = bronze, rejected \subseteq rejected',
           SelectedTogether',
           \A k \in ingest'.marks : k \in DOMAIN fetch_request /\ Complete(k)',
           UNCHANGED <<ingest>> \/ GroupInHand'
    PROVE  StoredInv'
<1>a. \A k \in DOMAIN fetch_request : Complete(k) => Complete(k)'
  BY CompleteStays
<1>b. batches \in Int /\ batches' \in Int /\ batches <= batches'
  <2>1. batches \in Int
    BY ControlPlaneAssumption DEF TypeInv, TypeCore, TypeOK, SharedTypeOK
  <2>2. CASE PlannerInsert
    BY <2>1, <2>2 DEF PlannerInsert, NextBatch
  <2>3. CASE ~PlannerInsert
    BY <2>1, <2>3, BatchFrame DEF BatchKept
  <2> QED BY <2>2, <2>3
<1>1. IngestedIsComplete'
  <2>1. WithStatus("INGESTED") \subseteq DOMAIN fetch_request
    BY DEF WithStatus
  <2>2. \A k \in WithStatus("INGESTED") : Complete(k)
    BY DEF StoredInv, IngestedIsComplete, Complete, Kept
  <2>3. \A k \in WithStatus("INGESTED")' : Complete(k)'
    BY <1>a, <2>1, <2>2, IngestedByMark
  <2> QED BY <2>3 DEF IngestedIsComplete, Complete, Kept
<1>2. GroupInHand'
  <2> SUFFICES ASSUME UNCHANGED <<ingest>> PROVE GroupInHand'
    OBVIOUS
  <2>1. \A k \in DOMAIN fetch_request : k \in DOMAIN fetch_request' /\ Bars(k)' = Bars(k)
    BY RangeKept
  <2>2. \A i, d : Kept(i, d) => Kept(i, d)'
    BY KeptGrows
  <2>3. ingest.phase \in {"new", "amended", "rejected"} => ingest.group.batch \in Int
    BY ControlPlaneAssumption DEF TypeInv, TypeCore, GroupHasBatch, Batches
  <2> QED BY <1>b, <2>1, <2>2, <2>3 DEF StoredInv, GroupInHand
<1>3. \A k \in ingest'.marks : k \in DOMAIN fetch_request' /\ Complete(k)'
  BY DomainGrows
<1>4. GuardSound'
  <2>1. \A bar \in bronze : bar[3] \in Int /\ bar[3] <= batches
    BY DEF StoredInv, GuardSound, TypeInv, TypeCore, TypeOK, SharedTypeOK, Bar, Batches
  <2>2. ASSUME NEW bar \in bronze, NEW k \in DOMAIN fetch_request', KeyBatch(k) = bar[3]
        PROVE  k \in DOMAIN fetch_request
    <3>1. CASE PlannerInsert
      <4>1. batches < MaxBatches
        BY <3>1 DEF PlannerInsert, TypeInv, TypeCore, BatchLeft
      <4>2. \A l \in NewKeys : KeyBatch(l) = batches + 1
        BY <4>1, NewKeysType DEF NextBatch, TypeInv, TypeCore
      <4>3. k \notin NewKeys
        BY <1>b, <2>1, <2>2, <4>2
      <4> QED BY <3>1, <4>3 DEF PlannerInsert
    <3>2. CASE ~PlannerInsert
      BY <3>2, BatchFrame DEF BatchKept
    <3> QED BY <3>1, <3>2
  <2>3. \A k \in DOMAIN fetch_request : SkipsDedup(k)' = SkipsDedup(k)
    BY RangeKept
  <2>4. \A bar \in bronze : bar[3] <= batches'
    BY <1>b, <2>1
  <2> QED BY <1>a, <2>2, <2>3, <2>4 DEF StoredInv, GuardSound
<1> QED BY <1>1, <1>2, <1>3, <1>4 DEF StoredInv

\* The planner, the agent and the environment leave Bronze and the run alone.
LEMMA OthersLeaveBronze ==
    ASSUME PlannerStep \/ AgentStep \/ EnvironmentStep \/ UNCHANGED vars
    PROVE  UNCHANGED <<bronze, rejected, ingest>>
  BY DEF vars, shared, delta, queue, clock,
         PlannerStep, StartPlanner, PlannerStart, PlannerWork, PlannerListPending,
         PlannerMarkOrphans, PlannerReadInFlight, PlannerPlan, PlannerPlanned, PlannerInsert,
         PlannerPutManifest, PlannerFinish, PlannerCrash,
         AgentStep, AgentWork, AgentPoll, AgentTake, AgentLand, AgentPutDone,
         AgentAttemptFails, AgentPutFailed, AgentDeletePending, AgentCycleEnds, AgentCrash,
         EnvironmentStep, NextDay, Suspend

\* Steps of the run that hold no group afterwards and mark nothing new.
LEMMA StoredBetween ==
    ASSUME TypeInv, BatchInv, StoredInv, [Next]_vars, ~IngestMark,
           UNCHANGED <<bronze, rejected>>,
           ingest'.phase \notin {"new", "amended", "rejected"},
           ingest'.rows \subseteq ingest.rows \/ ingest'.rows \subseteq InFlight,
           ingest'.marks \subseteq ingest.marks
    PROVE  StoredInv'
<1>1. SelectedTogether'
  BY DEF StoredInv, SelectedTogether, BatchInv, OneBatchInFlight
<1>2. \A k \in ingest'.marks : k \in DOMAIN fetch_request /\ Complete(k)'
  BY CompleteStays DEF StoredInv
<1>3. GroupInHand'
  BY DEF GroupInHand
<1> QED BY <1>1, <1>2, <1>3, StoredFrame

LEMMA OpenGroupCases ==
    ASSUME NEW i, IngestOpenGroup(i)
    PROVE  \E rep \in Group(i) :
             \/ /\ SkipsDedup(rep) /\ TRUE \in GuardAnswers(i, KeyBatch(rep))
                /\ ingest' = Close(i, Group(i), KeyBatch(rep), GroupBars(i))
             \/ /\ GroupBars(i) = {}
                /\ ingest' = Close(i, Group(i), KeyBatch(rep), LastEnd(i))
             \/ \E known \in IF SkipsDedup(rep) THEN {{}} ELSE KnownDays(i) :
                \E revised :
                  ingest' = [ingest EXCEPT !.phase = "new",
                                           !.group = Opened(i, rep, known, revised)]
  BY Zenon DEF IngestOpenGroup, GroupBars, GroupGood, LastEnd, Opened

\* What closing a group does to selection and marks.
LEMMA CloseMarks ==
    ASSUME ingest \in IngestState, NEW i, NEW keys, NEW b, NEW days
    PROVE  /\ Close(i, keys, b, days).rows = ingest.rows \ keys
           /\ Close(i, keys, b, days).marks = ingest.marks \cup keys
           /\ Close(i, keys, b, days).phase = "groups"
<1>1. Close(i, keys, b, days).marks = ingest.marks \cup keys
  BY DEF Close, IngestState
<1> QED BY <1>1, CloseRows

LEMMA OpenGroupStored ==
    ASSUME NoneRejected, LoadsAreWhole, TypeInv, BatchInv, StoredInv,
           NEW i \in Instruments, IngestOpenGroup(i), [Next]_vars
    PROVE  StoredInv'
<1>a. ingest \in IngestState /\ ingest.rows \subseteq DOMAIN fetch_request
  BY DEF TypeInv, TypeCore, TypeOK, RowsExist
<1>b. UNCHANGED <<bronze, rejected, fetch_request, batches>> /\ ingest.phase = "groups" /\ ~IngestMark
  BY DEF IngestOpenGroup, shared, delta, IngestMark
<1>c. \A k \in Group(i) : k \in ingest.rows /\ k \in DOMAIN fetch_request /\ KeyInstrument(k) = i
  BY <1>a DEF Group
<1>d. \A k, l \in Group(i) : KeyBatch(k) = KeyBatch(l)
  BY <1>c DEF StoredInv, SelectedTogether
<1>1. ASSUME NEW b, NEW days, ingest' = Close(i, Group(i), b, days),
             \A k \in Group(i) : Complete(k)
      PROVE  StoredInv'
  <2>1. /\ ingest'.rows \subseteq ingest.rows /\ ingest'.phase = "groups"
        /\ ingest'.marks = ingest.marks \cup Group(i)
    BY <1>1, <1>a, CloseMarks
  <2>2. SelectedTogether'
    BY <2>1 DEF StoredInv, SelectedTogether
  <2>3. \A k \in ingest'.marks : k \in DOMAIN fetch_request /\ Complete(k)
    BY <1>1, <1>c, <2>1 DEF StoredInv
  <2>4. \A k \in ingest'.marks : k \in DOMAIN fetch_request /\ Complete(k)'
    BY <1>b, <2>3, CompleteStays
  <2>5. GroupInHand'
    BY <2>1 DEF GroupInHand
  <2> QED BY <1>b, <2>2, <2>4, <2>5, StoredFrame
<1>2. PICK rep \in Group(i) :
             \/ /\ SkipsDedup(rep) /\ TRUE \in GuardAnswers(i, KeyBatch(rep))
                /\ ingest' = Close(i, Group(i), KeyBatch(rep), GroupBars(i))
             \/ /\ GroupBars(i) = {}
                /\ ingest' = Close(i, Group(i), KeyBatch(rep), LastEnd(i))
             \/ \E known \in IF SkipsDedup(rep) THEN {{}} ELSE KnownDays(i) :
                \E revised :
                  ingest' = [ingest EXCEPT !.phase = "new",
                                           !.group = Opened(i, rep, known, revised)]
  BY OpenGroupCases
<1>3. CASE /\ SkipsDedup(rep) /\ TRUE \in GuardAnswers(i, KeyBatch(rep))
           /\ ingest' = Close(i, Group(i), KeyBatch(rep), GroupBars(i))
  <2>1. \E d \in VendorDays[i] : <<i, d, KeyBatch(rep)>> \in bronze
    BY <1>3 DEF GuardAnswers
  <2>2. PICK bar \in bronze : bar[1] = i /\ bar[3] = KeyBatch(rep)
    BY <2>1
  <2>3. Complete(rep)
    BY <1>3, <1>c, <2>2 DEF StoredInv, GuardSound
  <2>4. \A k \in Group(i) : k = rep
    BY <1>3, <1>c, <1>d DEF LoadsAreWhole
  <2> QED BY <1>1, <1>3, <2>3, <2>4
<1>4. CASE /\ GroupBars(i) = {}
           /\ ingest' = Close(i, Group(i), KeyBatch(rep), LastEnd(i))
  <2>1. \A k \in Group(i) : Bars(k) = {}
    BY <1>4 DEF GroupBars
  <2> QED BY <1>1, <1>4, <2>1 DEF Complete
<1>5. ASSUME NEW known \in IF SkipsDedup(rep) THEN {{}} ELSE KnownDays(i), NEW revised,
             ingest' = [ingest EXCEPT !.phase = "new",
                                      !.group = Opened(i, rep, known, revised)]
      PROVE  StoredInv'
  <2>1. /\ ingest'.rows = ingest.rows /\ ingest'.marks = ingest.marks /\ ingest'.phase = "new"
        /\ ingest'.group = Opened(i, rep, known, revised)
    BY <1>5, <1>a DEF IngestState
  <2>2. known = {} \/ known = Stored(i)
    BY <1>5 DEF KnownDays
  <2>3. ASSUME NEW k \in Group(i), NEW d \in Bars(k)
        PROVE  Kept(i, d) \/ d \in GroupGood(i) \ known
    <3>1. d \in GroupBars(i)
      BY DEF GroupBars
    <3>2. d \in VendorDays[i]
      BY <1>c DEF Bars
    <3>3. d \in GroupGood(i)
      BY <3>1, <3>2 DEF GroupGood, NoneRejected
    <3>4. d \in Stored(i) => Kept(i, d)
      BY DEF Stored, Kept
    <3> QED BY <2>2, <3>3, <3>4
  <2>4. KeyBatch(rep) <= batches
    BY <1>c DEF BatchInv
  <2>5. /\ Opened(i, rep, known, revised).keys = Group(i)
        /\ Opened(i, rep, known, revised).batch = KeyBatch(rep)
        /\ Opened(i, rep, known, revised).inst = {i}
        /\ Opened(i, rep, known, revised).new = GroupGood(i) \ known
    BY DEF Opened
  <2>6. \A k : Bars(k)' = Bars(k)
    BY <1>b DEF Bars
  <2>7. \A d : Kept(i, d)' = Kept(i, d)
    BY <1>b DEF Kept
  <2>8. GroupInHand'
    BY <1>b, <1>c, <1>d, <2>1, <2>3, <2>4, <2>5, <2>6, <2>7 DEF GroupInHand
  <2>9. SelectedTogether'
    BY <2>1 DEF StoredInv, SelectedTogether
  <2>10. \A k \in ingest'.marks : k \in DOMAIN fetch_request /\ Complete(k)'
    BY <1>b, <2>1, CompleteStays DEF StoredInv
  <2> QED BY <1>b, <2>8, <2>9, <2>10, StoredFrame
<1> QED BY <1>2, <1>3, <1>4, <1>5

\* The appends to the main table: with the first of them, what the group brings
\* is stored, and the guard may find its bars.
LEMMA AppendStored ==
    ASSUME LoadsAreWhole, TypeInv, BatchInv, StoredInv, [Next]_vars,
           IngestAppendNew \/ IngestAppendAmended
    PROVE  StoredInv'
<1> DEFINE g == ingest.group
<1>a. ingest \in IngestState /\ g.batch \in Batches
  BY DEF IngestAppendNew, IngestAppendAmended, TypeInv, TypeCore, TypeOK, GroupHasBatch
<1>b. UNCHANGED <<rejected, fetch_request, batches>>
  BY DEF IngestAppendNew, IngestAppendAmended
<1>1. /\ ingest'.phase \in {"amended", "rejected"} /\ ingest'.group = g
      /\ ingest'.rows = ingest.rows /\ ingest'.marks = ingest.marks
  BY <1>a DEF IngestAppendNew, IngestAppendAmended, IngestState
<1>2. PICK days : /\ bronze' = bronze \cup Rows(days)
                  /\ ingest.phase = "new" => days = g.new
  BY DEF IngestAppendNew, IngestAppendAmended
<1>3. \A bar \in Rows(days) : bar[1] \in g.inst /\ bar[3] = g.batch
  BY DEF Rows
<1>4. ingest.phase \in {"new", "amended"}
  BY DEF IngestAppendNew, IngestAppendAmended
<1>5. /\ g.batch <= batches
      /\ \A k \in g.keys : /\ k \in DOMAIN fetch_request
                           /\ KeyBatch(k) = g.batch /\ g.inst = {KeyInstrument(k)}
                           /\ \A d \in Bars(k) : Kept(KeyInstrument(k), d)
                                                  \/ (ingest.phase = "new" /\ d \in g.new)
      /\ \E k \in g.keys : TRUE
  BY <1>4 DEF StoredInv, GroupInHand
<1>6. \A i, d : Kept(i, d) => Kept(i, d)'
  BY <1>b, <1>2, KeptGrows
<1>7. \A k : Bars(k)' = Bars(k) /\ SkipsDedup(k)' = SkipsDedup(k)
  BY <1>b DEF Bars, SkipsDedup
<1>8. ASSUME NEW k \in g.keys PROVE Complete(k)'
  <2>1. ASSUME NEW d \in Bars(k), ingest.phase = "new", d \in g.new
        PROVE  Kept(KeyInstrument(k), d)'
    <3>1. <<KeyInstrument(k), d, g.batch>> \in Rows(days)
      BY <1>2, <1>5, <2>1 DEF Rows
    <3> QED BY <1>2, <1>a, <3>1 DEF Kept
  <2> QED BY <1>5, <1>6, <1>7, <2>1 DEF Complete
<1>9. \A k : Complete(k) => Complete(k)'
  BY <1>6, <1>7 DEF Complete
<1>10. IngestedIsComplete'
  BY <1>b, <1>9 DEF StoredInv, IngestedIsComplete, Complete, Kept, WithStatus
<1>11. SelectedTogether'
  BY <1>1 DEF StoredInv, SelectedTogether
<1>12. GroupInHand'
  BY <1>b, <1>1, <1>5, <1>8 DEF GroupInHand, Complete
<1>13. \A k \in ingest'.marks : k \in DOMAIN fetch_request' /\ Complete(k)'
  BY <1>b, <1>1, <1>9 DEF StoredInv
<1>14. GuardSound'
  <2>1. ASSUME NEW bar \in Rows(days), NEW k \in DOMAIN fetch_request, SkipsDedup(k),
               KeyInstrument(k) = bar[1], KeyBatch(k) = bar[3]
        PROVE  Complete(k)'
    <3>1. PICK l \in g.keys : TRUE
      BY <1>5
    <3>2. l \in DOMAIN fetch_request /\ KeyBatch(l) = g.batch /\ g.inst = {KeyInstrument(l)}
      BY <1>5
    <3>3. KeyBatch(k) = KeyBatch(l) /\ KeyInstrument(k) = KeyInstrument(l)
      BY <1>3, <2>1, <3>2
    <3>4. k = l
      BY <2>1, <3>2, <3>3 DEF LoadsAreWhole
    <3> QED BY <1>8, <3>4
  <2>2. \A bar \in Rows(days) : bar[3] <= batches
    BY <1>3, <1>5
  <2> QED BY <1>b, <1>2, <1>7, <1>9, <2>1, <2>2 DEF StoredInv, GuardSound
<1> QED BY <1>10, <1>11, <1>12, <1>13, <1>14 DEF StoredInv

LEMMA MarkStored ==
    ASSUME TypeInv, BatchInv, StoredInv, [Next]_vars, IngestMark
    PROVE  StoredInv'
<1>a. ingest \in IngestState /\ fetch_request \in [DOMAIN fetch_request -> Request]
  BY DEF TypeInv, TypeCore, TypeOK, SharedTypeOK
<1>b. UNCHANGED <<bronze, rejected, batches>>
  BY DEF IngestMark
<1>1. fetch_request' = SetStatus(fetch_request, ingest.marks, {"LANDED"}, "INGESTED")
  BY DEF IngestMark
<1>2. DOMAIN fetch_request' = DOMAIN fetch_request
  BY <1>1 DEF SetStatus
<1>3. WithStatus("INGESTED")' \subseteq WithStatus("INGESTED") \cup ingest.marks
  BY <1>a, <1>1, <1>2, SetStatusEffect DEF WithStatus
<1>4. ingest'.phase = "archive" /\ ingest'.marks = {} /\ ingest'.rows = ingest.rows
  BY <1>a DEF IngestMark, IngestState
<1>5. \A k \in DOMAIN fetch_request : Complete(k) => Complete(k)'
  BY <1>b, CompleteStays
<1>6. \A k \in WithStatus("INGESTED") : k \in DOMAIN fetch_request /\ Complete(k)
  BY DEF StoredInv, IngestedIsComplete, Complete, Kept, WithStatus
<1>7. \A k \in WithStatus("INGESTED")' : Complete(k)'
  BY <1>3, <1>5, <1>6 DEF StoredInv
<1>8. IngestedIsComplete'
  BY <1>7 DEF IngestedIsComplete, Complete, Kept
<1>9. SelectedTogether' /\ GroupInHand'
  BY <1>4 DEF StoredInv, SelectedTogether, GroupInHand
<1>10. GuardSound'
  BY <1>b, <1>2, <1>5, RangeKept DEF StoredInv, GuardSound
<1> QED BY <1>4, <1>8, <1>9, <1>10 DEF StoredInv

LEMMA IngestStepStored ==
    ASSUME NoneRejected, LoadsAreWhole, TypeInv, BatchInv, StoredInv, IngestStep
    PROVE  StoredInv'
<1>a. ingest \in IngestState /\ [Next]_vars
  BY DEF TypeInv, TypeCore, TypeOK, Next
<1>1. CASE IngestReadFailed \/ IngestReadDone \/ IngestGroupsDone \/ IngestFlush
  <2>1. /\ ingest'.phase \in {"receipts", "merge", "flush", "mark"}
        /\ ingest'.rows = ingest.rows /\ ingest'.marks = ingest.marks
    BY <1>1, <1>a DEF IngestReadFailed, IngestReadDone, IngestGroupsDone, IngestFlush, IngestState
  <2>2. UNCHANGED <<bronze, rejected>>
    BY <1>1 DEF IngestReadFailed, IngestReadDone, IngestGroupsDone, IngestFlush, shared, delta
  <2>3. ~IngestMark
    BY <1>a, <2>1 DEF IngestMark, IngestState
  <2> QED BY <1>a, <2>1, <2>2, <2>3, StoredBetween
<1>2. CASE IngestMerge \/ IngestArchive \/ IngestCrash
  <2>1. ingest'.phase \in {"select", "idle"} /\ ingest'.rows = {} /\ ingest'.marks = {}
    BY <1>2 DEF IngestMerge, IngestArchive, IngestCrash, IdleIngest
  <2>2. UNCHANGED <<bronze, rejected>>
    BY <1>2 DEF IngestMerge, IngestArchive, IngestCrash, delta
  <2>3. ~IngestMark
    BY <1>a, <2>1 DEF IngestMark, IngestState
  <2> QED BY <1>a, <2>1, <2>2, <2>3, StoredBetween
<1>3. CASE IngestSelect
  <2>1. /\ ingest'.phase \in {"archive", "groups", "idle"}
        /\ ingest'.rows = {} \/ ingest'.rows = WithStatus("LANDED")
        /\ ingest'.marks = {} \/ ingest'.marks = ingest.marks
    <3>1. CASE ingest' = IdleIngest
      BY <3>1 DEF IdleIngest
    <3>2. CASE ingest' = [ingest EXCEPT
                            !.rows  = WithStatus("LANDED"),
                            !.phase = IF WithStatus("LANDED") = {} THEN "archive" ELSE "groups"]
      BY <3>2, <1>a DEF IngestState
    <3> QED BY <1>3, <3>1, <3>2 DEF IngestSelect
  <2>2. UNCHANGED <<bronze, rejected>> /\ ~IngestMark
    BY <1>3 DEF IngestSelect, IngestMark, shared, delta
  <2> QED BY <1>a, <2>1, <2>2, StoredBetween DEF InFlight
<1>4. ASSUME NEW i \in Instruments, IngestOpenGroup(i) PROVE StoredInv'
  BY <1>4, <1>a, OpenGroupStored
<1>5. CASE IngestAppendNew \/ IngestAppendAmended
  BY <1>5, <1>a, AppendStored
<1>6. CASE IngestAppendRejected
  <2>1. PICK i \in ingest.group.inst :
          ingest' = Close(i, ingest.group.keys, ingest.group.batch, ingest.group.days)
    BY <1>6 DEF IngestAppendRejected
  <2>2. /\ ingest'.rows \subseteq ingest.rows /\ ingest'.phase = "groups"
        /\ ingest'.marks = ingest.marks \cup ingest.group.keys
    BY <1>a, <2>1, CloseMarks
  <2>3. ingest.phase = "rejected" /\ bronze' = bronze /\ rejected \subseteq rejected'
    BY <1>6 DEF IngestAppendRejected
  <2>4. \A k \in ingest.group.keys : k \in DOMAIN fetch_request /\ Complete(k)
    BY <2>3 DEF StoredInv, GroupInHand, Complete
  <2>5. \A k \in ingest'.marks : k \in DOMAIN fetch_request /\ Complete(k)
    BY <2>2, <2>4 DEF StoredInv
  <2>6. \A k \in ingest'.marks : k \in DOMAIN fetch_request /\ Complete(k)'
    BY <1>a, <2>3, <2>5, CompleteStays
  <2>7. SelectedTogether' /\ GroupInHand'
    BY <2>2 DEF StoredInv, SelectedTogether, GroupInHand
  <2>8. ~IngestMark
    BY <2>3 DEF IngestMark
  <2> QED BY <1>a, <2>3, <2>6, <2>7, <2>8, StoredFrame
<1>7. CASE IngestGroupFails
  <2>1. /\ ingest'.phase = "groups" /\ ingest'.rows \subseteq ingest.rows
        /\ ingest'.marks = ingest.marks
    <3>1. DOMAIN ingest = DOMAIN IdleIngest
      BY <1>a DEF IngestState, IdleIngest
    <3>2. PICK rows \in {ingest.rows \ Group(i) : i \in Instruments} \cup {ingest.rows \ ingest.group.keys} :
            \/ ingest.phase = "groups" /\ ingest' = [ingest EXCEPT !.rows = rows]
            \/ ingest' = [ingest EXCEPT !.phase = "groups", !.group = NoGroup, !.rows = rows]
      BY <1>7 DEF IngestGroupFails
    <3> QED BY <3>1, <3>2 DEF IdleIngest
  <2>2. UNCHANGED <<bronze, rejected>> /\ ~IngestMark
    BY <1>7 DEF IngestGroupFails, IngestMark, delta
  <2> QED BY <1>a, <2>1, <2>2, StoredBetween
<1>8. CASE IngestMark
  BY <1>8, <1>a, MarkStored
<1> QED BY <1>1, <1>2, <1>3, <1>4, <1>5, <1>6, <1>7, <1>8
        DEF IngestStep, StartIngest, IngestWork

LEMMA StoredNext ==
    ASSUME NoneRejected
    PROVE  LoadsAreWhole /\ TypeInv /\ BatchInv /\ StoredInv /\ [Next]_vars => StoredInv'
<1> SUFFICES ASSUME LoadsAreWhole, TypeInv, BatchInv, StoredInv, [Next]_vars PROVE StoredInv'
  OBVIOUS
<1>1. CASE PlannerStep \/ AgentStep \/ EnvironmentStep \/ UNCHANGED vars
  <2>1. UNCHANGED <<bronze, rejected, ingest>>
    BY <1>1, OthersLeaveBronze
  <2>2. ~IngestMark
    BY <2>1 DEF IngestMark, TypeInv, TypeCore, TypeOK, IngestState
  <2>3. SelectedTogether'
    BY <2>1 DEF StoredInv, SelectedTogether
  <2>4. \A k \in ingest'.marks : k \in DOMAIN fetch_request /\ Complete(k)'
    BY <2>1, CompleteStays DEF StoredInv
  <2> QED BY <2>1, <2>2, <2>3, <2>4, StoredFrame
<1>2. CASE IngestStep
  BY <1>2, IngestStepStored
<1> QED BY <1>1, <1>2 DEF Next

LEMMA StoredInit == Init => StoredInv
  BY DEF Init, EmptyTables, IdleIngest, StoredInv, IngestedIsComplete, SelectedTogether,
         GroupInHand, GuardSound, WithStatus

\* A request that is INGESTED has each of its bars in Bronze, whatever dies or
\* fails and with both jobs side by side, unless a load without dedup is split
\* into several requests or has rejected bars: the replay guard is right about
\* loads that one append stores in full, and ChunkSkipped shows it wrong else.
THEOREM IngestedIsStored ==
    ASSUME NoneRejected
    PROVE  Spec /\ []LoadsAreWhole => []IngestedIsComplete
<1>1. StoredInv => IngestedIsComplete
  BY DEF StoredInv
<1>2. LoadsAreWhole /\ TypeInv /\ BatchInv /\ StoredInv /\ [Next]_vars => StoredInv'
  BY StoredNext
<1> QED BY InitType, NextType, BatchInit, BatchNext, StoredInit, <1>1, <1>2, PTL DEF Spec
-----------------------------------------------------------------------------
(* The watermark.                                                          *)

\* Without a history start the lookback counts back from today, past day 0,
\* where NoWatermark is: the dates of the theorem start at 0.
HistoriesStart == \A i \in Instruments : HistoryStart[i] # NoDate

\* Nothing that is planned, asked for, buffered or stored ends before day 0.
DatesInv ==
    /\ \A i \in Instruments : watermark[i] # NoWatermark =>
         watermark[i].earliest >= 0 /\ watermark[i].latest >= 0
    /\ \A e \in planner.emitted : e.plan.start >= 0 /\ e.plan.end >= 0
    /\ \A k \in DOMAIN fetch_request : fetch_request[k].end >= 0
    /\ \A e \in ingest.dates : e.span.earliest >= 0 /\ e.span.latest >= 0

LEMMA PlanDates ==
    ASSUME HistoriesStart, NEW i \in Instruments, NEW wm \in Watermark, NEW day \in Nat,
           wm # NoWatermark => wm.earliest >= 0 /\ wm.latest >= 0,
           Plan(i, wm, day).mode # "NO_OP"
    PROVE  Plan(i, wm, day).start >= 0 /\ Plan(i, wm, day).end >= 0
<1>1. InitialStart(i, day) \in Nat
  BY PlanningAssumption DEF HistoriesStart, InitialStart
<1>2. wm # NoWatermark => Later(wm.latest - BufferDays, wm.earliest) \in Nat
  BY PlanningAssumption DEF Later, Watermark
<1> QED BY <1>1, <1>2, PlanningAssumption DEF Plan, Watermark, Range

LEMMA RowDates ==
    ASSUME NEW p \in FetchPlan, p.start >= 0, p.end >= 0, NEW s \in Nat \ {0}
    PROVE  BuiltRow(p, s).end >= 0
<1> DEFINE size == ChunkDays(p.mode)
<1>1. size \in Nat /\ size >= 1
  BY PlanningAssumption DEF ChunkDays
<1>2. (s - 1) * size \in Nat
  <2> HIDE DEF size
  <2>1. \A m, n \in Nat : m * n \in Nat
    OBVIOUS
  <2>2. s - 1 \in Nat
    OBVIOUS
  <2> QED BY <1>1, <2>1, <2>2
<1>3. p.start \in Nat /\ p.end \in Nat
  BY DEF FetchPlan
<1>4. ChunkStart(p.start, size, s) \in Nat
  <2> HIDE DEF size
  <2> QED BY <1>2, <1>3 DEF ChunkStart
<1>5. ChunkEnd(p.start, p.end, size, s) >= 0
  <2> HIDE DEF size
  <2> QED BY <1>1, <1>3, <1>4 DEF ChunkEnd, Earlier
<1> QED BY <1>5 DEF BuiltRow

\* A step leaves a watermark as it is, or with both its dates from day 0 on.
WidenedOrKept(i) ==
    \/ watermark'[i] = watermark[i]
    \/ (watermark'[i].earliest >= 0 /\ watermark'[i].latest >= 0)

\* A step of one of the four writers at a time.
LEMMA DatesSame ==
    ASSUME TypeInv, [Next]_vars, DatesInv, ~PlannerInsert,
           \A i \in Instruments : WidenedOrKept(i),
           \A e \in planner'.emitted : e \in planner.emitted \/ (e.plan.start >= 0 /\ e.plan.end >= 0),
           \A e \in ingest'.dates : e \in ingest.dates \/ (e.span.earliest >= 0 /\ e.span.latest >= 0)
    PROVE  DatesInv'
<1>1. DOMAIN fetch_request' = DOMAIN fetch_request
  BY BatchFrame DEF BatchKept
<1>2. \A k \in DOMAIN fetch_request : fetch_request'[k].end = fetch_request[k].end
  BY RowKept
<1>3. \A i \in Instruments : watermark'[i] # NoWatermark =>
         watermark'[i].earliest >= 0 /\ watermark'[i].latest >= 0
  BY DEF DatesInv, WidenedOrKept
<1>4. NoWatermark' = NoWatermark
  BY DEF NoWatermark
<1> QED BY <1>1, <1>2, <1>3, <1>4 DEF DatesInv

LEMMA PlannerStepDates ==
    ASSUME HistoriesStart, TypeInv, DatesInv, PlannerStep
    PROVE  DatesInv'
<1>a. planner \in PlannerState /\ [Next]_vars
  BY DEF TypeInv, TypeCore, TypeOK, Next
<1>b. UNCHANGED <<watermark, ingest>>
  BY DEF PlannerStep, StartPlanner, PlannerWork, PlannerStart, PlannerListPending,
         PlannerMarkOrphans, PlannerReadInFlight, PlannerPlan, PlannerPlanned, PlannerInsert,
         PlannerPutManifest, PlannerFinish, PlannerCrash, shared, delta
<1>1. CASE PlannerInsert
  <2>1. batches < MaxBatches
    BY <1>1 DEF PlannerInsert, TypeInv, TypeCore, BatchLeft
  <2>2. ASSUME NEW k \in NewKeys PROVE NewRow(k).end >= 0
    <3> DEFINE e == CHOOSE e \in planner.emitted : e.inst = KeyInstrument(k)
    <3>1. e \in planner.emitted
      BY <2>1, NewKeysType DEF TypeInv, TypeCore
    <3>2. e.plan \in FetchPlan /\ e.plan.start >= 0 /\ e.plan.end >= 0
      BY <1>a, <3>1 DEF DatesInv, PlannerState
    <3>3. KeySeq(k) \in Nat \ {0}
      BY <2>1, NewKeysType, KeyParts DEF TypeInv, TypeCore
    <3>4. NewRow(k) = BuiltRow(e.plan, KeySeq(k))
      BY DEF NewRow
    <3> HIDE DEF e
    <3> QED BY <3>2, <3>3, <3>4, RowDates
  <2>3. /\ DOMAIN fetch_request' = DOMAIN fetch_request \cup NewKeys
        /\ \A k \in DOMAIN fetch_request : fetch_request'[k] = fetch_request[k]
        /\ \A k \in NewKeys \ DOMAIN fetch_request : fetch_request'[k] = NewRow(k)
    BY <1>1 DEF PlannerInsert
  <2>4. planner'.emitted = {}
    BY <1>1 DEF PlannerInsert, IdlePlanner
  <2> QED BY <1>b, <2>2, <2>3, <2>4 DEF DatesInv, NoWatermark
<1> DEFINE Goal == \A e \in planner'.emitted :
             e \in planner.emitted \/ (e.plan.start >= 0 /\ e.plan.end >= 0)
<1>2. ASSUME PlannerStart \/ PlannerListPending \/ PlannerMarkOrphans \/ PlannerReadInFlight
      PROVE  Goal
  BY <1>2, <1>a DEF PlannerStart, PlannerListPending, PlannerMarkOrphans, PlannerReadInFlight,
                    PlannerState
<1>3. ASSUME NEW i \in planner.todo, PlannerPlan(i) PROVE Goal
  <2>1. PICK wm \in WatermarkRead(i) : PlanOutcome(i, wm)
    BY <1>3, PlanEffect
  <2>2. i \in Instruments /\ watermark[i] \in Watermark /\ NoWatermark \in Watermark /\ today \in Nat
    BY <1>a, ControlPlaneAssumption
       DEF PlannerState, TypeInv, TypeCore, TypeOK, SharedTypeOK, NoWatermark, Watermark
  <2>3. wm \in {watermark[i], NoWatermark}
    BY DEF WatermarkRead
  <2>4. wm \in Watermark /\ (wm # NoWatermark => wm.earliest >= 0 /\ wm.latest >= 0)
    BY <2>2, <2>3 DEF DatesInv
  <2>5. CASE planner' = [planner EXCEPT !.todo = planner.todo \ {i}]
    BY <2>5, <1>a DEF PlannerState
  <2>6. CASE /\ Plan(i, wm, today).mode # "NO_OP"
             /\ planner' = [planner EXCEPT !.todo = planner.todo \ {i}, !.emitted =
                     planner.emitted \cup {[inst |-> i, plan |-> Plan(i, wm, today)]}]
    <3>1. Plan(i, wm, today).start >= 0 /\ Plan(i, wm, today).end >= 0
      BY <2>2, <2>4, <2>6, PlanDates
    <3>2. planner'.emitted = planner.emitted \cup {[inst |-> i, plan |-> Plan(i, wm, today)]}
      BY <1>a, <2>6 DEF PlannerState
    <3> QED BY <3>1, <3>2
  <2>7. CASE planner' = IdlePlanner
    BY <2>7 DEF IdlePlanner
  <2> QED BY <2>1, <2>5, <2>6, <2>7 DEF PlanOutcome
<1>4. ASSUME PlannerPlanned PROVE Goal
  BY <1>4, <1>a DEF PlannerPlanned, PlannerState, IdlePlanner
<1>5. ASSUME PlannerFinish \/ PlannerCrash PROVE Goal
  BY <1>5 DEF PlannerFinish, PlannerCrash, IdlePlanner
<1>6. ASSUME NEW k \in planner.keys, PlannerPutManifest(k) PROVE Goal
  BY <1>6, <1>a DEF PlannerPutManifest, PlannerState
<1>7. CASE ~PlannerInsert
  <2>1. Goal
    BY <1>2, <1>3, <1>4, <1>5, <1>6, <1>7 DEF PlannerStep, StartPlanner, PlannerWork
  <2>2. \A i \in Instruments : WidenedOrKept(i)
    BY <1>b DEF WidenedOrKept
  <2>3. \A e \in ingest'.dates : e \in ingest.dates \/ (e.span.earliest >= 0 /\ e.span.latest >= 0)
    BY <1>b
  <2> HIDE DEF Goal
  <2>4. \A e \in planner'.emitted : e \in planner.emitted \/ (e.plan.start >= 0 /\ e.plan.end >= 0)
    BY <2>1 DEF Goal
  <2> QED BY <1>7, <1>a, <2>2, <2>3, <2>4, DatesSame
<1> QED BY <1>1, <1>7

\* The entries a group adds to the watermark buffer are of days of its bars, or
\* of the last day it was asked for.
LEMMA CloseDates ==
    ASSUME ingest \in IngestState, NEW i, NEW keys, NEW b, NEW days,
           \A d \in days : d >= 0
    PROVE  \A e \in Close(i, keys, b, days).dates :
             e \in ingest.dates \/ (e.span.earliest >= 0 /\ e.span.latest >= 0)
<1>1. Close(i, keys, b, days).dates = ingest.dates \cup [inst : {i}, span : Spans(days)]
  BY DEF Close, IngestState
<1>2. \A s \in Spans(days) : s.earliest >= 0 /\ s.latest >= 0
  BY DEF Spans
<1> HIDE DEF Spans
<1> QED BY <1>1, <1>2

\* A flush widens each entry it touches; only it and a suspension write any.
LEMMA WatermarkStep ==
    ASSUME TypeInv, DatesInv, [Next]_vars, NEW i \in Instruments
    PROVE  /\ WidenedOrKept(i)
           /\ watermark[i] # NoWatermark =>
                /\ watermark'[i] # NoWatermark
                /\ watermark'[i].earliest <= watermark[i].earliest
                /\ watermark'[i].latest >= watermark[i].latest
<1> DEFINE Goal == /\ WidenedOrKept(i)
                   /\ watermark[i] # NoWatermark =>
                        /\ watermark'[i] # NoWatermark
                        /\ watermark'[i].earliest <= watermark[i].earliest
                        /\ watermark'[i].latest >= watermark[i].latest
<1>a. watermark[i] \in Watermark /\ watermark \in [Instruments -> Watermark]
  BY DEF TypeInv, TypeCore, TypeOK, SharedTypeOK
<1>b. watermark'[i] = watermark[i] => Goal
  BY <1>a DEF Watermark, WidenedOrKept
<1>c. NoWatermark.latest = -1
  BY DEF NoWatermark
<1>1. CASE IngestFlush
  <2>1. CASE UNCHANGED watermark
    BY <1>b, <2>1
  <2>2. CASE watermark' = [j \in Instruments |->
               IF \E e \in ingest.dates : e.inst = j
               THEN Widened(watermark[j], (CHOOSE e \in ingest.dates : e.inst = j).span)
               ELSE watermark[j]]
    <3>1. CASE ~\E e \in ingest.dates : e.inst = i
      BY <1>b, <2>2, <3>1
    <3>2. CASE \E e \in ingest.dates : e.inst = i
      <4> DEFINE e == CHOOSE e \in ingest.dates : e.inst = i
      <4>1. e \in ingest.dates
        BY <3>2
      <4>2. e.span \in DateSpan
        BY <4>1 DEF TypeInv, TypeCore, TypeOK, IngestState
      <4>3. e.span.earliest >= 0 /\ e.span.latest >= 0
        BY <4>1 DEF DatesInv
      <4>4. watermark'[i] = Widened(watermark[i], e.span)
        BY <2>2, <3>2
      <4> HIDE DEF e
      <4>5. CASE watermark[i] = NoWatermark
        <5>1. watermark'[i] = [earliest |-> e.span.earliest, latest |-> e.span.latest, suspended |-> FALSE]
          BY <4>4, <4>5 DEF Widened
        <5> QED BY <4>3, <4>5, <5>1 DEF WidenedOrKept
      <4>6. CASE watermark[i] # NoWatermark
        <5>1. watermark'[i] = [earliest  |-> Earlier(watermark[i].earliest, e.span.earliest),
                               latest    |-> Later(watermark[i].latest, e.span.latest),
                               suspended |-> FALSE]
          BY <4>4, <4>6 DEF Widened
        <5>2. watermark[i].earliest >= 0 /\ watermark[i].latest >= 0
          BY <4>6 DEF DatesInv
        <5>3. /\ watermark'[i].earliest = Earlier(watermark[i].earliest, e.span.earliest)
              /\ watermark'[i].latest = Later(watermark[i].latest, e.span.latest)
          BY <5>1
        <5>4. /\ watermark'[i].earliest >= 0 /\ watermark'[i].earliest <= watermark[i].earliest
              /\ watermark'[i].latest >= watermark[i].latest
          BY <1>a, <4>2, <4>3, <5>2, <5>3 DEF Earlier, Later, Watermark, DateSpan
        <5>5. watermark'[i].latest >= 0
          BY <1>a, <4>2, <5>2, <5>3 DEF Later, Watermark, DateSpan
        <5>6. watermark'[i] # NoWatermark
          BY <1>c, <5>5
        <5> QED BY <5>4, <5>5, <5>6 DEF WidenedOrKept
      <4> QED BY <4>5, <4>6
    <3> QED BY <3>1, <3>2
  <2> QED BY <1>1, <2>1, <2>2 DEF IngestFlush
<1>2. ASSUME NEW j \in Instruments, Suspend(j) PROVE Goal
  <2>1. watermark' = [watermark EXCEPT ![j].suspended = TRUE] /\ watermark[j] # NoWatermark
    BY <1>2 DEF Suspend
  <2>2. CASE j # i
    BY <1>a, <1>b, <2>1, <2>2
  <2>3. CASE j = i
    <3>1. watermark'[i] = [watermark[i] EXCEPT !.suspended = TRUE]
      BY <1>a, <2>1, <2>3
    <3>2. /\ watermark'[i].earliest = watermark[i].earliest
          /\ watermark'[i].latest = watermark[i].latest
      BY <1>a, <3>1 DEF Watermark
    <3>3. watermark[i].earliest >= 0 /\ watermark[i].latest >= 0
      BY <2>1, <2>3 DEF DatesInv
    <3>4. watermark'[i] # NoWatermark
      BY <1>c, <3>2, <3>3
    <3> QED BY <1>a, <3>2, <3>3, <3>4 DEF Watermark, WidenedOrKept
  <2> QED BY <2>2, <2>3
<1>3. CASE ~IngestFlush /\ ~\E j \in Instruments : Suspend(j)
  <2>1. UNCHANGED watermark
    BY <1>3 DEF Next, vars, shared, delta, queue, clock,
         PlannerStep, StartPlanner, PlannerStart, PlannerWork, PlannerListPending,
         PlannerMarkOrphans, PlannerReadInFlight, PlannerPlan, PlannerPlanned, PlannerInsert,
         PlannerPutManifest, PlannerFinish, PlannerCrash,
         AgentStep, AgentWork, AgentPoll, AgentTake, AgentLand, AgentPutDone,
         AgentAttemptFails, AgentPutFailed, AgentDeletePending, AgentCycleEnds, AgentCrash,
         IngestStep, StartIngest, IngestReadFailed, IngestWork, IngestReadDone, IngestMerge,
         IngestSelect, IngestOpenGroup, IngestAppendNew, IngestAppendAmended,
         IngestAppendRejected, IngestGroupFails, IngestGroupsDone, IngestMark,
         IngestArchive, IngestCrash, EnvironmentStep, NextDay
  <2> QED BY <1>b, <2>1
<1> QED BY <1>1, <1>2, <1>3

LEMMA IngestStepDates ==
    ASSUME TypeInv, DatesInv, IngestStep
    PROVE  DatesInv'
<1>a. ingest \in IngestState /\ [Next]_vars /\ UNCHANGED planner
  BY DEF TypeInv, TypeCore, TypeOK, Next, IngestStep
<1>b. ~PlannerInsert
  BY <1>a DEF PlannerInsert, TypeInv, TypeCore, TypeOK, PlannerState, IdlePlanner
<1> DEFINE Goal == \A e \in ingest'.dates :
             e \in ingest.dates \/ (e.span.earliest >= 0 /\ e.span.latest >= 0)
<1>1. ASSUME IngestReadFailed \/ IngestReadDone \/ IngestGroupsDone \/ IngestFlush \/ IngestMark
             \/ IngestAppendNew \/ IngestAppendAmended \/ IngestGroupFails
      PROVE  Goal
  <2>1. ingest'.dates = ingest.dates \/ ingest'.dates = {}
    BY <1>1, <1>a DEF IngestReadFailed, IngestReadDone, IngestGroupsDone, IngestFlush, IngestMark,
                      IngestAppendNew, IngestAppendAmended, IngestGroupFails, IngestState
  <2> QED BY <2>1
<1>2. ASSUME IngestMerge \/ IngestArchive \/ IngestCrash PROVE Goal
  BY <1>2 DEF IngestMerge, IngestArchive, IngestCrash, IdleIngest
<1>3. ASSUME IngestSelect PROVE Goal
  <2>1. CASE ingest' = IdleIngest
    BY <2>1 DEF IdleIngest
  <2>2. CASE ingest' = [ingest EXCEPT
                          !.rows  = WithStatus("LANDED"),
                          !.phase = IF WithStatus("LANDED") = {} THEN "archive" ELSE "groups"]
    BY <2>2, <1>a DEF IngestState
  <2> QED BY <1>3, <2>1, <2>2 DEF IngestSelect
<1>4. ASSUME NEW i \in Instruments, IngestOpenGroup(i) PROVE Goal
  <2>1. Group(i) \subseteq Keys /\ Group(i) \subseteq DOMAIN fetch_request
    BY <1>a DEF Group, IngestState, TypeInv, RowsExist
  <2>2. \A d \in GroupBars(i) : d >= 0
    BY <2>1, BarsAreDays DEF GroupBars
  <2>3. \A d \in LastEnd(i) : d >= 0
    BY <2>1 DEF LastEnd, DatesInv
  <2>4. CASE \E b, days : days \in {GroupBars(i), LastEnd(i)} /\ ingest' = Close(i, Group(i), b, days)
    BY <1>a, <2>2, <2>3, <2>4, CloseDates
  <2>5. CASE \E g : ingest' = [ingest EXCEPT !.phase = "new", !.group = g]
    BY <1>a, <2>5 DEF IngestState
  <2> QED BY <1>4, <2>4, <2>5, OpenGroupEffect
<1>5. ASSUME IngestAppendRejected PROVE Goal
  <2>1. \A d \in ingest.group.days : d >= 0
    BY <1>a DEF IngestState, GroupState
  <2> QED BY <1>5, <1>a, <2>1, CloseDates DEF IngestAppendRejected
<1>6. Goal
  BY <1>1, <1>2, <1>3, <1>4, <1>5 DEF IngestStep, StartIngest, IngestWork
<1> QED BY <1>a, <1>b, <1>6, DatesSame, WatermarkStep

LEMMA DatesNext ==
    ASSUME HistoriesStart
    PROVE  TypeInv /\ DatesInv /\ [Next]_vars => DatesInv'
<1> SUFFICES ASSUME TypeInv, DatesInv, [Next]_vars PROVE DatesInv'
  OBVIOUS
<1>1. CASE AgentStep \/ EnvironmentStep \/ UNCHANGED vars
  <2>1. UNCHANGED <<planner, ingest>>
    BY <1>1 DEF AgentStep, EnvironmentStep, vars
  <2>2. ~PlannerInsert
    BY <2>1 DEF PlannerInsert, TypeInv, TypeCore, TypeOK, PlannerState, IdlePlanner
  <2> QED BY <2>1, <2>2, DatesSame, WatermarkStep
<1> QED BY <1>1, PlannerStepDates, IngestStepDates DEF Next

\* No watermark ever narrows, whichever flushes fail, runs die, batches are
\* replayed or instruments are suspended in between.
THEOREM WatermarksWiden ==
    ASSUME HistoriesStart
    PROVE  Spec => WatermarkOnlyWidens
<1>1. Init => DatesInv
  BY DEF Init, EmptyTables, IdlePlanner, IdleIngest, DatesInv
<1>2. TypeInv /\ DatesInv /\ [Next]_vars => DatesInv'
  BY DatesNext
<1>3. TypeInv /\ DatesInv /\ [Next]_vars =>
        [\A i \in Instruments : watermark[i] # NoWatermark =>
           /\ watermark'[i] # NoWatermark
           /\ watermark'[i].earliest <= watermark[i].earliest
           /\ watermark'[i].latest >= watermark[i].latest]_watermark
  BY WatermarkStep
<1> QED BY InitType, NextType, <1>1, <1>2, <1>3, PTL DEF Spec, WatermarkOnlyWidens
=============================================================================
