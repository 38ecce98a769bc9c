------------------------------ MODULE Pipeline ------------------------------
(***************************************************************************)
(* The two-plane ingestion pipeline: planner job, fetch agent and          *)
(* ingestion job interleaved over the tables, the queue and the raw zone.  *)
(***************************************************************************)
EXTENDS FetchPlanner, FetchAgent, RawToBronze

vars == <<shared, planner, agent, ingest>>

Init == EmptyTables /\ planner = IdlePlanner /\ agent = IdleAgent /\ ingest = IdleIngest

\* Each job has max_concurrent_runs 1; nothing keeps the two jobs apart but
\* the hour their schedules are meant to leave between them.
StartPlanner == PlannerStart /\ (JobsOverlap \/ ingest.phase = "idle")
StartIngest  == IngestReadFailed /\ (JobsOverlap \/ planner.phase = "idle")

PlannerStep     == (StartPlanner \/ PlannerWork \/ PlannerCrash) /\ UNCHANGED <<agent, ingest>>
AgentStep       == (AgentWork \/ AgentCrash) /\ UNCHANGED <<planner, ingest>>
IngestStep      == (StartIngest \/ IngestWork \/ IngestGroupFails \/ IngestCrash)
                       /\ UNCHANGED <<planner, agent>>
EnvironmentStep == ((NextDay /\ planner.phase = "idle") \/ \E i \in Instruments : Suspend(i))
                       /\ UNCHANGED <<planner, agent, ingest>>

Next == PlannerStep \/ AgentStep \/ IngestStep \/ EnvironmentStep

Spec == Init /\ [][Next]_vars

(***************************************************************************)
(* Fairness: systemd keeps the agent running; both jobs are started again  *)
(* and again, and a job that runs gets on with it.  Strong fairness for    *)
(* starting a job, because the other one may be running whenever one looks. *)
(* Nothing is assumed of crashes, of the clock or of suspensions.          *)
(***************************************************************************)
Fairness ==
    /\ SF_vars(StartPlanner /\ UNCHANGED <<agent, ingest>>)
    /\ WF_vars(PlannerWork /\ UNCHANGED <<agent, ingest>>)
    /\ WF_vars(AgentWork /\ UNCHANGED <<planner, ingest>>)
    /\ SF_vars(StartIngest /\ UNCHANGED <<planner, agent>>)
    /\ WF_vars(IngestWork /\ UNCHANGED <<planner, agent>>)

FairSpec == Spec /\ Fairness
-----------------------------------------------------------------------------
\* Type correctness of the tables, the queue and the three runs in progress.
TypeOK ==
    /\ SharedTypeOK
    /\ planner \in PlannerState
    /\ agent \in AgentState /\ agent.key \subseteq agent.todo
    /\ ingest \in IngestState
-----------------------------------------------------------------------------
(* Safety.                                                                 *)

Has(k, s) == k \in WithStatus(s)

\* Work is never double-queued: the unfinished requests of an instrument
\* all belong to one planner run, although the planner reads the in-flight
\* set long before it inserts (skipped_inflight).
OneBatchInFlight ==
    \A k, l \in InFlight :
        KeyInstrument(k) = KeyInstrument(l) => KeyBatch(k) = KeyBatch(l)

\* Every queue object is accounted for by a fetch_request row: rows are
\* committed before manifests are put, so no crash leaves untracked work.
NoUntrackedWork == pending \cup done \cup failed \subseteq DOMAIN fetch_request

\* A request is LANDED or INGESTED only if its raw payload is in the raw
\* zone, whatever attempt, crash or stale receipt it took to get there.
LandedHasPayload == WithStatus("LANDED") \cup WithStatus("INGESTED") \subseteq raw

\* A landed payload whose request is still PENDING can always be reconciled:
\* its manifest is still queued, or a receipt is waiting.
ReceiptNotLost ==
    \A k \in WithStatus("PENDING") : k \in raw => k \in pending \cup done \cup failed

\* Orphan repair hits only requests whose manifest the agent cannot find.
OrphanNotQueued == WithStatus("ORPHANED") \cap pending = {}

\* ORPHANED as the workflow document draws it, "planner crashed before manifest
\* write": such a request was never fetched.
OrphanNeverFetched == WithStatus("ORPHANED") \cap raw = {}

\* Bronze: a load that skips the dedup never appends a bar that is already
\* stored, however often runs die in the middle of it.
NoRepeatedAppend == repeated = {}

\* A request is INGESTED only when each of its bars is in Bronze or in the
\* rejected table.
IngestedIsComplete ==
    \A k \in WithStatus("INGESTED") : \A d \in Bars(k) :
        \E b \in Batches : <<KeyInstrument(k), d, b>> \in bronze \cup rejected

\* The watermark tells the truth: with nothing of the instrument in flight,
\* every vendor day between its earliest and latest date is in Bronze or in
\* the rejected table.
WatermarkHasNoHoles ==
    \A i \in Instruments :
        (\A k \in InFlight : KeyInstrument(k) # i) =>
            \A d \in VendorDays[i] :
                watermark[i].earliest <= d /\ d <= watermark[i].latest =>
                    \E b \in Batches : <<i, d, b>> \in bronze \cup rejected

\* Requests of one instrument in one planner run.
SameLoad(k, l) == KeyInstrument(k) = KeyInstrument(l) /\ KeyBatch(k) = KeyBatch(l)

\* What the replay guard goes by: a load that skips the dedup, and any bar of
\* its instrument and batch in Bronze.
LooksReplayed(k) ==
    /\ \E l \in DOMAIN fetch_request : SameLoad(k, l) /\ SkipsDedup(l)
    /\ \E d \in VendorDays[KeyInstrument(k)] :
         <<KeyInstrument(k), d, KeyBatch(k)>> \in bronze

\* What the watermark covers is accounted for, whatever number of requests a
\* load consists of: a vendor day within it is stored, or a load that was
\* fetched at least in part has asked for it by a request that is in flight,
\* FAILED or ORPHANED, or that is INGESTED and was taken for a replay of its
\* own batch.
CoveredIsAccountedFor ==
    \A i \in Instruments : \A d \in VendorDays[i] :
        watermark[i].earliest <= d /\ d <= watermark[i].latest =>
            \/ \E b \in Batches : <<i, d, b>> \in bronze \cup rejected
            \/ \E k, l \in DOMAIN fetch_request :
                 /\ KeyInstrument(k) = i /\ SameLoad(k, l) /\ d \in Bars(k) /\ l \in raw
                 /\ Has(k, "INGESTED") => LooksReplayed(k)

Replanned(i, d) == LET plan == Plan(i, watermark[i], today)
                   IN  plan.mode # "NO_OP" /\ plan.start <= d /\ d <= plan.end

\* The day is stored, the instrument has a load in flight, or the next planner
\* run will plan the day again.
Remembered(i, d) ==
    \/ \E b \in Batches : <<i, d, b>> \in bronze \cup rejected
    \/ \E l \in InFlight : KeyInstrument(l) = i
    \/ Replanned(i, d)

\* What the workflow document says of FAILED ("next planner run re-plans
\* uncovered dates") and of ORPHANED: the days of such a request are not
\* forgotten.
FailedDaysReplanned ==
    \A k \in WithStatus("FAILED") \cup WithStatus("ORPHANED") : \A d \in Bars(k) :
        Remembered(KeyInstrument(k), d)

\* What holds in the code: they are forgotten only where another request of a
\* load that asked for the day came through and took the watermark past it.
FailedLoadsReplanned ==
    \A k \in WithStatus("FAILED") \cup WithStatus("ORPHANED") : \A d \in Bars(k) :
        \/ Remembered(KeyInstrument(k), d)
        \/ \E m, l \in DOMAIN fetch_request :
             /\ KeyInstrument(m) = KeyInstrument(k) /\ d \in Bars(m)
             /\ SameLoad(m, l) /\ Has(l, "INGESTED")

\* An initial load that was INGESTED is not planned again, not even when the
\* vendor had no bars at all: the watermark it leaves behind sees to that.
InitialLoadOnce ==
    \A k, l \in DOMAIN fetch_request :
        /\ KeyInstrument(k) = KeyInstrument(l) /\ KeyBatch(k) < KeyBatch(l)
        /\ fetch_request[l].load = "INITIAL_LOAD"
        => ~Has(k, "INGESTED")
-----------------------------------------------------------------------------
(* Action properties.                                                      *)

\* INGESTED, FAILED and ORPHANED are terminal.
TerminalIsFinal ==
    [][\A k \in DOMAIN fetch_request :
         fetch_request[k].status \in {"INGESTED", "FAILED", "ORPHANED"} =>
             fetch_request'[k].status = fetch_request[k].status]_fetch_request

\* Watermark dates only ever widen.
WatermarkOnlyWidens ==
    [][\A i \in Instruments : watermark[i] # NoWatermark =>
         /\ watermark'[i] # NoWatermark
         /\ watermark'[i].earliest <= watermark[i].earliest
         /\ watermark'[i].latest >= watermark[i].latest]_watermark

\* control.fetch_request and the queue follow the life cycle their readers
\* rely on: no row leaves a terminal status, none skips a state, none is
\* ORPHANED while its manifest waits in the queue, no manifest is put for a
\* row that is not PENDING, and a new batch never touches an instrument with
\* unfinished requests.
StatusOf == [k \in DOMAIN fetch_request |-> fetch_request[k].status]

Lifecycle == INSTANCE RequestLifecycle
                 WITH Batch <- Batches, status <- StatusOf, queued <- pending

FollowsLifecycle == Lifecycle!LifecycleSpec

-----------------------------------------------------------------------------
(* Liveness, under FairSpec.                                               *)

RequestKeys == Batches \X Instruments \X (1 .. MaxDay)

\* No request stays PENDING for ever: it lands, fails or is repaired.
PendingIsResolved == \A k \in RequestKeys : Has(k, "PENDING") ~> ~Has(k, "PENDING")

\* Whatever landed is ingested in the end.
LandedIsIngested == \A k \in RequestKeys : Has(k, "LANDED") ~> Has(k, "INGESTED")

\* As long as planner runs are not used up, every instrument catches up with
\* the calendar and stays there, whatever failed on the way.
CaughtUp   == \A i \in Mapped : UpToDate(watermark[i].latest, today)
CatchesUp  == <>[](batches < MaxBatches) => <>[]CaughtUp

\* The agent empties its queue.
QueueDrains == \A k \in RequestKeys : k \in pending ~> k \notin pending
=============================================================================
