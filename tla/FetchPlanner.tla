---------------------------- MODULE FetchPlanner ----------------------------
(***************************************************************************)
(* FetchPlannerJob.run and FetchRequestRepository.save_all.  One run:      *)
(* orphan repair (read PENDING rows; list pending/; update), read the      *)
(* in-flight set, plan each instrument, insert the rows, put the           *)
(* manifests.  Every step is one remote call; the job may die between two. *)
(***************************************************************************)
EXTENDS ControlPlane

VARIABLE planner  \* the run in progress

PlannerPhases == {"idle", "list", "update", "inflight", "plan", "insert", "manifests"}

\* keys: the PENDING rows read, then those found orphaned, then the
\* manifests not yet put.  emitted: rows built so far, one entry per
\* instrument.  busy: the in-flight instruments read.  todo: instruments
\* not yet planned.
PlannerState == [phase : PlannerPhases, keys : SUBSET Keys, busy : SUBSET Instruments,
                 todo : SUBSET Instruments,
                 emitted : SUBSET [inst : Instruments, plan : FetchPlan]]

IdlePlanner == [phase |-> "idle", keys |-> {}, busy |-> {}, todo |-> {},
                emitted |-> {}]

NextBatch == batches + 1

\* _repair_orphaned_requests, first query.
PlannerStart ==
    /\ planner.phase = "idle"
    /\ planner' = [planner EXCEPT
                     !.keys  = WithStatus("PENDING"),
                     !.phase = IF WithStatus("PENDING") = {} THEN "inflight" ELSE "list"]
    /\ UNCHANGED shared

\* Mutant of PlannerListPending: the listing is never consulted.
SkipListing ==
    /\ planner.phase = "list"
    /\ planner' = [planner EXCEPT !.phase = "update"]
    /\ UNCHANGED shared

\* fs_ls(pending_prefix); an exception is taken for an empty prefix.
PlannerListPending ==
    /\ planner.phase = "list"
    /\ \E existing \in {pending} \cup (IF "pending_list" \in Faults THEN {{}} ELSE {}) :
         planner' = [planner EXCEPT
                       !.keys  = planner.keys \ existing,
                       !.phase = IF planner.keys \subseteq existing
                                 THEN "inflight" ELSE "update"]
    /\ UNCHANGED shared

\* Mutant of PlannerMarkOrphans: the update of an orphan is lost.
RepairNothing ==
    /\ planner.phase = "update"
    /\ planner' = [planner EXCEPT !.keys = {}, !.phase = "inflight"]
    /\ UNCHANGED shared

\* UPDATE ... SET status = 'ORPHANED' WHERE request_key IN (...): by key only.
PlannerMarkOrphans ==
    /\ planner.phase = "update"
    /\ fetch_request' = SetStatus(fetch_request, planner.keys, Status, "ORPHANED")
    /\ planner' = [planner EXCEPT !.keys = {}, !.phase = "inflight"]
    /\ UNCHANGED <<batches, bronze, repeated, rejected, watermark, queue, clock>>

\* What the in-flight query leads to when it asks for the statuses in `wanted`.
ReadBusy(wanted) ==
    /\ planner.phase = "inflight"
    /\ planner' = [planner EXCEPT
                     !.keys  = {},
                     !.busy  = { KeyInstrument(k) : k \in UNION { WithStatus(s) : s \in wanted } },
                     !.todo  = Instruments,
                     !.phase = "plan"]
    /\ UNCHANGED shared

\* Mutants of PlannerReadInFlight: a status too few, or one too many.
ForgetsLanded  == ReadBusy({"PENDING"})
KeepsFailed    == ReadBusy({"PENDING", "LANDED", "FAILED"})

\* get_active_instruments and _in_flight_instrument_ids.
PlannerReadInFlight ==
    /\ planner.phase = "inflight"
    /\ planner' = [planner EXCEPT
                     !.keys  = {},
                     !.busy  = { KeyInstrument(k) : k \in InFlight },
                     !.todo  = Instruments,
                     !.phase = "plan"]
    /\ UNCHANGED shared

\* get_watermark treats a failed read as "no watermark yet".
WatermarkRead(i) ==
    {watermark[i]} \cup (IF "watermark_read" \in Faults THEN {NoWatermark} ELSE {})

\* One turn of the loop over the instruments.  An unbuildable range raises
\* and takes the run down.
PlannerPlan(i) ==
    /\ planner.phase = "plan" /\ i \in planner.todo
    /\ \E wm \in WatermarkRead(i) :
         LET plan == Plan(i, wm, today)
             rest == [planner EXCEPT !.todo = planner.todo \ {i}]
         IN  IF i \in planner.busy \/ plan.mode = "NO_OP" \/ i \notin Mapped
             THEN planner' = rest
             ELSE IF Buildable(plan)
             THEN planner' = [rest EXCEPT
                                !.emitted = planner.emitted \cup {[inst |-> i, plan |-> plan]}]
             ELSE planner' = IdlePlanner
    /\ UNCHANGED shared

\* End of the loop: nothing emitted, a dry run, or on to save_all.  (A run
\* that would use more than MaxBatches stops here too.)
PlannerPlanned ==
    /\ planner.phase = "plan" /\ planner.todo = {}
    /\ \/ /\ planner.emitted = {} \/ batches = MaxBatches \/ "dry_run" \in Faults
          /\ planner' = IdlePlanner
       \/ /\ planner.emitted # {} /\ batches < MaxBatches
          /\ planner' = [planner EXCEPT !.phase = "insert"]
    /\ UNCHANGED shared

NewKeys == UNION { BuiltKeys(NextBatch, e.inst, e.plan) : e \in planner.emitted }

NewRow(k) == LET e == CHOOSE e \in planner.emitted : e.inst = KeyInstrument(k)
             IN  BuiltRow(e.plan, KeySeq(k))

\* Mutant of PlannerInsert: a failed insert is passed over like a failed put.
InsertLost ==
    /\ planner.phase = "insert"
    /\ batches' = NextBatch
    /\ planner' = [IdlePlanner EXCEPT !.phase = "manifests", !.keys = NewKeys]
    /\ UNCHANGED <<fetch_request, bronze, repeated, rejected, watermark, queue, clock>>

\* _insert_rows: one Delta commit for all the requests of the run.
PlannerInsert ==
    /\ planner.phase = "insert"
    /\ fetch_request' = [k \in DOMAIN fetch_request \cup NewKeys |->
                           IF k \in DOMAIN fetch_request THEN fetch_request[k] ELSE NewRow(k)]
    /\ batches' = NextBatch
    /\ planner' = [IdlePlanner EXCEPT !.phase = "manifests", !.keys = NewKeys]
    /\ UNCHANGED <<bronze, repeated, rejected, watermark, queue, clock>>

\* One thread of the pool: put a manifest, or fail to (the others go on).
PlannerPutManifest(k) ==
    /\ planner.phase = "manifests" /\ k \in planner.keys
    /\ planner' = [planner EXCEPT !.keys = planner.keys \ {k}]
    /\ \/ pending' = pending \cup {k}
       \/ "manifest_put" \in Faults /\ UNCHANGED pending
    /\ UNCHANGED <<delta, done, failed, raw, clock>>

PlannerFinish ==
    /\ planner.phase = "manifests" /\ planner.keys = {}
    /\ planner' = IdlePlanner
    /\ UNCHANGED shared

PlannerCrash ==
    /\ planner.phase # "idle"
    /\ Crash
    /\ planner' = IdlePlanner
    /\ UNCHANGED <<delta, queue, today>>

\* What the job does by itself once started, the crash excepted.
PlannerWork ==
    \/ PlannerListPending \/ PlannerMarkOrphans \/ PlannerReadInFlight
    \/ \E i \in planner.todo : PlannerPlan(i)
    \/ PlannerPlanned \/ PlannerInsert
    \/ \E k \in planner.keys : PlannerPutManifest(k)
    \/ PlannerFinish
=============================================================================
