---------------------------- MODULE RawToBronze -----------------------------
(***************************************************************************)
(* RawToBronzeJob.run: reconcile the agent's receipts into fetch_request,  *)
(* ingest the LANDED requests one instrument at a time, flush the          *)
(* watermarks, mark the requests INGESTED and purge their receipts.  Every *)
(* step is one remote call; the job may die between two.  The audit log    *)
(* (job_run_log) is not modelled: nothing reads it.                        *)
(***************************************************************************)
EXTENDS ControlPlane

VARIABLE ingest  \* the run in progress

IngestPhases == {"idle", "receipts", "merge", "select", "groups", "new",
                 "amended", "rejected", "flush", "mark", "archive"}

GroupState  == [inst : SUBSET Instruments, keys : SUBSET Keys, batch : Nat, days : SUBSET Nat,
                new : SUBSET Nat, amended : SUBSET Nat, bad : SUBSET Nat]
DateSpan    == [earliest : Int, latest : Int]
IngestState == [phase : IngestPhases, bad : SUBSET Keys, good : SUBSET Keys,
                rows : SUBSET Keys, group : GroupState, marks : SUBSET Keys,
                worked : SUBSET Batches, dates : SUBSET [inst : Instruments, span : DateSpan]]

NoGroup == [inst |-> {}, keys |-> {}, batch |-> 0, days |-> {},
            new |-> {}, amended |-> {}, bad |-> {}]

\* bad, good: the receipts read from failed/ and done/.  rows: the LANDED
\* keys selected, whose groups are still to do.  group: the group being
\* written.  marks, worked: keys to mark INGESTED, batches worked on.
\* dates: the watermark buffer.
IdleIngest == [phase |-> "idle", bad |-> {}, good |-> {}, rows |-> {},
               group |-> NoGroup, marks |-> {}, worked |-> {}, dates |-> {}]

\* _list_receipts: a failed listing counts as empty, an unreadable receipt
\* is skipped.
ReceiptReads(prefix) == IF "receipt_read" \in Faults THEN SUBSET prefix ELSE {prefix}

\* reconcile, first listing.
IngestReadFailed ==
    /\ ingest.phase = "idle"
    /\ \E seen \in ReceiptReads(failed) :
         ingest' = [ingest EXCEPT !.phase = "receipts", !.bad = seen]
    /\ UNCHANGED shared

\* reconcile, second listing; a done/ receipt overlays a failed/ one.
IngestReadDone ==
    /\ ingest.phase = "receipts"
    /\ \E seen \in ReceiptReads(done) :
         ingest' = [ingest EXCEPT !.phase = "merge", !.good = seen, !.bad = ingest.bad \ seen]
    /\ UNCHANGED shared

\* Mutant of IngestMerge: the MERGE does not ask for PENDING.
MergeUnguarded ==
    /\ ingest.phase = "merge"
    /\ fetch_request' = SetStatus(SetStatus(fetch_request, ingest.good, Status, "LANDED"),
                                  ingest.bad, Status, "FAILED")
    /\ ingest' = [IdleIngest EXCEPT !.phase = "select"]
    /\ UNCHANGED <<batches, bronze, repeated, rejected, watermark, queue, clock>>

\* _apply_reconcile: one MERGE, PENDING rows only.
IngestMerge ==
    /\ ingest.phase = "merge"
    /\ fetch_request' =
         SetStatus(SetStatus(fetch_request, ingest.good, {"PENDING"}, "LANDED"),
                   ingest.bad, {"PENDING"}, "FAILED")
    /\ ingest' = [IdleIngest EXCEPT !.phase = "select"]
    /\ UNCHANGED <<batches, bronze, repeated, rejected, watermark, queue, clock>>

\* The LANDED rows; a dry run only reads their payloads and ends.
IngestSelect ==
    /\ ingest.phase = "select"
    /\ \/ ingest' = [ingest EXCEPT
                       !.rows  = WithStatus("LANDED"),
                       !.phase = IF WithStatus("LANDED") = {} THEN "archive" ELSE "groups"]
       \/ "dry_run" \in Faults /\ ingest' = IdleIngest
    /\ UNCHANGED shared

Group(i) == { k \in ingest.rows : KeyInstrument(k) = i }

\* rep = grp[0] of the rows ordered by start_date.
Representative(rep, keys) ==
    /\ rep \in keys
    /\ \A k \in keys : fetch_request[rep].start <= fetch_request[k].start

SkipsDedup(k) == fetch_request[k].load \in {"INITIAL_LOAD", "HISTORY_EXTENSION"}

\* min and max of a set of days: a set of at most one span, none for no days.
Spans(ds) == { s \in [earliest : ds, latest : ds] :
                 \A d \in ds : s.earliest <= d /\ d <= s.latest }

\* Mutant of Close: only dates of vendor bars are buffered, no sentinel.
CloseWithoutSentinel(i, keys, batch, days) ==
    [ingest EXCEPT
       !.phase = "groups",
       !.rows  = ingest.rows \ keys,
       !.group = NoGroup,
       !.marks = ingest.marks \cup keys,
       !.worked = ingest.worked \cup {batch},
       !.dates = ingest.dates \cup [inst : {i}, span : Spans(days \cap VendorDays[i])]]

\* The run's bookkeeping for a group that is through; its watermark entry is
\* derived from `days`, and there is none without days.
Close(i, keys, batch, days) ==
    [ingest EXCEPT
       !.phase = "groups",
       !.rows  = ingest.rows \ keys,
       !.group = NoGroup,
       !.marks = ingest.marks \cup keys,
       !.worked = ingest.worked \cup {batch},
       !.dates = ingest.dates \cup [inst : {i}, span : Spans(days)]]

\* Mutants of GuardAnswers: no guard, and one that does not ask for the batch.
NoGuard(i, batch) == {FALSE}
GuardWithoutBatch(i, batch) == {Stored(i) # {}}

\* _batch_already_in_bronze; a failed query counts as "not there".
GuardAnswers(i, batch) ==
    {\E d \in VendorDays[i] : <<i, d, batch>> \in bronze}
        \cup (IF "guard_query" \in Faults THEN {FALSE} ELSE {})

\* _bulk_fetch_existing.  In Spark mode a stored bar_date is a date and an
\* incoming one a string, so no key is ever found (KeysMatch FALSE); the
\* in-memory store compares strings.  A failed query counts as "nothing stored".
KnownDays(i) == {IF KeysMatch THEN Stored(i) ELSE {}}
                    \cup (IF "dedup_query" \in Faults THEN {{}} ELSE {})

\* _ingest_group: read the payloads, ask the guard, validate, classify.
IngestOpenGroup(i) ==
    /\ ingest.phase = "groups" /\ Group(i) # {}
    /\ LET keys == Group(i)
           bars == UNION { Bars(k) : k \in keys }
           good == bars \ InvalidDays[i]
           ends == { fetch_request[k].end : k \in keys }
       IN  \E rep \in keys :
             /\ Representative(rep, keys)
             /\ \/ \* replay of a load that skips the dedup: nothing written
                   /\ SkipsDedup(rep) /\ TRUE \in GuardAnswers(i, KeyBatch(rep))
                   /\ ingest' = Close(i, keys, KeyBatch(rep), bars)
                \/ /\ SkipsDedup(rep) => FALSE \in GuardAnswers(i, KeyBatch(rep))
                   /\ IF bars = {}
                      THEN \* zero history: a sentinel watermark at the last end date
                           ingest' = Close(i, keys, KeyBatch(rep),
                                           { e \in ends : \A f \in ends : f <= e })
                      ELSE \E known \in IF SkipsDedup(rep) THEN {{}} ELSE KnownDays(i) :
                           \E revised \in SUBSET (RevisedDays \cap known \cap good) :
                             ingest' = [ingest EXCEPT
                               !.phase = "new",
                               !.group = [inst |-> {i}, keys |-> keys,
                                          batch |-> KeyBatch(rep), days |-> good,
                                          new |-> good \ known, amended |-> revised,
                                          bad |-> bars \cap InvalidDays[i]]]
    /\ UNCHANGED shared

\* The rows a group appends for a set of days.
Rows(days) == ingest.group.inst \X days \X {ingest.group.batch}

\* write_batch, first append.
IngestAppendNew ==
    /\ ingest.phase = "new"
    /\ bronze' = bronze \cup Rows(ingest.group.new)
    /\ repeated' = repeated \cup
         { bar \in ingest.group.inst \X ingest.group.new :
             bar[2] \in Stored(bar[1]) /\ \A k \in ingest.group.keys : SkipsDedup(k) }
    /\ ingest' = [ingest EXCEPT !.phase = "amended"]
    /\ UNCHANGED <<fetch_request, batches, rejected, watermark, queue, clock>>

\* write_batch, second append.
IngestAppendAmended ==
    /\ ingest.phase = "amended"
    /\ bronze' = bronze \cup Rows(ingest.group.amended)
    /\ ingest' = [ingest EXCEPT !.phase = "rejected"]
    /\ UNCHANGED <<fetch_request, batches, repeated, rejected, watermark, queue, clock>>

\* write_batch, third append; the group is through.
IngestAppendRejected ==
    /\ ingest.phase = "rejected"
    /\ rejected' = rejected \cup Rows(ingest.group.bad)
    /\ \E i \in ingest.group.inst :
         ingest' = Close(i, ingest.group.keys, ingest.group.batch, ingest.group.days)
    /\ UNCHANGED <<fetch_request, batches, bronze, repeated, watermark, queue, clock>>

\* An exception in _ingest_group, before or between its appends: the group
\* stays LANDED and the run goes on with the next one.
IngestGroupFails ==
    /\ \/ /\ ingest.phase = "groups"
          /\ \E i \in Instruments :
               /\ Group(i) # {}
               /\ ingest' = [ingest EXCEPT !.rows = ingest.rows \ Group(i)]
       \/ /\ ingest.phase \in {"new", "amended", "rejected"}
          /\ ingest' = [ingest EXCEPT !.phase = "groups", !.group = NoGroup,
                                      !.rows = ingest.rows \ ingest.group.keys]
    /\ Crash
    /\ UNCHANGED <<delta, queue, today>>

IngestGroupsDone ==
    /\ ingest.phase = "groups" /\ ingest.rows = {}
    /\ ingest' = [ingest EXCEPT !.phase = "flush"]
    /\ UNCHANGED shared

\* Mutant of Widened: the new dates replace the old.
Replaced(wm, span) ==
    [earliest |-> span.earliest, latest |-> span.latest, suspended |-> FALSE]

Widened(wm, span) ==
    IF wm = NoWatermark
    THEN [earliest |-> span.earliest, latest |-> span.latest, suspended |-> FALSE]
    ELSE [earliest  |-> Earlier(wm.earliest, span.earliest),
          latest    |-> Later(wm.latest, span.latest),
          suspended |-> FALSE]

\* update_watermarks_bulk: one MERGE; a failure is logged and ignored.
IngestFlush ==
    /\ ingest.phase = "flush"
    /\ \/ watermark' = [i \in Instruments |->
             IF \E e \in ingest.dates : e.inst = i
             THEN Widened(watermark[i], (CHOOSE e \in ingest.dates : e.inst = i).span)
             ELSE watermark[i]]
       \/ "watermark_flush" \in Faults /\ UNCHANGED watermark
    /\ ingest' = [ingest EXCEPT !.phase = "mark", !.dates = {}]
    /\ UNCHANGED <<fetch_request, batches, bronze, repeated, rejected, queue, clock>>

\* Mutants of IngestMark: every LANDED row is marked, or the wrong status asked for.
MarkAllLanded ==
    /\ ingest.phase = "mark"
    /\ fetch_request' = SetStatus(fetch_request, DOMAIN fetch_request, {"LANDED"}, "INGESTED")
    /\ ingest' = [ingest EXCEPT !.phase = "archive", !.marks = {}]
    /\ UNCHANGED <<batches, bronze, repeated, rejected, watermark, queue, clock>>
MarkPending ==
    /\ ingest.phase = "mark"
    /\ fetch_request' = SetStatus(fetch_request, ingest.marks, {"PENDING"}, "INGESTED")
    /\ ingest' = [ingest EXCEPT !.phase = "archive", !.marks = {}]
    /\ UNCHANGED <<batches, bronze, repeated, rejected, watermark, queue, clock>>

\* _mark_ingested: one MERGE, LANDED rows only.
IngestMark ==
    /\ ingest.phase = "mark"
    /\ fetch_request' = SetStatus(fetch_request, ingest.marks, {"LANDED"}, "INGESTED")
    /\ ingest' = [ingest EXCEPT !.phase = "archive", !.marks = {}]
    /\ UNCHANGED <<batches, bronze, repeated, rejected, watermark, queue, clock>>

\* Mutant of IngestArchive: receipts are purged whatever the status.
PurgeAnyReceipt ==
    /\ ingest.phase = "archive"
    /\ \E purged \in SUBSET { k \in done :
                                ingest.worked = {} \/ KeyBatch(k) \in ingest.worked } :
         done' = done \ purged
    /\ ingest' = IdleIngest
    /\ UNCHANGED <<delta, pending, failed, raw, clock>>

\* archive_done: INGESTED keys of the batches worked on (of all, if none);
\* each delete may fail on its own.
IngestArchive ==
    /\ ingest.phase = "archive"
    /\ \E purged \in SUBSET { k \in done \cap WithStatus("INGESTED") :
                                ingest.worked = {} \/ KeyBatch(k) \in ingest.worked } :
         done' = done \ purged
    /\ ingest' = IdleIngest
    /\ UNCHANGED <<delta, pending, failed, raw, clock>>

IngestCrash ==
    /\ ingest.phase # "idle"
    /\ Crash
    /\ ingest' = IdleIngest
    /\ UNCHANGED <<delta, queue, today>>

IngestWork ==
    \/ IngestReadDone \/ IngestMerge \/ IngestSelect
    \/ \E i \in Instruments : IngestOpenGroup(i)
    \/ IngestAppendNew \/ IngestAppendAmended \/ IngestAppendRejected
    \/ IngestGroupsDone \/ IngestFlush \/ IngestMark \/ IngestArchive
=============================================================================
