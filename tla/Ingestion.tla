------------------------------ MODULE Ingestion ------------------------------
(***************************************************************************)
(* BronzeIngestionJob, the single-plane job: for each instrument it reads  *)
(* the watermark, plans, asks the provider chunk by chunk, validates,      *)
(* appends to Bronze and moves the watermark.                              *)
(*                                                                         *)
(* setup is what the job is built of: "spark" (Delta tables, the universe  *)
(* from the reference tables), "csv" (in memory, tickers without ids, for  *)
(* which the Delta watermark store has no key) or "legacy" (in memory,     *)
(* WatermarkManager, as the tests inject it).                              *)
(***************************************************************************)
EXTENDS Planning, MarketData

CONSTANTS
    Setups,        \* the setups to look at
    Prices,        \* prices of a bar; 0 is one no bar may have
    Ranges,        \* explicit ranges a run may be given
    Faults,        \* what may fail: "read", "write", "fetch", "crash"
    Revisable,     \* days whose bar the vendor may change
    MaxDay, MaxRevisions, MaxFaults   \* bounds

ASSUME IngestionAssumption ==
    /\ Setups \subseteq {"spark", "csv", "legacy"}
    /\ Prices \subseteq Nat /\ 1 \in Prices
    /\ Ranges \subseteq Range
    /\ MaxDay \in Nat

VARIABLES
    setup,      \* see above
    day,        \* today
    published,  \* the last day whose bars are out
    vendor,     \* the vendor's price of every day's bar, per instrument
    bronze,     \* the main table: [inst, day, price, kind]
    sources,    \* the sources of its rows
    watermark,  \* the watermark of every instrument
    job,        \* the run in progress
    missed,     \* history: <<instrument, day>> asked for and not answered with a bar
    explicit,   \* history: instruments loaded for an explicit range
    revised,    \* history: <<instrument, day>> whose bar the vendor has changed
    faults      \* history: number of failures

vars == <<setup, day, published, vendor, bronze, sources, watermark, job, missed, explicit, revised, faults>>

Local     == setup # "spark"
HasKey    == setup # "csv"
NoRange   == [start |-> 1, end |-> 0]
Bar       == [day : 0 .. MaxDay, price : Prices]
IdleJob   == [phase |-> "idle", todo |-> {}, inst |-> {}, provider |-> "",
              range |-> NoRange, dry |-> FALSE, existing |-> NoWatermark,
              plan |-> [mode |-> "NO_OP", start |-> 0, end |-> 0], from |-> 0,
              got |-> {}, new |-> {}, amended |-> {}]
Stored(i) == { r \in bronze : r.inst = i }

Init ==
    /\ setup \in Setups
    /\ day = 0 /\ published \in {-1, 0}
    /\ vendor = [i \in Instruments |-> [d \in 0 .. MaxDay |-> 1]]
    /\ bronze = {} /\ sources = {}
    /\ watermark = [i \in Instruments |-> NoWatermark]
    /\ job = IdleJob
    /\ missed = {} /\ explicit = {} /\ revised = {} /\ faults = 0

history == <<missed, explicit, revised, faults>>
world   == <<setup, day, published, vendor>>
tables  == <<bronze, sources, watermark>>

\* A failure, where there are tables and a vendor that can fail.
Fault(kind) == kind \in Faults /\ faults < MaxFaults /\ faults' = faults + 1

(***************************************************************************)
(* The run.                                                                *)
(***************************************************************************)
\* The constructor resolves a provider, run() gets the tickers.
StartRun(healthy, insts, range, dry) ==
    /\ job.phase = "idle"
    /\ \E p \in Resolved(healthy) :
         job' = [IdleJob EXCEPT !.phase = "next", !.provider = p, !.todo = insts,
                                !.range = range, !.dry = dry]
    /\ UNCHANGED <<world, tables, history>>

\* Mutant of Planned: a suspension is not put into effect.
SuspensionIgnored(i, existing) ==
    IF job.range # NoRange
    THEN [mode |-> "EXPLICIT_DATE_RANGE", start |-> job.range.start, end |-> job.range.end]
    ELSE Plan(i, [existing EXCEPT !.suspended = FALSE], day)

\* The planner's plan, or the explicit range in its place, whatever was planned.
Planned(i, existing) ==
    IF job.range # NoRange
    THEN [mode |-> "EXPLICIT_DATE_RANGE", start |-> job.range.start, end |-> job.range.end]
    ELSE Plan(i, existing, day)

Dropped(i) == [job EXCEPT !.phase = "next", !.todo = @ \ {i}, !.inst = {}, !.existing = NoWatermark,
                          !.plan = IdleJob.plan, !.from = 0, !.got = {}, !.new = {}, !.amended = {}]

\* _process_ticker, steps 1 to 3, with the watermark that has been read.
PlanWith(i, existing) ==
    /\ job.phase = "next" /\ i \in job.todo
    /\ LET plan == Planned(i, existing)
       IN  job' = IF plan.mode = "NO_OP" \/ job.dry THEN Dropped(i)
                  ELSE [job EXCEPT !.phase = "fetch", !.inst = {i}, !.existing = existing,
                                   !.plan = plan, !.from = plan.start]
    /\ UNCHANGED <<world, tables, missed, explicit, revised>>

PlanTicker(i) ==
    PlanWith(i, IF HasKey THEN watermark[i] ELSE NoWatermark) /\ UNCHANGED faults

\* The Delta store takes a failed read for a first run.
PlanUnread(i) == ~Local /\ Fault("read") /\ PlanWith(i, NoWatermark)

\* The chunk in turn, and the start of the next one.
ChunkLast == Earlier(job.from + BatchSizeDays - 1, job.plan.end)

\* Mutant of NextFrom: one day is skipped between two chunks.
NextButOne == ChunkLast + 2

NextFrom == ChunkLast + 1

\* What the provider answers.
Answer(i) ==
    { [day |-> d, price |-> vendor[i][d]] :
        d \in Reach(job.provider, job.from, ChunkLast, day) \cap TradingDays \cap 0 .. published }

\* What validate_batch lets through.
Writable(bars) == { b \in bars : b.price > 0 }

\* Published days of the chunk for which there will be no row.
Missing(i, bars) ==
    { <<i, d>> : d \in { e \in TradingDays : job.from <= e /\ e <= ChunkLast /\ e <= published }
                         \ { b.day : b \in Writable(bars) } }

\* _fetch_in_batches, one chunk that is answered ...
FetchChunk(i) ==
    /\ job.phase = "fetch" /\ i \in job.inst /\ job.from <= job.plan.end
    /\ job' = [job EXCEPT !.got = @ \cup { b \in Answer(i) : Kept(job.provider, b) },
                          !.from = NextFrom]
    /\ missed' = missed \cup Missing(i, Answer(i))
    /\ explicit' = IF job.range # NoRange THEN explicit \cup {i} ELSE explicit
    /\ UNCHANGED <<world, tables, revised, faults>>

\* ... and one that is not: an exception is logged, Client Portal returns nothing.
FetchFails(i) ==
    /\ job.phase = "fetch" /\ i \in job.inst /\ job.from <= job.plan.end
    /\ Fault("fetch")
    /\ job' = [job EXCEPT !.from = NextFrom]
    /\ missed' = missed \cup Missing(i, {})
    /\ UNCHANGED <<world, tables, explicit, revised>>

\* No data: the ticker is skipped.
FetchEmpty(i) ==
    /\ job.phase = "fetch" /\ i \in job.inst /\ job.from > job.plan.end
    /\ job.got = {}
    /\ job' = Dropped(i)
    /\ UNCHANGED <<world, tables, history>>

\* Mutant of Existing: the keys never match, in memory either.
NothingMatches(i, b) == {}

\* The row a bar is compared with: on Spark none, since the stored dates are not
\* the strings that come in.  All versions are 1, so that the first row of a day
\* stays its latest, whatever has been appended as an amendment.
Existing(i, b) ==
    IF Local THEN { r \in Stored(i) : r.day = b.day /\ r.kind = "new" } ELSE {}

\* _bulk_classify over what validate_batch found writable.
Classify(i) ==
    /\ job.phase = "fetch" /\ i \in job.inst /\ job.from > job.plan.end
    /\ job.got # {}
    /\ LET bars == Writable(job.got)
       IN  job' = [job EXCEPT
             !.phase   = "new",
             !.new     = { b \in bars : Existing(i, b) = {} },
             !.amended = { b \in bars : \E r \in Existing(i, b) : r.price # b.price }]
    /\ UNCHANGED <<world, tables, history>>

Rows(i, bars, kind) == { [inst |-> i, day |-> b.day, price |-> b.price, kind |-> kind] : b \in bars }

\* _append_records to the main table, which is not called without records.
AppendRecords(i, bars, kind) ==
    /\ bronze' = bronze \cup Rows(i, bars, kind)
    /\ sources' = sources \cup IF bars = {} THEN {} ELSE {job.provider}

\* write_batch: the new records are appended first ...
AppendNew(i) ==
    /\ job.phase = "new" /\ i \in job.inst
    /\ AppendRecords(i, job.new, "new")
    /\ job' = [job EXCEPT !.phase = "amended"]
    /\ UNCHANGED <<world, watermark, history>>

\* Mutant of AppendAmended: amendments are counted and not appended.
AmendedLost(i) ==
    /\ job.phase = "amended" /\ i \in job.inst
    /\ job' = [job EXCEPT !.phase = "watermark"]
    /\ UNCHANGED <<world, tables, history>>

\* ... then the amendments, and the rejected ones to their own table.
AppendAmended(i) ==
    /\ job.phase = "amended" /\ i \in job.inst
    /\ AppendRecords(i, job.amended, "amended")
    /\ job' = [job EXCEPT !.phase = "watermark"]
    /\ UNCHANGED <<world, watermark, history>>

Least(ds)    == CHOOSE d \in ds : \A e \in ds : d <= e
Greatest(ds) == CHOOSE d \in ds : \A e \in ds : e <= d

\* Mutant of Advanced: the watermark gets the range that was asked for.
AdvancedToPlan(existing) ==
    [earliest  |-> IF existing = NoWatermark THEN job.plan.start ELSE Earlier(job.plan.start, existing.earliest),
     latest    |-> Later(job.plan.end, existing.latest),
     suspended |-> FALSE]

\* The dates of all writable records, those skipped as duplicates too, widened
\* with a watermark that has been read.
Advanced(existing) ==
    LET days == { b.day : b \in Writable(job.got) }
    IN  [earliest  |-> IF existing = NoWatermark THEN Least(days)
                       ELSE Earlier(Least(days), existing.earliest),
         latest    |-> Later(Greatest(days), existing.latest),
         suspended |-> FALSE]

Widen(wm, existing) ==
    IF existing = NoWatermark THEN wm
    ELSE [wm EXCEPT !.earliest = Earlier(@, existing.earliest), !.latest = Later(@, existing.latest)]

\* _update_watermark_after_write; the store reads once more and widens again.
UpdateWith(i, existing) ==
    /\ job.phase = "watermark" /\ i \in job.inst
    /\ watermark' = IF HasKey /\ job.new \cup job.amended # {}
                    THEN [watermark EXCEPT ![i] = Widen(Advanced(job.existing), existing)]
                    ELSE watermark
    /\ job' = Dropped(i)
    /\ UNCHANGED <<world, bronze, sources, missed, explicit, revised>>

UpdateWatermark(i) == UpdateWith(i, watermark[i]) /\ UNCHANGED faults
UpdateUnread(i)    == ~Local /\ Fault("read") /\ UpdateWith(i, NoWatermark)

\* A table that cannot be written fails the ticker, not the run.  The handler
\* looks for the watermark under the symbol, where the Delta store has none.
TickerFails(i) ==
    /\ job.phase \in {"new", "amended", "watermark"} /\ i \in job.inst
    /\ ~Local /\ Fault("write")
    /\ job' = Dropped(i)
    /\ UNCHANGED <<world, tables, missed, explicit, revised>>

RunEnds ==
    /\ job.phase = "next" /\ job.todo = {}
    /\ job' = IdleJob
    /\ UNCHANGED <<world, tables, history>>

\* The process dies.  In memory that is the end of everything, and the next
\* process starts from Init on a later day.
Crash ==
    /\ job.phase # "idle" /\ ~Local /\ Fault("crash")
    /\ job' = IdleJob
    /\ UNCHANGED <<world, tables, missed, explicit, revised>>

(***************************************************************************)
(* Everything else.                                                        *)
(***************************************************************************)
\* A run ends on the day it starts, which is also its as_of_date.
NextDay ==
    /\ job.phase = "idle" /\ published = day /\ day < MaxDay /\ day' = day + 1
    /\ UNCHANGED <<setup, published, vendor, tables, job, history>>

Publish ==
    /\ published' = day
    /\ UNCHANGED <<setup, day, vendor, tables, job, history>>

\* The vendor corrects a bar, or withdraws its prices.
Revise(i, d) ==
    /\ d \in TradingDays \cap Revisable /\ d <= published /\ Cardinality(revised) < MaxRevisions
    /\ \E price \in Prices \ {vendor[i][d]} : vendor' = [vendor EXCEPT ![i][d] = price]
    /\ revised' = revised \cup {<<i, d>>}
    /\ UNCHANGED <<setup, day, published, tables, job, missed, explicit, faults>>

\* An operator suspends an instrument.
Suspend(i) ==
    /\ setup = "spark" /\ watermark[i] # NoWatermark /\ ~watermark[i].suspended
    /\ watermark' = [watermark EXCEPT ![i].suspended = TRUE]
    /\ UNCHANGED <<world, bronze, sources, job, history>>

Work(i) ==
    \/ PlanTicker(i) \/ FetchChunk(i) \/ FetchEmpty(i) \/ Classify(i)
    \/ AppendNew(i) \/ AppendAmended(i) \/ UpdateWatermark(i)

Failure(i) == PlanUnread(i) \/ FetchFails(i) \/ TickerFails(i) \/ UpdateUnread(i)

Next ==
    \/ \E healthy \in SUBSET Registered, insts \in (SUBSET Instruments) \ {{}},
          range \in Ranges \cup {NoRange}, dry \in BOOLEAN :
         StartRun(healthy, insts, range, dry)
    \/ \E i \in Instruments : Work(i) \/ Failure(i)
    \/ RunEnds \/ Crash \/ NextDay \/ Publish
    \/ \E i \in Instruments, d \in 0 .. MaxDay : Revise(i, d)
    \/ \E i \in Instruments : Suspend(i)

Spec == Init /\ [][Next]_vars

(***************************************************************************)
(* Fairness: a run that has been started gets on with its work, and the    *)
(* bars of a day come out.  Nothing starts a run: the schedule of the job  *)
(* is paused, with a fixed range as its parameters, and as a cloud job it  *)
(* reaches no provider.  Failures are finitely many, which MaxFaults says. *)
(***************************************************************************)
Fairness ==
    /\ WF_vars(RunEnds \/ \E i \in Instruments : Work(i))
    /\ WF_vars(Publish)

FairSpec == Spec /\ Fairness
-----------------------------------------------------------------------------
\* Shape of the state.
TypeOK ==
    /\ setup \in {"spark", "csv", "legacy"}
    /\ day \in 0 .. MaxDay /\ published \in {day - 1, day}
    /\ vendor \in [Instruments -> [0 .. MaxDay -> Prices]]
    /\ bronze \subseteq [inst : Instruments, day : 0 .. MaxDay, price : Prices \ {0}, kind : {"new", "amended"}]
    /\ sources \subseteq Registered
    /\ watermark \in [Instruments -> Watermark]
    /\ job.inst \subseteq job.todo /\ job.todo \subseteq Instruments
    /\ job.got \cup job.new \cup job.amended \subseteq Bar

\* The production guard: no row comes from a provider that is not approved,
\* and nobody but the first healthy one of the list is asked.
OnlyApprovedSources == sources \subseteq Production

\* The ends of a watermark are dates of rows, whatever was planned or failed.
WatermarkOfRows ==
    \A i \in Instruments : watermark[i] # NoWatermark =>
      {watermark[i].earliest, watermark[i].latest} \subseteq { r.day : r \in Stored(i) }

\* A trading day under the watermark has a row, unless the provider was asked
\* for it and did not answer with a bar, or an explicit range has left a gap:
\* plans and chunks follow on each other without holes.
HolesHaveACause ==
    \A i \in Instruments \ explicit, d \in TradingDays :
      watermark[i].earliest <= d /\ d <= watermark[i].latest =>
        \/ \E r \in Stored(i) : r.day = d
        \/ <<i, d>> \in missed

\* Re-fetching what is stored (amendment buffer, reloads, runs without a
\* watermark) appends nothing in memory, where the keys match: only a bar that
\* the vendor has revised gets a second row.
UnrevisedOnce ==
    Local => \A i \in job.inst : \A b \in job.new \cup job.amended :
      job.phase = "new" /\ (\E r \in Stored(i) : r.day = b.day) => <<i, b.day>> \in revised

\* When the watermark moves, what the provider answered is in the table.
AnswersAreStored ==
    [][\A i \in Instruments :
         watermark'[i] # watermark[i] /\ i \in job.inst /\ job.phase = "watermark" =>
           \A b \in Writable(job.got) : \E r \in Stored(i) : r.day = b.day /\ r.price = b.price]_vars

\* A suspension is lifted by an explicit range, or by a run that had read the
\* watermark before (or could not read it), and by nothing else.
SuspensionHolds ==
    [][\A i \in Instruments :
         watermark[i].suspended /\ ~watermark'[i].suspended =>
           i \in job.inst /\ (job.range # NoRange \/ ~job.existing.suspended)]_vars

\* Somebody starts the job again and again on the local machine, for all
\* instruments and without a range, and a provider answers its health check.
RunByHand ==
    []<>(job.phase = "next" /\ job.todo = Instruments /\ job.range = NoRange /\ ~job.dry)

\* If the job is run by hand again and again, the table catches up with the
\* vendor, crashes, failures and explicit ranges in between notwithstanding: the
\* bar of the current day comes to have a row.  (Earlier days may be out of the
\* provider's reach, see HolesHaveACause.)  Only an instrument that is suspended
\* again and again is left behind.
CatchesUp ==
    RunByHand =>
      \A i \in Instruments :
        \/ []<>(watermark[i].suspended)
        \/ <>[](day \in TradingDays /\ day <= published /\ vendor[i][day] > 0 =>
                  \E r \in Stored(i) : r.day = day)
=============================================================================
