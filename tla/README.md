# Verification of TradeAnalytics

TLA+ models, TLC runs and TLAPS proofs for the parts of TradeAnalytics that
exist at this commit: the two-plane ingestion of market data, the single-plane
job it replaces, the validation of bars, the reference data and the
corporate-action saga. Paths are relative to the repository's root, seen here as
`src/` (so that its Python package is `src/src/`); `src/docs/workflows/` and
`src/config/` are the documents and settings that are quoted.

- `*.tla`, `*.cfg`: the modules (section 2), their instances and runs (section 3);
- `PROJECT.json`: components with their status, runs, the mutants that show that
  each property can fail, the lines of code every definition stands for, findings,
  hazards (each at its line) and theorems;
- to check a run: `tlc -config OneInstrument.cfg MCPipeline`; a proof: `tlapm PipelineSafety.tla`.

## 1. The system

A planner job decides what to fetch, an agent on an EC2 box fetches it, and an
ingestion job moves it into the Bronze tables. The three never call each other.
They meet in four places, and most of what is hard in this code is there:

| shared state | written by | read by |
|---|---|---|
| `control.fetch_request` (Delta): one row per request, with a status | planner (insert, ORPHANED), ingestion (LANDED, FAILED, INGESTED) | planner, ingestion |
| S3 queue `control/fetch/<vendor>/{pending,done,failed}/` | planner (`pending/`), agent (moves), ingestion (purges `done/`) | all three |
| raw zone (S3 payloads) | agent | ingestion |
| `control.ingestion_watermark`, `bronze.market_data_daily`, `bronze.market_data_rejected` (Delta) | ingestion | planner (watermark), ingestion |

Around it: the universe synchronisation fills the reference tables from which
the planner reads its instruments; the vendor-id seeding maps them through the
same agent and queue; the validator stands between a payload and Bronze; the
single-plane job does planning, fetching and writing in one process; the
corporate-action detector compares Bronze with the vendor and opens candidates
that the classifier turns into audit rows and reload commands.

### Components

| component (code) | state it keeps | operations | what is hard | what makes it correct |
|---|---|---|---|---|
| Planner job (`src/src/control/jobs/fetch_planner_job.py`) | a run in progress | orphan repair, in-flight read, plan per instrument, insert, manifests | reads that are stale when used, death between insert and manifests | never double-queues, never leaves untracked work, heals what it left |
| Ingestion planner (`src/src/bronze/models/ingestion_planner.py`) | none | `plan` | eight priorities over one watermark | no day is forgotten |
| Request builder (`src/src/control/fetch/request_builder.py`) | none | `build` | inclusive bounds, short last chunk | each day in exactly one request |
| Request repository (`src/src/control/fetch/request_repository.py`) | none | `save_all` | one commit, then a pool of puts | rows before manifests |
| Fetch agent (`src/agents/fetch_agent/fetch_agent.py`) | a poll cycle in progress | list, fetch, land, move, qualify | move = put + delete, retries, death | a landed payload has a receipt, the queue drains |
| Raw to Bronze job (`src/src/bronze/jobs/raw_to_bronze_job.py`) | a run in progress, its buffers | reconcile, ingest, flush, mark, archive | five commits and a purge, any of which may be the last | what is INGESTED is in Bronze; a load without dedup appends nothing twice; the watermark tells the truth |
| Bronze writer (`src/src/bronze/writers/bronze_writer.py`) | none | `write_batch` | three appends; dedup skipped for some loads, ineffective on Spark | a replay loses nothing, and duplicates nothing where the dedup is skipped |
| Watermark store (`src/src/control/watermark/delta_watermark_store.py`) | the watermark table | get, upsert, bulk upsert | swallowed errors, LEAST/GREATEST | only widens |
| Trading calendar (`src/src/shared/calendar/us_equity_calendar.py`) | none | `last_trading_day` | – | – |
| Validator, rule engine (`src/src/bronze/validation/`) | a batch in progress, its counters and audit log | `validate_batch`, `for_stream` | nulls, NaN and text in every field, rules that raise, configuration that is not found | what is written can have been traded, or is flagged |
| Bronze record (`src/src/bronze/models/bronze_record.py`) | immutable records | construction, `amend` | derived fields, chains of amendments | an amendment is linked to what it supersedes |
| Single-plane job (`src/src/bronze/jobs/bronze_ingestion_job.py`, `writers/watermark_manager.py`) | a run, Bronze, watermarks | `run` per ticker: plan, chunks, validate, classify, append, watermark | failed chunks, late vendors, suspensions, retries, death | rows before watermarks, holes only where the provider was asked and did not answer |
| Providers and factory (`src/src/bronze/providers/`) | sessions | `resolve`, `fetch_historical` | each answers another part of a range | only approved sources |
| Universe synchronisation (`src/notebooks/reference/02_universe_sync.py`) | the `reference.*` tables | appends and updates, table after table | ids read back by attributes, no keys, death between appends | one symbol per instrument, nothing repeated |
| Vendor-id seeding (`src/notebooks/reference/06_seed_vendor_ids.py`) | `instrument_vendor_id`, a request | submit, poll, load | two notebooks, late and repeated answers | one current mapping |
| Corporate-action detector and classifier (`src/src/control/corporate_actions/`) | candidates, audit rows, commands | `detect_and_record`, `process_detected_candidates` | four statements per candidate, retries, death, two runs | a decision is backed by its rows, and comes if the classifier is run again |
| Corporate-action providers, ratio table | none | splits, dividends | ratios as floats, tolerance | a factor fits the prices |
| Configuration loader (`src/src/shared/config/`) | merged files | lookups | paths from the wrong root | – |

Not modelled at all: the packages that are empty at this commit (silver, gold,
execution, llm, api). What is left out of the others is in section 6.

## 2. The modules

```
Chunking ─► Planning ─► ControlPlane ─┬─► FetchPlanner ─┐
    │          │                      ├─► FetchAgent  ──┼─► Pipeline ─► MCPipeline
    │          │                      └─► RawToBronze ──┘      │ INSTANCE
    │          │                                         RequestLifecycle
    │          └──┬─► Ingestion ─► MCIngestion
    │   MarketData┘
    └─► RequestBuilder ─► MCRequestBuilder

Validation, BronzeRecords ─► Quality ─► MCQuality
UniverseSync ─► VendorSeeding ─► Reference ─► MCReference
Splits ─► CorporateActions ─► MCCorporateActions

proofs:  Pipeline ─► PipelineSafety ─► PipelinePlanning ─► PipelineWatermark
         RequestBuilder ─► RequestBuilderProofs,   Ingestion ─► IngestionProofs
         Reference ─► ReferenceProofs,   CorporateActions ─► CorporateActionsProofs
         Quality ─► QualityProofs
```

| module | models |
|---|---|
| `Chunking` | the chunk arithmetic of `FetchRequestBuilder.build` in closed form |
| `RequestBuilder` | `build` as the loop it is, one chunk per turn |
| `Planning` | `IngestionPlanner.plan`, the rows `build` returns, the stream's configuration as constants |
| `ControlPlane` | the tables, the queue, the raw zone, the clock |
| `FetchPlanner` | one planner run: `PlannerStart`, `PlannerListPending`, `PlannerMarkOrphans` (orphan repair), `PlannerReadInFlight`, `PlannerPlan(i)`, `PlannerPlanned`, `PlannerInsert`, `PlannerPutManifest(k)`, `PlannerFinish`, `PlannerCrash` |
| `FetchAgent` | one poll cycle: `AgentPoll`, `AgentTake(k)`, `AgentLand`, `AgentPutDone`, `AgentDeletePending`, `AgentAttemptFails`, `AgentPutFailed`, `AgentCycleEnds`, `AgentCrash` |
| `RawToBronze` | one ingestion run: `IngestReadFailed`, `IngestReadDone`, `IngestMerge` (reconcile), `IngestSelect`, `IngestOpenGroup(i)`, `IngestAppendNew/Amended/Rejected` (`write_batch`), `IngestGroupFails`, `IngestGroupsDone`, `IngestFlush`, `IngestMark`, `IngestArchive`, `IngestCrash` |
| `RequestLifecycle` | the abstract specification: the state machine of `docs/workflows/ingestion_workflow.md` section 3, "an instrument is not queued while it has unfinished requests", and "a request whose manifest is in the queue is not given up" |
| `Pipeline` | the three processes interleaved, the properties, the refinement of `RequestLifecycle`, the fairness |
| `Validation` | `validate_batch` record by record: the rules in their order, rules that raise, severities, completeness score, enrichment, counters, audit log, continuity check; what `for_stream` and a direct construction configure |
| `BronzeRecords` | `BronzeRecord.__post_init__`, keys, tiers, completeness, `amend` |
| `Quality` | the two side by side: what the validator lets through against what a record accepts |
| `UniverseSync` | the notebook as its writes: `SyncStart` (the sources), `SyncInsertInstruments`, `SyncInsertListings`, `SyncInsertMemberships`, `SyncCorrectClass`, `SyncSeedInstrument`, `SyncSeedListing`, `SyncSeedFails`, `SyncSeedFeeds`, `SyncCrash` |
| `VendorSeeding` | `SeederStart`, `SeederPoll`, `SeederStops`, `SeederLoad` of the notebook and `AgentQualify`, `AgentRefuses` of the agent |
| `Reference` | both over the same tables, and the view the planner's readers have of them |
| `Splits` | the ratio table, its tolerance, the classifier's matching and Yahoo's rounding, over exact ratios |
| `CorporateActions` | the detector's statements (`DetectRead`, `DetectCompare`, `DetectReadOpen`, `DetectInsert`), the classifier's (`ClassifyStart`, `ClassifyNext`, `ClassifyDismiss`, `ClassifyWriteAction`, `ClassifyIssue`, `ClassifySelect`, `ClassifyUpdate`, `ClassifyRaises`, `ClassifyEnd`, `ClassifyDies`), the notebook's `Seed`, the load that moves the stored price |
| `MarketData` | the provider chain with its production guard; of each provider the days of a range it can answer, and the bars it keeps |
| `Ingestion` | the single-plane job per ticker: `StartRun`, `PlanTicker`, `FetchChunk`, `FetchEmpty`, `FetchFails`, `Classify`, `AppendNew`, `AppendAmended`, `UpdateWatermark`, `TickerFails`, `RunEnds`, `Crash`, with the vendor that publishes and revises and the operator that suspends |

### Steps and state of the pipeline

A step is one remote call: one Delta statement, one listing, one put or delete.
What the code does between two calls is local and part of the step before. A
process may die between any two steps; what it held in its record (`planner`,
`agent`, `ingest`) is then gone, what it wrote stays.

A request key `<batch>_<vendor>_<symbol>_<seq>` is the triple
`<<batch, instrument, seq>>`; batch ids are numbered in the order of their
inserts, which is the order of the timestamps in them. A queue object is its key.
A payload is the key it is stored under: its content is what the vendor has for
the range of the request (`VendorDays`), which makes the retry of a fetch the
overwrite that it is. A bar in Bronze is `<<instrument, day, batch>>`, and since a
set hides duplicates, `repeated` records the bars that a load which skips the dedup
appends although they are stored. It does not record those of other loads, which on
Spark append every bar they fetch again. A watermark is its two dates and whether it
is suspended.

`KeysMatch` says whether the dedup of the writer finds the stored version of a
bar. On Spark it does not (`bronze_writer.py:471`: the stored rows are keyed by a
`datetime.date`, the incoming ones by an ISO string), so it is FALSE wherever the
code as it stands is checked; in memory the keys do match, which `Ingestion`
distinguishes by its `setup`.

Errors that the code tolerates are enabled by kind through the constant
`Faults`: a listing or a watermark read that fails and counts as empty, a failed
flush, guard or dedup query, manifests that are not put, manifests the agent
refuses, receipts that cannot be read, the lost reply of a delete. An exception
that the code lets through ends the run or the group and is a crash. `"dry_run"`
lets runs stop where `dry_run=True` stops them.

### State of the other models

`Ingestion`: a row of Bronze is `[inst, day, price, kind]`, a run in progress is
the record `job` (its ticker, plan, chunk, answers, classified bars), and four
history variables name what a property may excuse (`missed`, `explicit`, `revised`)
or bound (`faults`). `setup` is what the job is built of: over Delta (`"spark"`),
in memory with tickers that have no ids (`"csv"`), and in memory with
`WatermarkManager` (`"legacy"`, as the tests inject it).

`Validation`: a record is the fields the rules read, each a number or one of `Null`,
`NaN`, `Text`, because Python compares them differently: a comparison with NaN is
false, one with None or text raises. Prices and dates are integers, dates count from a
Monday. The rules that fire are given by their places in the list of rules: the order of
the results is that of the places, and a rule that is listed twice has two.

`UniverseSync`: an instrument is the identity Delta gives its row. Tables without
a key are sets, and `repeated` remembers what an append repeats.

`CorporateActions`: a candidate id is `<<instrument, n>>`, `n` the number of the
INSERT that made it. The audit table has no key and is a bag. `Raising` are the
statements of the classifier that may raise before they take effect, `LostReplies` the
UPDATEs that may raise after their commit, so that the handler overwrites them. An
INSERT that does the latter is no different from the statement after it raising.

Definitions headed "Mutant of ..." are not part of the model: each is a plausible
bug in the definition after it, kept beside it to show that a property notices.

## 3. Runs

| run | question | setting | distinct states |
|---|---|---|---|
| `OneInstrument` | do queue, payloads, Bronze and watermark agree, is the life cycle kept, does a replay repeat anything, is a load without data repeated? | initial load, history extension and increments of 1 instrument, each load one request, 3 batches, 2 days, the first without a bar, and day 0 before them, 1 crash anywhere, keys that do not match | 924,570 |
| `Faulty` | what survives every tolerated error? | all `Faults`, both jobs side by side, suspensions, revised and rejected bars, keys that match | 786,789 |
| `Live` | does every request, landing and instrument get there? | 2 attempts, 2 batches, 1 crash, `FairSpec` | 19,863 |
| `RequestBuilder` | does the loop cover each day once and compute the closed form? | 13 dates before, at and after 0, sizes -1 to 5, chunks of 4 | 8·10^3 |
| `Quality` | can what is written have been traded, is what a record would refuse flagged, do alerts say the truth? | 1 bar with every constellation of odd prices, contexts and corporate actions, 3 bars over two weeks, both engines; 3 records | 94,734 |
| `Reference` | do tables without keys stay consistent? | 3 symbols (one a seed), 2 days, 2 seeding notebooks, 2 requests, 1 crash or failed source | 1,916,363 |
| `CorporateActions` | is a decision backed by its rows, does the factor fit, does the decision come? | prices 100, 35, 30 (a 3-for-1 split at the edge of its tolerance, and moves that are no known split), 3 days, 2 inserts, 1 death, statements that raise before (`Raising`) or after their commit (`LostReplies`), Yahoo's split and dividend | 406,129 |
| `Ingestion` | do rows and watermark stay in step, does today's bar arrive? | 3 setups, 3 days, 3 providers with Yahoo not approved, chunks of 1 day, a bar that is revised or withdrawn, an explicit range, 2 failures of any kind, `FairSpec` | 654,732 |
| `ChunkSkipped`, `FailedChunk`, `LandedOrphaned`, `StreamSettings` | the findings below | the smallest instance that shows each | – |

Bounds are constants: `MaxBatches` (planner runs that emit), `MaxDay`, `MaxCrashes`
(deaths and failed groups, seeds or funds), `MaxDetections`, `MaxRequests`,
`MaxRevisions`, `MaxFaults`, `MaxRecords`, and the settings of the code
(`MaxAttempts`, `ListLimit`, chunk sizes, buffer). They are guards of the actions
they count. Why they suffice:

- each property needs few actors to fail: one instrument and two batches show every
  race between the three processes, the third batch a load that follows a replay. What
  the groups of several instruments could do to each other in one ingestion run is left
  to the theorems, which hold for any set of instruments;
- one crash reaches every intermediate state, because recovery starts from the
  tables alone; in `Ingestion` two, so that a failure can meet the repair of another;
- three days give a first load, an increment, and a gap;
- a failure of "action" leaves the tables as one of "dismiss" does, one of "update" as
  one of "select", so that `Raising` leaves these two out in the run;
- two notebooks, two detections and the classifier in between are the smallest
  instance in which a reading is stale when it is used.

The pipeline, the jobs and the notebooks are checked with deadlock on where they
should always be able to go on (`OneInstrument`, `Faulty`, `Live`, `Ingestion`).
`CHECK_DEADLOCK FALSE` stands where the program stops: `RequestBuilder` (a call returns or raises), `Quality` (a batch is validated, records are bounded),
`Reference` and `CorporateActions` (days, runs and inserts are used up, and nothing
is left to do).

### What the passing runs show

*Pipeline.* Work is never double-queued (`OneBatchInFlight`), rows precede manifests
(`NoUntrackedWork`), no landing is lost between the agent's move and the
reconciliation (`ReceiptNotLost`), orphan repair and the agent do not get in each
other's way as long as listings succeed (`OrphanNotQueued`), INGESTED means stored
(`IngestedIsComplete`), nothing between the two watermark dates is missing
(`WatermarkHasNoHoles`), the days of a failed or orphaned request come back
(`FailedLoadsReplanned`), a load that skips the dedup appends nothing twice, replayed
or not (`NoRepeatedAppend`; of increments, which on Spark append again what they fetch
again, it says nothing), the watermark only widens (`WatermarkOnlyWidens`), an
instrument without data is loaded once (`InitialLoadOnce`), and statuses and queue
follow the life cycle (`FollowsLifecycle`). In `RequestLifecycle` a row is given up
when its manifest is not in the queue, which is what the code looks at; that it was
never written, as the document's drawing has it, is refuted by `LandedOrphaned`.

Each load of `OneInstrument` is one request, where `IngestedIsComplete` and
`WatermarkHasNoHoles` hold. With several, `ChunkSkipped` and `FailedChunk` refute the one
and the other; what remains of them then is `FailedLoadsReplanned`, whose exception is
a load that came through in part, and `CoveredIsAccountedFor` (section 4). These two are
proved for loads of any number of requests.

*Validation and records.* Four numbers that pass the rules are a bar that can have
been traded (`WrittenIsTradable`); what a rule that raises lets through carries the
flag or would be accepted by `BronzeRecord` (`WrittenIsRecordOrFlagged`); the
estimate of missing days, which works on calendar days, alerts exactly at five
weekdays (`AlertIffFiveDaysMissing`). That the score is the record's own, with no field
exempted (`EveryFieldIsScored`), and that amendments are linked to what they supersede
(`AmendmentsAreLinked`) is proved only; no code calls `amend` yet.

*Reference data.* Instruments without a listing stay unreferenced
(`NothingRefersToUnlisted`), the planner sees each instrument under one symbol and
conversely (`UniverseIsUnambiguous`, `OneSymbolPerInstrument`), two seeding notebooks
with late and repeated answers leave one current mapping (`OneCurrentMapping`), and
a rerun repeats nothing but inactive memberships (`AppendedOnce`, see section 5).

*Corporate actions.* One open candidate per instrument although the open ones are
read before the insert (`OneOpenCandidate`), CLASSIFIED is backed by an audit row and
a command (`ClassifiedIsBacked`), the factor fits what prices did (`FactorFitsPrices`),
rows repeated by retries are as many as the attempts (`LoggedOncePerAttempt`), and
every candidate is decided if the classifier is run again and again
(`CandidateIsDecided`).

*Single-plane job.* Holes under the watermark are days the provider was asked for and did not answer (`HolesHaveACause`), in
memory a re-fetch appends only what was revised (`UnrevisedOnce`), rows are there before the
watermark moves (`AnswersAreStored`), suspensions hold except against explicit ranges
and runs that had not seen them (`SuspensionHolds`), and the bar of the current day
comes to be stored if the job is run by hand again and again (`CatchesUp`).

### Findings

| run | what the code does, against what it says |
|---|---|
| `ChunkSkipped` | the chunks of an initial load that land on two sides of an ingestion run: the replay guard, which knows (symbol, batch) only, takes the second for a replay of the first; it is marked INGESTED and never written |
| `FailedChunk` | of two chunks of one load the older one FAILED: the newer one moves the watermark past it, and its days are never planned again, although `ingestion_workflow.md:136` and `:154` say that the next planner run does |
| `LandedOrphaned` | a request that was fetched and waits for its reconciliation becomes ORPHANED, which `ingestion_workflow.md:139` has as "planner crashed before manifest write"; its payload is never ingested |
| `StreamSettings` | `for_stream` looks for the stream's validation section under the wrong node and finds nothing: a bar dated on a Saturday is written as clean although `streams/daily.yml:102` rejects it, and the fields that `:83` declares Yahoo not to supply lower the score to 74 %, although `:78` and `validator.py:116` say they do not count |

They decide under which conditions the passing runs are set up: loads that skip
the dedup are one chunk in `OneInstrument`, `Faulty` and `Live`.

### Fairness

`Live` assumes of each process that it goes on while it can (`WF` on `PlannerWork`,
`AgentWork`, `IngestWork`): a started job runs to its end or dies, and systemd
restarts the agent (`Restart=always`). It assumes `SF` on starting each job:
`databricks.yml` has both run by hand for now and on a daily schedule later, an hour
apart; the other job may be running whenever one looks, so weak fairness would
promise nothing. Nothing is assumed of crashes, failed attempts, the clock or the
environment, and `AgentAttemptFails` is part of `AgentWork`, so that fetches may fail
for ever: `PendingIsResolved` is then met by FAILED, and `CatchesUp` is conditional
on planner runs not being used up, since each failed request costs one.

`CorporateActions` assumes only that a classifier run gets on with it (`WF` on
`ClassifyWork`, of which a raising statement is a part). Nothing starts a run but the
end-to-end notebook, by hand: the recovery that `detector.py:147` and
`04_phase3a_schema_additions.py:261` announce is not called by `BronzeIngestionJob` or
anybody else. That the classifier is run again and again is therefore the premise of
`CandidateIsDecided`, which then holds because the third failure decides too.

`Ingestion` assumes `WF` on the work of a run, and `WF` on the vendor publishing a
day's bars. Nothing starts a run here either: the job is superseded, its schedule in
`databricks.yml` is PAUSED and has a fixed range as its parameters, and as a cloud job
it reaches no provider (`bronze_daily_ingestion.py:18`). What remains is a run on the
local machine, and that somebody starts one for all instruments without a range again
and again is the premise of `CatchesUp` (`RunByHand`). Failures are finitely many
(`MaxFaults`); an instrument that is suspended again and again is excused.

## 4. Proofs

| theorem | module | states | assumes of the constants |
|---|---|---|---|
| `BuilderCoversEachDayOnce` | `RequestBuilderProofs` | `[]EveryDayOnce` | – |
| `BuilderComputesChunks` | `RequestBuilderProofs` | `[]ComputesChunks` | – |
| `PipelineTypeCorrect` | `PipelineSafety` | `[]TypeOK` | – |
| `QueueIsTracked` | `PipelineSafety` | `[]NoUntrackedWork` | – |
| `LandedMeansPayload` | `PipelineSafety` | `[]LandedHasPayload` | – |
| `LandingIsReconcilable` | `PipelineSafety` | `[]ReceiptNotLost` | – |
| `NeverDoubleQueued` | `PipelineSafety` | `[]OneBatchInFlight` | – |
| `PipelineFollowsLifecycle` | `PipelineSafety` | `Spec` implements `RequestLifecycle` | `~JobsOverlap`, listings of `pending/` do not fail |
| `TerminalStatusIsFinal` | `PipelineSafety` | `TerminalIsFinal` | `~JobsOverlap` |
| `RepairSparesTheQueue` | `PipelineSafety` | `[]OrphanNotQueued` | listings of `pending/` do not fail |
| `IngestedIsStored` | `PipelineSafety` | `[]LoadsAreWhole => []IngestedIsComplete` | `NoneRejected` |
| `WatermarksWiden` | `PipelineSafety` | `WatermarkOnlyWidens` | `HistoriesStart` |
| `DedupFreeLoadsAppendOnce` | `PipelinePlanning` | `[]NoRepeatedAppend` | `~JobsOverlap`; neither watermark calls nor the guard's query fail |
| `IngestedLoadsAreNotRepeated` | `PipelinePlanning` | `[]InitialLoadOnce` | `~JobsOverlap`, `HistoriesStart`, `NoneRejected`; watermark calls do not fail |
| `WatermarkTellsTheTruth` | `PipelineWatermark` | `[]CoveredIsAccountedFor` | `~JobsOverlap`, `HistoriesStart`, `NoFreeRanges` |
| `FailedDaysComeBack` | `PipelineWatermark` | `[]FailedLoadsReplanned` | as before, and `OpenDaysOnly`; reads of the watermark do not fail, nothing is suspended |
| `IngestionTypeCorrect`, `ProductionSourcesOnly` | `IngestionProofs` | `[]TypeOK`, `[]OnlyApprovedSources` | – |
| `WatermarksAreOfRows` | `IngestionProofs` | `[]WatermarkOfRows` | – |
| `NothingLostOnTheWay` | `IngestionProofs` | `AnswersAreStored` | – |
| `SuspensionIsHeeded` | `IngestionProofs` | `SuspensionHolds` | – |
| `HolesAreUnanswered` | `IngestionProofs` | `[]HolesHaveACause` | `HistoriesStart`, `NoFreeRanges` |
| `RefetchIsIdempotent` | `IngestionProofs` | `[]UnrevisedOnce` | – |
| `SagaTypeCorrect` | `CorporateActionsProofs` | `[]TypeOK` | – |
| `OneOpenPerInstrument` | `CorporateActionsProofs` | `[]OneOpenCandidate` | `NoOverlap`, `DismissalsAreHeard` |
| `DecisionsAreFinal` | `CorporateActionsProofs` | `SagaOnlyAdvances` | `NoOverlap`, no `LostReplies` |
| `ClassifiedLeavesMarks` | `CorporateActionsProofs` | `[]ClassifiedIsBacked` | – |
| `FactorIsWhatPricesDid` | `CorporateActionsProofs` | `[]FactorFitsPrices` | – |
| `AuditRowsAreCounted` | `CorporateActionsProofs` | `[]LoggedOncePerAttempt` | `NoOverlap`, `DismissalsAreHeard` |
| `SplitsAreUnambiguous` | `CorporateActionsProofs` | a ratio matches at most one row of the table | – |
| `ThreeForTwoIsNeverDetected` | `CorporateActionsProofs` | `[]NeverThreeForTwo` | – |
| `AcceptedBarsAreTradable` | `QualityProofs` | `[]WrittenIsTradable` | – |
| `UnflaggedRowsAreRecords` | `QualityProofs` | `[]WrittenIsRecordOrFlagged` | – |
| `AlertsAreExact` | `QualityProofs` | `[]AlertIffFiveDaysMissing` | – |
| `EveryFieldCounts` | `QualityProofs` | `[]EveryFieldIsScored` | – |
| `AmendmentsFormChains` | `QualityProofs` | `[]AmendmentsAreLinked` | – |
| `ReferencesAreListed` | `ReferenceProofs` | `[]NothingRefersToUnlisted` | – |
| `NothingIsAppendedTwice` | `ReferenceProofs` | `[]AppendedOnce` | `NoReadFails` |
| `InstrumentsHaveOneSymbol` | `ReferenceProofs` | `[]OneSymbolPerInstrument` | `IdentifiedSources` |
| `MappingsAreUnique` | `ReferenceProofs` | `[]OneCurrentMapping` | `IdentifiedSources` |
| `PlannersUniverseIsUnambiguous` | `ReferenceProofs` | `[]UniverseIsUnambiguous` | `IdentifiedSources`, `SeparateSeeds` |

A dash: nothing beyond what the modules assume of their constants
(`BuilderAssumption`, `PlanningAssumption`, `ControlPlaneAssumption`,
`AgentAssumption`, `MarketDataAssumption`, `IngestionAssumption`, `CorporateActionsAssumption`,
`SyncAssumption`, `SeederAssumption`; for `Quality` that records have their fields and that
each is a number or one of the three odd values, that None is the same to validator and
record, and that records are constructed as originals), which TLC evaluates on each run.
So these hold for any number of instruments, days, batches, bars and chunks, for any
calendar and vendor, with every fault enabled and with both jobs side by side. The other
conditions, and why they are needed:

- `~JobsOverlap`: orphan repair updates by key alone, so that side by side it can
  turn INGESTED into ORPHANED;
- no `"pending_list"` fault: a failed listing counts as an empty queue;
- `LoadsAreWhole` (a load that skips the dedup is one request per instrument and
  batch) and `NoneRejected`: without the first `ChunkSkipped` refutes the property,
  without the second a death between the main and the rejected append does, by the
  same guard. `LoadsAreWhole` is a property of the behaviour, so that it stands
  before the implication; it holds in `OneInstrument`, `Faulty` and `Live`;
- `HistoriesStart`: every instrument has a history start; without one the lookback may
  count back past day 0, where the encoding of "no watermark" lies, and moves along
  with the day, so that a full load may begin beyond what the watermark covers;
- no `"watermark_read"`, `"watermark_flush"` or `"guard_query"` fault: each of them is
  tolerated by the code as "nothing there", after which a full load is planned again or
  replayed although its bars are stored;
- `NoneRejected` in `IngestedLoadsAreNotRepeated`: a load whose bars are all rejected has
  no date to flush, is INGESTED without a watermark, and is planned again;
- `NoFreeRanges`: no instrument is configured with a restatement or an override, whose
  range is free and may leave a gap to what the watermark covers; the flush then passes
  over that gap;
- `OpenDaysOnly`: the vendor has bars on trading days only. The planner stops once no
  trading day is missing, so that a bar of another day is not asked for again;
- no suspension in `FailedDaysComeBack`: nothing is planned for a suspended instrument;
- `NoOverlap`: one classifier run at a time, as the notebook starts it;
- `DismissalsAreHeard` (`"dismiss" \notin LostReplies`): a dismissal that raises after
  its commit lets the detector open a successor before the handler sets the candidate
  back to DETECTED;
- `NoReadFails`: the notebook takes a table it cannot read for an empty one, and appends
  its rows once more;
- `IdentifiedSources`: OpenFIGI answers for every symbol, all holdings have an
  identifier, and only members of a fund are inserted. Otherwise the same company can
  come in under two keys;
- `SeparateSeeds`: no symbol of the seed list is also held by a fund.

### The inductive invariants

*Builder*: the chunks so far are contiguous, start at the first day, and end where
the next one starts; the closed form then needs that division rounds down.

*Types*: `TypeOK` is not inductive, since an insert needs a batch number that is left
and the rows of a group in progress must exist; `TypeInv` adds `BatchLeft`,
`GroupHasBatch` and `RowsExist`.

*Queue*: what the processes hold in memory must be tied to the shared state, so
`QueueInv` says of the agent that its manifest has a row and, past `AgentLand`, a
payload; of the ingestion job that the receipts it has read name payloads; and of the
keys the planner is about to put that their rows exist.

*In flight*: `BatchInv` carries the reading of the in-flight set to the insert: rows of
a batch in flight belong to one batch, and an instrument in the planner's `emitted`
has none, which stays true because only the planner adds rows. That reading is stale
when used and still good: statuses leave the in-flight set by other hands but never
enter it.

*Life cycle*: `TurnInv` says that at most one job is running and hence that the orphans
a planner is about to mark are still PENDING.

*Orphans*: `OrphanInv` says that what the planner is about to mark is not queued, which
stays true between its listing and its update because nobody else puts manifests,
and that the manifests it is about to put are not of ORPHANED rows.

*Bronze*: `StoredInv` follows the bars from the selected rows to the marks: the rows
selected for an instrument are of one batch (from `BatchInv`), the group in hand
has, at each of its appends, the bars it does not still have to write in the table,
and every key to be marked is complete. `GuardSound` is what makes the replay guard right: where one
append stores the whole load, a bar of the batch in Bronze means all of them.

*Loads*: `RunInv` says of the run in progress that what it marks, writes and buffers is of
LANDED rows of one batch per instrument, `EndsInv` that no row asks for days past
`DayBound`. `AccountInv` accounts for every bar in Bronze: it lies within the watermark,
or a request that is still LANDED brings it, and where that request is to be marked the
buffer already holds its day. Hence (`FreshInv`) what a load without dedup asks for is
not in Bronze from another batch, and (`LoadInv`) an ingested load has left a watermark.

*Joining*: a day may be lost in two ways only: the watermark passes over it, or no plan
reaches it. `PastInv` says that what is planned, asked for and buffered is a range, that
the rows of a load leave no day between them, and that buffered dates lie in the requests
to be marked. `JoinInv` says where loads in flight begin and end: with the history as
long as there is no watermark, and with no gap to the watermark afterwards, which also holds
for the watermark of a later moment, since only this load can have widened it. Hence
`NoHoles`: what the watermark covers is *secured*, in Bronze or asked for by a load
of which a request has arrived. `ThroughInv` adds what a request that is INGESTED, or
about to be marked, has done: its bars are stored, or it looked like a replay. The two
make `CoveredIsAccountedFor`. `DueInv` is the other half: a day that was asked for is secured or
on the side of the watermark on which the next plan works.

*Watermark*: `DatesInv` says that nothing planned, asked for, buffered or stored ends
before day 0, so that LEAST and GREATEST never meet the "no watermark" value by accident.

*Single-plane job*: `RunInv` ties the run to the tables: the watermark it has read and
the one stored are of rows, past the appends everything writable it has got is in
the table, and a run without a range works only on instruments it saw active. `BarsInv` says
of every bar, in a row or on its way, that it is the vendor's or that the vendor has
revised that day, and that a day with rows has one that is not an amendment (the one
all later comparisons are made with). `HolesInv` is *Joining* for this job: the plan of the
run leaves no gap to the watermark it has read, or begins with the history if it has read none;
each day of the chunks so far is accounted for, except today's, whose bar may come out
while the run is fetching; and what the watermark covers is published.

*Saga*: `OpenInv` says that what was open when the detector looked, or was opened since,
it will skip, and that a classifier run works on candidates that are still DETECTED;
the second fails with two runs. `BackedInv` says that an audit row carries what its
candidate's ratio was classified as, and that an attempt past its audit row has left the
row, past its command the command. `CountInv` says that an open candidate has at most
one audit row per counted attempt, per death, and for the attempt under way. `RatiosAreFar`
carries the detector's threshold to the classifier: every ratio of a candidate, or on its
way to become one, deviates by more than 40%.

*Reference tables*: `SyncInv` says that what a run takes for existing is listed, and that when
it reads its batch of instruments back, each new symbol has its row there; `RefInv` that
memberships, feeds and mappings, on their way too, are of listed ids; `OwnerInv` that a
row has its FIGI or its seed to itself, and is listed under that symbol only;
`UniverseInv` that a run knows every symbol that is listed, or has listed it itself.

*Validation*: `BatchInv` says that each row of the summary is of a record that no critical
rule rejects, enriched with the rules that fire on it, and that the audit log holds the
alert only after the continuity check found a gap. The rest is about single records and
dates: which of the rules can raise on what, the score as a division that rounds, and that
five weekdays take eight days from a weekday on.

*Amendments*: `RecordsInv` says that no batch is numbered beyond the records there are, so
that an amendment's batch is new and not the one it supersedes.

Each of these invariants was also model-checked, in the settings of the passing runs
(those under a condition where the setting meets it).

### Only model-checked

Liveness (`CatchesUp`, `PendingIsResolved`, `LandedIsIngested`, `QueueDrains`,
`CandidateIsDecided`), which needs fairness and `ENABLED`.

## 5. Behaviours to know of

These are behaviours of the models that contradict no property as it is stated, or
that the settings of the runs exclude. Each can be seen by changing the constant that
is named.

- Jobs side by side (`JobsOverlap = TRUE`): orphan repair turns an INGESTED request into
  an ORPHANED one (`fetch_planner_job.py:268`).
- A watermark flush that fails after an initial load (`"flush"` in `Faults`) does not heal
  itself: the load is repeated under another batch and its bars are appended twice,
  against the comment at `raw_to_bronze_job.py:301`.
- A stale `failed/` receipt that is reconciled in an earlier run than the `done/` receipt
  does clobber a good landing; the comment at `raw_to_bronze_job.py:131` is right
  within one run only.
- Increments on Spark append every bar they fetch again (the amendment buffer), since
  the dedup matches nothing (`KeysMatch = FALSE`, `bronze_writer.py:471`), against
  `bronze_daily_ingestion.py:23` and `ingestion_run_guide.md:352`.
- Two new symbols that OpenFIGI does not know (`Identified = {}` in `Reference`) share
  the key (None, None) when ids are read back (`02_universe_sync.py:409`):
  `OneSymbolPerInstrument` fails, whereas the message at `:463` says such instruments are
  skipped.
- A classifier whose UPDATE to FALSE_POSITIVE raises after its commit
  (`LostReplies = {"dismiss"}`), or two runs at once, can bring a dismissed candidate
  back beside its successor (`classifier.py:155`, `:256`).
- A load all of whose bars are rejected leaves no watermark and is repeated in full.
- A death between the main and the rejected append of a load that skips the dedup
  loses the rejected bars.
- One null price makes `payload_to_records` raise: the group fails in every run and the
  instrument is blocked (`raw_to_bronze_job.py:68`; payloads are readable in the model).
- `backfill_chunk_days = 0` makes `build` loop for ever (`BuilderAssumption` excludes it).
- The planner fails as a whole on an empty range, and on 29 February where the target
  year has none (`ingestion_planner.py:294`; dates are numbers here).
- The orphan query asks for no vendor: with a second vendor each would repair the other's
  requests.
- All record versions are 1 in Bronze, so that a revised bar is compared with the
  original for ever and appended again at every re-fetch (`bronze_writer.py:375`).
- Client Portal counts its period back from now: older chunks come back empty, without
  an error, and the watermark passes over them (`ibkr_provider.py:293`).
- The handler of a failed ticker looks for the watermark under the symbol where the Delta
  store is keyed by the instrument id: failures are not recorded.
- A seed whose instrument is inserted and whose listing is not gets another instrument
  in the next run, against the comment at `02_universe_sync.py:628`; inactive memberships
  are repeated by every run, against the one at `02_universe_sync.py:493`; a symbol that
  leaves an index stays a member.
- A 3-for-2 split is in the classifier's table (`classifier.py:58`) and in its tests, and its
  comment counts it among the moves over the threshold (`classifier.py:25`). It moves a
  price by a third, so that the detector never opens a candidate for it
  (`ThreeForTwoIsNeverDetected`); the label FALSE_POSITIVE for 0.6 <= ratio < 1.4 is
  out of its reach too. The history of such an instrument is not reloaded.
- Yahoo writes a split as new shares per old, and 3-for-2 is rounded to 2-for-1; its
  rows and the classifier's describe the same event twice.
- CLASSIFIED is where the saga ends: nothing consumes the command or closes the
  candidate, so that the instrument stays blocked for the detector. At this commit the detector's
  vendor prices are a stub (`PriceWired`), so that it opens nothing; the run wires them.
- The daily load may store the vendor's restated price before the detector compares:
  the split is then never seen.

## 6. What is abstracted, and what is not modelled

*Pipeline.* Payloads, prices and metadata: only the days matter. Record versions and
counts. The audit tables `control.job_run_log` and `control.planner_run_log`, which
nothing reads. Partial answers of the vendor: it returns what it has for a range or
fails. One stream, one interval, one vendor, one agent (it takes an exclusive lock).
The `symbols` argument of the planner, which plans a subset as a run does that dies
early. Heartbeat and pacing of the agent; while the gateway is down it leaves its
listing alone, which is a poll that has not happened. Dates are day numbers: leap
days and the computation of holidays are not modelled, `TradingDays` is any set. The
clock stands still during a planner run, as the date is read once at its start.

*Bronze writer.* Schema alignment, duplicates inside one batch, and the Arrow append that
raises after its commit and is repeated row by row: an append is atomic here.

*Vendor-id seeding.* The INSERT .. SELECT of the load is one step. It reads the table it
appends to, so that Delta's conflict check fails the second of two concurrent ones.

*Validation.* The rules of intraday and tick streams, which are stubs or not configured.
`to_dict`, `RejectedRecord` and the price properties of a record, which keep no state;
`OHLCVRecord`, which nothing constructs.

*Reference data.* The CSV ticker reader; the IBKR contract client, which a widget skips by
default. Of OpenFIGI and the fund files, what they answer and not how they are parsed
beyond the conditions that drop a line.

*Corporate actions.* `recover_incomplete_sagas`, which reads and logs; the IBKR provider,
a stub. Prices are exact ratios, the code's are floats.

*Single-plane job.* `WatermarkManager` over Spark, whose keyword arguments do not fit so
that each run counts as a first one; the job summary; midnight inside a run. Of the
providers: sessions, caches of contract ids, quotes, option chains.

*Configuration.* Merging of files and secrets of the environment: their values are
constants. *Operations notebooks.* They are run by hand while the jobs are stopped, or
query columns the tables do not have; of the end-to-end notebook the Yahoo seeding and
the classifier run are modelled. *Empty packages*: silver, gold, execution, llm, api.

## 7. What could follow

The watermark handling once the corporate-action command is consumed, and a second
vendor in `FetchPlanner` once one is deployed.
