------------------------------ MODULE Planning ------------------------------
(***************************************************************************)
(* The pure decisions of the control plane: which load an instrument needs *)
(* (IngestionPlanner.plan) and the requests it is cut into                 *)
(* (FetchRequestBuilder.build).  Dates are day numbers; the operational    *)
(* modes of config/streams/daily.yml are the sets of instruments in whose  *)
(* scope an enabled mode is.                                               *)
(***************************************************************************)
EXTENDS Chunking, FiniteSets

CONSTANTS
    Instruments,        \* active instruments of the stream
    Mapped,             \* those with a current vendor id (require_vendor_id)
    HistoryStart,       \* first day wanted, per instrument (or NoDate)
    LookbackDays,       \* history.lookback_*, for instruments without one
    TradingDays,        \* days the exchange is open
    BufferDays,         \* history.amendment_buffer_days
    MaxGapDays,         \* ingestion.max_gap_days
    BatchSizeDays,      \* ingestion.batch_size_days
    BackfillChunkDays,  \* ingestion.backfill_chunk_days
    Reloaded,           \* scope of an enabled and confirmed force_reload
    Restated,           \* scope of an enabled restatement ...
    RestatedRange,      \* ... and its [start, end]
    Overridden,         \* scope of an enabled date_range_override ...
    OverriddenRange,    \* ... and its [start, end]
    Extended,           \* scope of an enabled history_extension ...
    ExtendedStart       \* ... and its extend_history_start

Range  == [start : Nat, end : Nat]
NoDate == -1

ASSUME PlanningAssumption ==
    /\ Mapped \subseteq Instruments
    /\ HistoryStart \in [Instruments -> Nat \cup {NoDate}] /\ LookbackDays \in Nat
    /\ TradingDays \subseteq Nat
    /\ BufferDays \in Nat /\ MaxGapDays \in Nat
    /\ BatchSizeDays \in Nat \ {0} /\ BackfillChunkDays \in Nat \ {0}
    /\ Reloaded \subseteq Instruments /\ Restated \subseteq Instruments
    /\ Overridden \subseteq Instruments /\ Extended \subseteq Instruments
    /\ RestatedRange \in Range /\ OverriddenRange \in Range
    /\ ExtendedStart \in Nat

LoadTypes == {"INITIAL_LOAD", "HISTORY_EXTENSION", "FORCE_RELOAD",
              "RESTATEMENT", "EXPLICIT_DATE_RANGE", "GAP_FILL", "INCREMENTAL"}

FetchPlan == [mode : LoadTypes, start : Int, end : Int]
Watermark == [earliest : Int, latest : Int, suspended : BOOLEAN]

NoWatermark == [earliest |-> -1, latest |-> -1, suspended |-> FALSE]

\* The calendar's last_trading_day: the latest open day not after `day`.
UpToDate(latest, day) == \A d \in TradingDays : d <= day => d <= latest

\* Mutant of InitialStart: the instrument's own history start is ignored.
LookbackOnly(i, day) == day - LookbackDays

InitialStart(i, day) ==
    IF HistoryStart[i] = NoDate THEN day - LookbackDays ELSE HistoryStart[i]

Plan(i, wm, day) ==
    LET Fetch(mode, first, last) == [mode |-> mode, start |-> first, end |-> last]
    IN  IF wm.suspended THEN Fetch("NO_OP", day, day)
        ELSE IF i \in Reloaded THEN Fetch("FORCE_RELOAD", InitialStart(i, day), day)
        ELSE IF i \in Restated
             THEN Fetch("RESTATEMENT", RestatedRange.start, RestatedRange.end)
        ELSE IF i \in Overridden
             THEN Fetch("EXPLICIT_DATE_RANGE", OverriddenRange.start, OverriddenRange.end)
        ELSE IF i \in Extended /\ wm # NoWatermark /\ ExtendedStart < wm.earliest
             THEN Fetch("HISTORY_EXTENSION", ExtendedStart, wm.earliest - 1)
        ELSE IF wm = NoWatermark THEN Fetch("INITIAL_LOAD", InitialStart(i, day), day)
        ELSE IF day - wm.latest > MaxGapDays
             THEN Fetch("GAP_FILL", wm.latest + 1, day)
        ELSE IF UpToDate(wm.latest, day) THEN Fetch("NO_OP", day, day)
        ELSE Fetch("INCREMENTAL", Later(wm.latest - BufferDays, wm.earliest), day)

ChunkDays(mode) == IF mode \in BackfillTypes THEN BackfillChunkDays ELSE BatchSizeDays

\* FetchRequestBuilder.build raises on an empty range.
Buildable(plan) == plan.start <= plan.end

\* The rows build() returns for one instrument: request_key |-> fields.
BuiltKeys(batch, i, plan) ==
    { <<batch, i, s>> : s \in 1 .. ChunkCount(plan.start, plan.end, ChunkDays(plan.mode)) }

BuiltRow(plan, s) ==
    [load   |-> plan.mode,
     start  |-> ChunkStart(plan.start, ChunkDays(plan.mode), s),
     end    |-> ChunkEnd(plan.start, plan.end, ChunkDays(plan.mode), s),
     status |-> "PENDING"]
=============================================================================
