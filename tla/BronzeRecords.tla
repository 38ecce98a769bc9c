---------------------------- MODULE BronzeRecords ----------------------------
(***************************************************************************)
(* BronzeRecord: construction, which enforces the invariants and fills in  *)
(* the derived fields, and amend(), which makes a new version of a record  *)
(* and leaves the old one alone.  `records` holds every record ever made.  *)
(***************************************************************************)
EXTENDS Integers, FiniteSets, Sequences

CONSTANTS
    NoValue,       \* None
    NotANumber,    \* a value that is no number
    Blank,         \* a string of white space
    Arguments,     \* the arguments constructors are called with
    Updates,       \* the sets of fields amend() is called with: field |-> value
    Reasons,       \* the reasons it is called with
    MaxRecords     \* bound on the number of records

VARIABLE records

\* The fields of a record that matter here.
Fields == {"symbol", "source", "batch_id", "pipeline_version", "bar_date", "bar_interval",
           "bar_time_utc", "open", "high", "low", "close", "volume", "unadj_close",
           "split_factor", "dividend_amount", "has_corporate_action", "is_amended",
           "amendment_reason", "supersedes_batch", "record_version", "ingestion_type",
           "data_quality_flag"}

\* Constructors are called for bars that are no amendments.  The batches of
\* amendments are numbered from 1, those of the ingestion are others.
ASSUME RecordsAssumption ==
    \A args \in Arguments :
      /\ DOMAIN args = Fields
      /\ ~args.is_amended
      /\ args.batch_id \in Int /\ args.batch_id <= 0

Intervals == {"1d", "1h", "4h", "15m", "5m", "1m"}
Intraday  == Intervals \ {"1d"}
AmendmentReasons == {"provider_correction", "restatement", "split_adjustment",
                     "dividend_adjustment"}

\* _AMENDABLE_FIELDS, of those a record has here.
AmendableFields == {"open", "high", "low", "close", "volume", "unadj_close",
                    "split_factor", "dividend_amount"}

NonBlank(v) == v \notin {NoValue, Blank}
Number(v)   == v \notin {NoValue, NotANumber}

\* _enforce_invariants: construction and validate_identity raise without it.
Valid(r) ==
    /\ \A f \in {"symbol", "source", "batch_id", "pipeline_version"} : NonBlank(r[f])
    /\ r.bar_interval \in Intervals
    /\ r.bar_interval \in Intraday => NonBlank(r.bar_time_utc)
    /\ \A f \in {"open", "high", "low", "close", "volume"} : Number(r[f])

\* _derive_has_corporate_action.
Derived(r) == r.split_factor # NoValue \/ r.dividend_amount > 0

\* __post_init__, what it sets once the invariants hold.
PostInit(r) ==
    [r EXCEPT !.unadj_close = IF @ = NoValue THEN r.close ELSE @,
              !.has_corporate_action = Derived(r)]

\* get_table_tier and unique_key, which are asked of records only.
TableTier(r) == IF r.bar_interval = "1d" THEN "daily"
                ELSE IF r.bar_interval = "1m" THEN "tick" ELSE "intraday"
UniqueKey(r) == <<r.symbol, r.bar_date, r.bar_interval>>
                  \o IF r.bar_interval \in Intraday THEN <<r.bar_time_utc>> ELSE <<>>

\* compute_completeness, in tenths of a percent: all of the fields count.
RecordCompleteness(r) ==
    LET present(fields) == Cardinality({ f \in fields : r[f] # NoValue })
    IN  100 * present({"open", "high", "low", "close", "volume", "adj_close", "prev_close", "vwap"})
        + 40 * present({"trade_count", "pre_market_volume", "post_market_volume",
                        "shares_outstanding", "exchange"})

RecordsInit == records = {}

\* A call of the constructor; it raises on arguments that break an invariant.
Construct(args) ==
    /\ args \in Arguments /\ Cardinality(records) < MaxRecords
    /\ Valid(args)
    /\ records' = records \cup {PostInit(args)}

\* dataclasses.asdict, updated and stamped.  The batch of an amendment is a new one.
Overlaid(r, fields) == [f \in DOMAIN r |-> IF f \in DOMAIN fields THEN fields[f] ELSE r[f]]

Amended(r, batch, reason, fields) ==
    [Overlaid(r, fields) EXCEPT
       !.batch_id = batch, !.supersedes_batch = r.batch_id,
       !.record_version = r.record_version + 1, !.is_amended = TRUE,
       !.amendment_reason = reason, !.ingestion_type = "amendment",
       !.data_quality_flag = FALSE, !.has_corporate_action = FALSE]

\* amend(): the reason, the allow-list and the constructor may each refuse.
Amend(r, batch, reason, fields) ==
    /\ r \in records /\ Cardinality(records) < MaxRecords
    /\ reason \in AmendmentReasons
    /\ DOMAIN fields \subseteq AmendableFields
    /\ Valid(Amended(r, batch, reason, fields))
    /\ records' = records \cup {PostInit(Amended(r, batch, reason, fields))}

\* The batch an amendment run stamps: one that no record has yet.
FreshBatch == Cardinality(records) + 1

RecordsNext ==
    \/ \E args \in Arguments : Construct(args)
    \/ \E r \in records, reason \in Reasons, fields \in Updates :
         Amend(r, FreshBatch, reason, fields)
=============================================================================
