------------------------------- MODULE Quality -------------------------------
(***************************************************************************)
(* What the validator promises of a batch, and what BronzeRecord promises  *)
(* of a record and its amendments.  Neither calls the other: the validator *)
(* passes plain dicts on, and they must be such that a BronzeRecord could  *)
(* be made of them.                                                        *)
(***************************************************************************)
EXTENDS Validation, BronzeRecords

\* None and what is no number are the same to both modules; the identity that
\* the job stamps (AsRecord) is not blank.
ASSUME QualityAssumption ==
    /\ NoValue = Null /\ NotANumber = Text
    /\ \A v \in {NoValue, Blank} : v \notin Int /\ v \notin {"AAPL", "ibkr", "unknown"}

vars == <<engine, batch, summary, records>>

\* A behaviour uses one of the two.
Init ==
    \/ ValidationInit /\ RecordsInit
    \/ engine \in Engines /\ batch = <<>> /\ summary = [EmptySummary EXCEPT !.closed = TRUE]
       /\ RecordsInit

Next ==
    \/ ValidationNext /\ UNCHANGED records
    \/ batch = <<>> /\ RecordsNext /\ UNCHANGED <<engine, batch, summary>>

Spec == Init /\ [][Next]_vars

Rows == ToSet(Writable)

\* The arguments a BronzeRecord would be made with: a written row under the
\* identity the job stamps.
AsRecord(row) ==
    [symbol |-> "AAPL", source |-> "ibkr", batch_id |-> 0, pipeline_version |-> "unknown",
     bar_date |-> row.record.bar_date, bar_interval |-> "1d", bar_time_utc |-> NoValue,
     open |-> row.record.open, high |-> row.record.high, low |-> row.record.low,
     close |-> row.record.close, volume |-> row.record.volume]

(***************************************************************************)
(* Properties of validate_batch.                                           *)
(***************************************************************************)
\* The price rules together: whatever passes them with four numbers is a bar
\* that can have been traded: low <= open, close <= high, all positive, and
\* a volume-weighted price inside.
WrittenIsTradable ==
    \A row \in Rows :
      LET r == row.record
      IN  {r.open, r.high, r.low, r.close} \cap Odd = {} =>
            /\ 0 < r.low /\ r.low <= r.high
            /\ {r.open, r.close} \subseteq r.low .. r.high
            /\ r.vwap \notin Odd => r.vwap \in r.low .. r.high

\* A rule that raises lets its record pass as a warning.  What slips through in
\* this way, and could not be a BronzeRecord, at least carries the flag.
WrittenIsRecordOrFlagged ==
    \A row \in Rows : row.data_quality_flag \/ Valid(AsRecord(row))

\* streams/daily.yml:76, "alert if 5+ trading days missing": between trading
\* days the estimate of the check alerts exactly then, weekends or not.
Weekdays(p) == { d \in p[1] + 1 .. p[2] - 1 : d % 7 < 5 }
Alerted     == \E k \in DOMAIN summary.audit_log : \E n \in summary.audit_log[k] :
                 Rules[n] = "max_consecutive_missing_days"
AlertIffFiveDaysMissing ==
    (summary.closed /\ \A d \in BatchDates : d % 7 < 5) =>
      (Alerted <=> \E p \in Adjacent : Cardinality(Weekdays(p)) >= 5)

\* Every field of a written row is scored, those that its stream declares
\* nullable included: the score is that of the record itself, and only a record
\* that lacks nothing has the full one.
EveryFieldIsScored ==
    \A row \in Rows :
      /\ row.data_completeness = RecordCompleteness(row.record)
      /\ row.data_completeness = 1000 <=>
           \A f \in CoreFields \cup OptionalFields : row.record[f] # Null

\* What streams/daily.yml says of its rows: a bar dated on a weekend is rejected
\* (:102), and a field that the provider is declared not to supply (:83, here
\* those of Yahoo that are scored) lowers no score (:78, validator.py:332).
YahooLacks == {"vwap", "trade_count", "pre_market_volume", "post_market_volume", "exchange"}
StreamSettingsApply ==
    \A row \in Rows :
      /\ row.record.bar_date \notin Odd => row.record.bar_date % 7 < 5
      /\ (\A f \in CoreFields \cup OptionalFields : row.record[f] = Null => f \in YahooLacks) =>
           row.data_completeness = 1000

(***************************************************************************)
(* Properties of BronzeRecord.                                             *)
(***************************************************************************)
\* An amended record supersedes the batch of a record of the same bar, in the
\* same table, that is one version older.
AmendmentsAreLinked ==
    \A r \in records : r.is_amended =>
      \E old \in records :
        /\ old.batch_id = r.supersedes_batch /\ old.batch_id # r.batch_id
        /\ old.record_version + 1 = r.record_version
        /\ UniqueKey(old) = UniqueKey(r) /\ TableTier(old) = TableTier(r)
=============================================================================
