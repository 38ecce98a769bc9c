----------------------------- MODULE Validation -----------------------------
(***************************************************************************)
(* DataQualityValidator.validate_batch over a RuleEngine: every record of  *)
(* a provider's batch is put through the rules and goes to the clean, the  *)
(* flagged or the rejected records; the continuity of the batch's dates is *)
(* checked at the end.  One step per record.                               *)
(*                                                                         *)
(* Day d of the calendar is a Monday when d % 7 = 0.  A field holds an     *)
(* integer, Null (absent), NaN, or Text: a value that is no number, with   *)
(* which a comparison raises a TypeError.                                  *)
(***************************************************************************)
EXTENDS Integers, Sequences, SequencesExt, FiniteSets

CONSTANTS
    Null, NaN, Text,   \* the three values that are not numbers
    Inputs,            \* the batches a provider may return: sequences of records
    Engines            \* how the engine is built: "for_stream", "direct"

VARIABLES
    engine,    \* the engine in use: how it was built
    batch,     \* raw_records
    summary    \* the ValidationSummary so far

Odd == {Null, NaN, Text}
ASSUME OddAssumption ==
    Null # NaN /\ NaN # Text /\ Text # Null /\ Odd \cap Int = {}

\* The records a provider returns, as far as the validator reads them.
Value == Int \cup Odd
Bars  == [bar_date : Int \cup {Null, Text},
          open : Value, high : Value, low : Value, close : Value, volume : Value,
          adj_close : Value, prev_close : Value, vwap : Value, trade_count : Value,
          pre_market_volume : Value, post_market_volume : Value, shares_outstanding : Value,
          exchange : Value, split_factor : Int \cup {Null}, dividend_amount : Int \cup {Null},
          is_ex_dividend_date : BOOLEAN, is_ex_split_date : BOOLEAN,
          has_corporate_action : BOOLEAN, is_amended : BOOLEAN,
          fetch_duration_ms : Int \cup {Null}]
ASSUME InputsAssumption == Inputs \subseteq Seq(Bars)

(***************************************************************************)
(* The rules, in the order of data_quality_rules.yml.                      *)
(***************************************************************************)
SharedRules == << "high_gte_low", "high_gte_open", "high_gte_close", "low_lte_open",
                  "low_lte_close", "no_null_ohlcv", "price_positive", "prev_close_positive",
                  "volume_positive", "pre_market_volume_non_negative",
                  "vwap_between_low_and_high", "price_change_pct_threshold", "gap_threshold",
                  "corporate_action_consistency", "amended_record_detected",
                  "fetch_duration_threshold", "max_consecutive_missing_days" >>

Warnings == {"volume_positive", "price_change_pct_threshold", "gap_threshold",
             "corporate_action_consistency", "amended_record_detected",
             "fetch_duration_threshold", "max_consecutive_missing_days"}

\* Rules whose action is "alert" are left to the batch level.
BatchRules == {"max_consecutive_missing_days"}

\* The `validation` section of streams/daily.yml.
StreamRules      == << "no_weekend_dates", "vwap_between_low_and_high" >>
StreamThresholds == [rule \in {"price_change_pct_threshold", "gap_threshold"} |->
                       IF rule = "gap_threshold" THEN 15 ELSE 50]

\* The nodes of the merged configuration tree that matter here.
ConfigPaths == {<<"daily">>, <<"daily", "validation">>}

\* ConfigNode.get: the path is followed from the node it is asked of.
Lookup(node, path) == (node \o path) \in ConfigPaths

\* for_stream asks the node of the stream for "<stream>.validation".
StreamSection == Lookup(<<"daily">>, <<"daily", "validation">>)

\* The rules of an engine: the shared ones and then the stream's, which a
\* direct construction passes in.
Rules == SharedRules \o IF engine = "direct" \/ StreamSection THEN StreamRules ELSE <<>>

\* _apply_thresholds: an override goes by the name of the rule.
DefaultThresholds == [price_change_pct_threshold |-> 50, gap_threshold |-> 15,
                      fetch_duration_threshold |-> 30000]
Threshold(rule) ==
    IF (engine = "direct" \/ StreamSection) /\ rule \in DOMAIN StreamThresholds
    THEN StreamThresholds[rule]
    ELSE DefaultThresholds[rule]

(***************************************************************************)
(* One rule on one record.  Comparisons with NaN are false; Below, Over    *)
(* are asked of numbers and NaN only.                                      *)
(***************************************************************************)
Below(a, b)   == NaN \notin {a, b} /\ a < b
Nonpositive(a) == a \notin Odd /\ a <= 0

\* The fields a comparing rule reads; it passes when one of them is Null.
Operands == [high_gte_low |-> <<"low", "high">>, high_gte_open |-> <<"open", "high">>,
             high_gte_close |-> <<"close", "high">>, low_lte_open |-> <<"low", "open">>,
             low_lte_close |-> <<"low", "close">>, volume_positive |-> <<"volume">>,
             prev_close_positive |-> <<"prev_close">>,
             pre_market_volume_non_negative |-> <<"pre_market_volume">>,
             vwap_between_low_and_high |-> <<"vwap", "low", "high">>,
             price_change_pct_threshold |-> <<"prev_close", "close">>,
             gap_threshold |-> <<"prev_close", "open">>,
             fetch_duration_threshold |-> <<"fetch_duration_ms">>]
Orderings == {"high_gte_low", "high_gte_open", "high_gte_close", "low_lte_open", "low_lte_close"}
Prices    == <<"open", "high", "low", "close">>

\* A price that is not positive is met before one that cannot be compared, and vice versa.
BadPriceFirst(r) == \E n \in 1 .. 4 : Nonpositive(r[Prices[n]])
                                      /\ \A m \in 1 .. n - 1 : r[Prices[m]] # Text
TextPriceFirst(r) == ~BadPriceFirst(r) /\ \E n \in 1 .. 4 : r[Prices[n]] = Text

Applies(rule, r) ==
    /\ \A n \in DOMAIN Operands[rule] : r[Operands[rule][n]] # Null
    /\ rule \in {"price_change_pct_threshold", "gap_threshold"} => ~Nonpositive(r.prev_close)

\* The rule raises, which the engine takes for a warning.
Raises(rule, r) ==
    \/ rule = "price_positive" /\ TextPriceFirst(r)
    \/ /\ rule \in DOMAIN Operands /\ Applies(rule, r)
       /\ \E n \in DOMAIN Operands[rule] : r[Operands[rule][n]] = Text
       /\ ~(/\ rule = "vwap_between_low_and_high"
            /\ Text \notin {r.vwap, r.low} /\ Below(r.vwap, r.low))

\* A change by more than the threshold's percentage of the previous close.
Jumps(rule, prev, now) ==
    /\ NaN \notin {prev, now}
    /\ 100 * (IF now < prev THEN prev - now ELSE now - prev) > Threshold(rule) * prev

Inconsistent(r) ==
    \/ r.is_ex_split_date /\ r.split_factor = Null
    \/ r.is_ex_dividend_date /\ (r.dividend_amount = Null \/ r.dividend_amount <= 0)
    \/ /\ r.has_corporate_action /\ r.split_factor = Null
       /\ (r.dividend_amount = Null \/ r.dividend_amount <= 0)

\* Mutants of Violates: a direction swapped, a field forgotten.
LowUnchecked(rule, r) ==
    \/ rule \in Orderings \ {"low_lte_close"} /\ Below(r[Operands[rule][2]], r[Operands[rule][1]])
    \/ rule = "price_positive" /\ BadPriceFirst(r)
    \/ rule = "no_null_ohlcv" /\ \E f \in {"open", "high", "low", "close", "volume"} : r[f] = Null
VolumeMayBeNull(rule, r) ==
    \/ rule \in Orderings /\ Below(r[Operands[rule][2]], r[Operands[rule][1]])
    \/ rule = "price_positive" /\ BadPriceFirst(r)
    \/ rule = "no_null_ohlcv" /\ \E f \in {"open", "high", "low", "close"} : r[f] = Null

\* The condition on which the rule returns a message, comparisons being possible.
Violates(rule, r) ==
    \/ rule \in Orderings /\ Below(r[Operands[rule][2]], r[Operands[rule][1]])
    \/ rule = "price_positive" /\ BadPriceFirst(r)
    \/ rule = "no_null_ohlcv" /\ \E f \in {"open", "high", "low", "close", "volume"} : r[f] = Null
    \/ rule \in {"volume_positive", "prev_close_positive"} /\ Nonpositive(r[Operands[rule][1]])
    \/ rule = "pre_market_volume_non_negative" /\ Below(r.pre_market_volume, 0)
    \/ rule = "vwap_between_low_and_high" /\ (Below(r.vwap, r.low) \/ Below(r.high, r.vwap))
    \/ rule = "price_change_pct_threshold" /\ Jumps(rule, r.prev_close, r.close)
    \/ rule = "gap_threshold" /\ Jumps(rule, r.prev_close, r.open)
    \/ rule = "corporate_action_consistency" /\ Inconsistent(r)
    \/ rule = "amended_record_detected" /\ r.is_amended
    \/ rule = "fetch_duration_threshold" /\ Below(Threshold(rule), r.fetch_duration_ms)
    \/ rule = "no_weekend_dates" /\ r.bar_date # Null /\ (r.bar_date = Text \/ r.bar_date % 7 >= 5)

\* RuleEngine.apply: the rules that fire, each by its place in Rules, which is the
\* order of the results; a rule may be listed twice.
Fires(rule, r) ==
    /\ rule \notin BatchRules
    /\ Raises(rule, r) \/ ((rule \in DOMAIN Operands => Applies(rule, r)) /\ Violates(rule, r))
Fired(r) == { n \in DOMAIN Rules : Fires(Rules[n], r) }

\* The severity decides, not the action; an exception is but a warning.
Rejections(r) == { n \in Fired(r) : Rules[n] \notin Warnings /\ ~Raises(Rules[n], r) }

(***************************************************************************)
(* The validator.                                                          *)
(***************************************************************************)
CoreFields     == {"open", "high", "low", "close", "volume", "adj_close", "prev_close", "vwap"}
OptionalFields == {"trade_count", "pre_market_volume", "post_market_volume",
                   "shares_outstanding", "exchange"}

Present(r, fields) == Cardinality({ f \in fields : r[f] # Null })

\* Tenths of a percent, 80 % for the core and 20 % for the optional fields, rounded.
Score(r, core, optional) ==
    LET c == Cardinality(core)
        o == Cardinality(optional)
        x == 800 * Present(r, core) * o + 200 * Present(r, optional) * c
    IN  (2 * x + c * o) \div (2 * c * o)

\* _compute_completeness.  provider_nullable_fields would be taken off both sets:
\* no caller passes any, and for_stream finds no section that could name some.
Completeness(r) == Score(r, CoreFields, OptionalFields)

RuleNames == ToSet(SharedRules) \cup ToSet(StreamRules)
Counted(reasons, places) ==
    [rule \in RuleNames |-> reasons[rule] + Cardinality({ n \in places : Rules[n] = rule })]

\* _enrich_record, as far as it depends on the record.
Enriched(r, places) ==
    [record |-> r, data_quality_flag |-> places # {}, data_quality_reasons |-> places,
     data_completeness |-> Completeness(r)]

\* The audit log: one item for each record with issues, the places of its rules.
\* An alert is logged under the place of its rule.
AlertPlaces == { n \in DOMAIN Rules : Rules[n] \in BatchRules }

EmptySummary ==
    [clean_records |-> <<>>, flagged_records |-> <<>>, rejected_records |-> <<>>,
     total_passed |-> 0, total_flagged |-> 0, total_rejected |-> 0,
     rejection_reasons |-> [rule \in RuleNames |-> 0],
     flag_reasons |-> [rule \in RuleNames |-> 0], audit_log |-> <<>>, closed |-> FALSE]

Validated == summary.total_passed + summary.total_flagged + summary.total_rejected
Writable  == summary.clean_records \o summary.flagged_records

\* The first rejection names the record, all of them are counted and logged.
First(places) == Rules[CHOOSE n \in places : \A m \in places : n <= m]

Rejected(r) ==
    [summary EXCEPT
       !.rejected_records = Append(@, [record |-> r, rejected_rule |-> First(Rejections(r))]),
       !.total_rejected = @ + 1,
       !.rejection_reasons = Counted(@, Rejections(r)),
       !.audit_log = Append(@, Rejections(r))]

Flagged(r) ==
    [summary EXCEPT
       !.flagged_records = Append(@, Enriched(r, Fired(r))),
       !.total_flagged = @ + 1,
       !.flag_reasons = Counted(@, Fired(r)),
       !.audit_log = Append(@, Fired(r))]

Clean(r) ==
    [summary EXCEPT
       !.clean_records = Append(@, Enriched(r, {})),
       !.total_passed = @ + 1]

\* _validate_record on the next record of the batch.
ValidateRecord ==
    /\ ~summary.closed /\ Validated < Len(batch)
    /\ LET r == batch[Validated + 1]
       IN  summary' = IF Rejections(r) # {} THEN Rejected(r)
                      ELSE IF Fired(r) # {} THEN Flagged(r)
                      ELSE Clean(r)
    /\ UNCHANGED <<engine, batch>>

\* The dates of all records, rejected ones too; unparsable ones are passed over.
BatchDates == { r.bar_date : r \in ToSet(batch) } \ {Null, Text}
Adjacent   == { p \in BatchDates \X BatchDates :
                  p[1] < p[2] /\ \A d \in BatchDates : ~(p[1] < d /\ d < p[2]) }

\* Mutant of MissingDays: the weekend is not taken off.
CalendarDays(p) == IF p[2] - p[1] > 3 THEN p[2] - p[1] - 1 ELSE 0

\* An estimate of the trading days between two adjacent dates: one weekend is taken off.
MissingDays(p) == IF p[2] - p[1] > 3 THEN p[2] - p[1] - 2 ELSE 0

\* _check_continuity: an alert when more than five days are missing somewhere;
\* the threshold of the stream is not consulted.
CheckContinuity ==
    /\ ~summary.closed /\ Validated = Len(batch)
    /\ summary' = [summary EXCEPT
         !.closed = TRUE,
         !.audit_log = IF \E p \in Adjacent : MissingDays(p) > 5
                       THEN Append(@, AlertPlaces) ELSE @]
    /\ UNCHANGED <<engine, batch>>

\* validate_batch is called with what a provider returned.
ValidationInit ==
    /\ engine \in Engines
    /\ batch \in Inputs
    /\ summary = EmptySummary

ValidationNext == ValidateRecord \/ CheckContinuity
=============================================================================
