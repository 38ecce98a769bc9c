---------------------------- MODULE QualityProofs ----------------------------
(***************************************************************************)
(* What the validator lets through, for every batch of bars, and how       *)
(* amendments are linked, for every set of records.                        *)
(***************************************************************************)
EXTENDS Quality, FiniteSetTheorems, TLAPS
-----------------------------------------------------------------------------
(* The rules.                                                              *)

\* The shared rules come first, whatever the engine adds to them.
LEMMA SharedRulesAreListed ==
    \A n \in 1 .. 17 : n \in DOMAIN Rules /\ Rules[n] = SharedRules[n]
<1> DEFINE rest == IF engine = "direct" \/ StreamSection THEN StreamRules ELSE <<>>
<1>1. rest \in Seq({"no_weekend_dates", "vwap_between_low_and_high"})
  BY DEF StreamRules
<1> HIDE DEF rest
<1>2. Rules = SharedRules \o rest
  BY DEF Rules, rest
<1> QED
  BY <1>1, <1>2 DEF SharedRules

\* A shared rule that fires is among the fired ones.
LEMMA ListedRuleFires ==
    ASSUME NEW r, NEW n \in 1 .. 17, Fires(SharedRules[n], r)
    PROVE  n \in Fired(r)
  BY SharedRulesAreListed DEF Fired

\* A record without rejections passed each critical rule, or the rule raised.
LEMMA CriticalRuleHolds ==
    ASSUME NEW r, NEW n \in 1 .. 17, SharedRules[n] \notin Warnings, Rejections(r) = {}
    PROVE  Fires(SharedRules[n], r) => Raises(SharedRules[n], r)
  BY SharedRulesAreListed, ListedRuleFires DEF Rejections

\* A shared rule on two fields, one below the other, of a record with two numbers there.
LEMMA OrderingHolds ==
    ASSUME NEW r \in Bars, NEW rule \in Orderings, NEW a, NEW b, Operands[rule] = <<a, b>>,
           r[a] \in Int, r[b] \in Int, Fires(rule, r) => Raises(rule, r)
    PROVE  r[a] <= r[b]
<1>1. rule \notin BatchRules /\ rule # "price_positive" /\ rule # "vwap_between_low_and_high"
  BY DEF Orderings, BatchRules
<1>2. rule \in DOMAIN Operands
  BY DEF Orderings, Operands
<1>3. DOMAIN Operands[rule] = {1, 2}
  OBVIOUS
<1>4. r[a] \notin Odd /\ r[b] \notin Odd
  BY OddAssumption
<1>5. ~Raises(rule, r)
  BY <1>1, <1>3, <1>4 DEF Raises, Odd
<1>6. Applies(rule, r)
  BY <1>3, <1>4 DEF Applies, Odd, Orderings
<1>7. ~Below(r[b], r[a])
  BY <1>1, <1>5, <1>6 DEF Fires, Violates
<1> QED
  BY <1>4, <1>7 DEF Below, Odd

\* A price that is positive or cannot be compared: all that price_positive leaves.
LEMMA PricesArePositive ==
    ASSUME NEW r \in Bars, Rejections(r) = {},
           r.open \in Int, r.high \in Int, r.low \in Int, r.close \in Int
    PROVE  0 < r.low
<1>1. SharedRules[7] = "price_positive"
  BY DEF SharedRules
<1>2. "price_positive" \notin Warnings /\ "price_positive" \notin BatchRules
      /\ "price_positive" \notin DOMAIN Operands
  BY DEF Warnings, BatchRules, Operands
<1>3. Fires("price_positive", r) => Raises("price_positive", r)
  BY <1>1, <1>2, CriticalRuleHolds
<1>4. \A n \in 1 .. 4 : r[Prices[n]] \in Int
  BY DEF Prices
<1>5. \A n \in 1 .. 4 : r[Prices[n]] \notin Odd
  BY <1>4, OddAssumption
<1>6. ~TextPriceFirst(r)
  BY <1>5 DEF TextPriceFirst, Odd
<1>7. ~Raises("price_positive", r)
  BY <1>2, <1>6 DEF Raises
<1>8. ~BadPriceFirst(r)
  BY <1>2, <1>3, <1>7 DEF Fires, Violates
<1>9. ~Nonpositive(r[Prices[3]])
  BY <1>5, <1>8 DEF BadPriceFirst, Odd
<1> QED
  BY <1>4, <1>5, <1>9 DEF Nonpositive, Prices

\* A volume-weighted price that is a number lies inside the bar.
LEMMA VwapIsInside ==
    ASSUME NEW r \in Bars, Rejections(r) = {}, r.low \in Int, r.high \in Int, r.vwap \in Int
    PROVE  r.vwap \in r.low .. r.high
<1> DEFINE rule == "vwap_between_low_and_high"
<1>1. SharedRules[11] = rule /\ rule \notin Warnings /\ rule \notin BatchRules
      /\ rule \in DOMAIN Operands /\ Operands[rule] = <<"vwap", "low", "high">>
      /\ rule \notin Orderings
  BY DEF SharedRules, Warnings, BatchRules, Operands, Orderings
<1>2. Fires(rule, r) => Raises(rule, r)
  BY <1>1, CriticalRuleHolds
<1>3. r.vwap \notin Odd /\ r.low \notin Odd /\ r.high \notin Odd
  BY OddAssumption
<1>4. \A n \in DOMAIN Operands[rule] : r[Operands[rule][n]] \notin Odd
  BY <1>1, <1>3
<1>5. ~Raises(rule, r)
  BY <1>4 DEF Raises, Odd
<1>6. Applies(rule, r)
  BY <1>4 DEF Applies, Odd
<1>7. ~Below(r.vwap, r.low) /\ ~Below(r.high, r.vwap)
  BY <1>1, <1>2, <1>5, <1>6 DEF Fires, Violates
<1> QED
  BY <1>3, <1>7 DEF Below, Odd

\* What the price rules leave is a bar that can have been traded.
Tradable(r) ==
    {r.open, r.high, r.low, r.close} \cap Odd = {} =>
      /\ 0 < r.low /\ r.low <= r.high
      /\ {r.open, r.close} \subseteq r.low .. r.high
      /\ r.vwap \notin Odd => r.vwap \in r.low .. r.high

LEMMA AcceptedIsTradable ==
    ASSUME NEW r \in Bars, Rejections(r) = {}
    PROVE  Tradable(r)
<1> SUFFICES ASSUME {r.open, r.high, r.low, r.close} \cap Odd = {}
             PROVE  /\ 0 < r.low /\ r.low <= r.high
                    /\ {r.open, r.close} \subseteq r.low .. r.high
                    /\ r.vwap \notin Odd => r.vwap \in r.low .. r.high
  BY DEF Tradable
<1>1. r.open \in Int /\ r.high \in Int /\ r.low \in Int /\ r.close \in Int
  BY DEF Bars, Value
<1>2. \A n \in 1 .. 5 : SharedRules[n] \in Orderings /\ SharedRules[n] \notin Warnings
  BY DEF SharedRules, Orderings, Warnings
<1>3. \A n \in 1 .. 5 : Fires(SharedRules[n], r) => Raises(SharedRules[n], r)
  BY <1>2, CriticalRuleHolds
<1>4. /\ SharedRules[1] = "high_gte_low"   /\ SharedRules[2] = "high_gte_open"
      /\ SharedRules[3] = "high_gte_close" /\ SharedRules[4] = "low_lte_open"
      /\ SharedRules[5] = "low_lte_close"
  BY DEF SharedRules
<1>5. r.low <= r.high
  BY <1>1, <1>2, <1>3, <1>4, OrderingHolds DEF Operands
<1>6. r.open <= r.high
  BY <1>1, <1>2, <1>3, <1>4, OrderingHolds DEF Operands
<1>7. r.close <= r.high
  BY <1>1, <1>2, <1>3, <1>4, OrderingHolds DEF Operands
<1>8. r.low <= r.open
  BY <1>1, <1>2, <1>3, <1>4, OrderingHolds DEF Operands
<1>9. r.low <= r.close
  BY <1>1, <1>2, <1>3, <1>4, OrderingHolds DEF Operands
<1>10. r.vwap \notin Odd => r.vwap \in Int
  BY DEF Bars, Value
<1>11. r.vwap \notin Odd => r.vwap \in r.low .. r.high
  BY <1>1, <1>10, VwapIsInside
<1> QED
  BY <1>1, <1>5, <1>6, <1>7, <1>8, <1>9, <1>11, PricesArePositive

\* A record that no rule complains of has its five numbers.
LEMMA CleanHasNumbers ==
    ASSUME NEW r \in Bars, Fired(r) = {}
    PROVE  \A f \in {"open", "high", "low", "close", "volume"} : r[f] \notin {Null, Text}
<1>1. \A n \in 1 .. 17 : ~Fires(SharedRules[n], r)
  BY ListedRuleFires
<1>2. SharedRules[6] = "no_null_ohlcv" /\ SharedRules[7] = "price_positive"
      /\ SharedRules[9] = "volume_positive"
  BY DEF SharedRules
<1>3. ~Fires("no_null_ohlcv", r) /\ ~Fires("price_positive", r) /\ ~Fires("volume_positive", r)
  BY <1>1, <1>2
<1>4. \A f \in {"open", "high", "low", "close", "volume"} : r[f] # Null
  BY <1>3 DEF Fires, Violates, BatchRules, Operands
<1>5. ~BadPriceFirst(r) /\ ~TextPriceFirst(r)
  BY <1>3 DEF Fires, Violates, Raises, BatchRules, Operands
<1>6. \A n \in 1 .. 4 : r[Prices[n]] # Text
  BY <1>5 DEF TextPriceFirst
<1>7. r.open # Text /\ r.high # Text /\ r.low # Text /\ r.close # Text
  BY <1>6 DEF Prices
<1>8. r.volume # Text
  <2> DEFINE rule == "volume_positive"
  <2>1. rule \in DOMAIN Operands /\ Operands[rule] = <<"volume">> /\ rule \notin BatchRules
    BY DEF Operands, BatchRules
  <2>2. Applies(rule, r)
    BY <2>1, <1>4 DEF Applies
  <2> QED
    BY <1>3, <2>1, <2>2 DEF Fires, Raises
<1> QED
  BY <1>4, <1>7, <1>8

\* A row that carries no flag could be a BronzeRecord.
LEMMA CleanIsRecord ==
    ASSUME NEW r \in Bars, Fired(r) = {}, NEW row, row.record = r
    PROVE  Valid(AsRecord(row))
<1>1. \A v \in {"AAPL", "ibkr", "unknown", 0} : NonBlank(v)
  BY QualityAssumption DEF NonBlank
<1>2. \A f \in {"open", "high", "low", "close", "volume"} : Number(r[f])
  BY CleanHasNumbers, QualityAssumption DEF Number
<1> QED
  BY <1>1, <1>2 DEF Valid, AsRecord, Intervals, Intraday
-----------------------------------------------------------------------------
(* The score.                                                              *)

\* A set that a list without repetitions enumerates has as many elements as the list.
LEMMA ListedSet ==
    ASSUME NEW S, NEW n \in Nat, NEW t \in [1 .. n -> S],
           \A i, j \in 1 .. n : t[i] = t[j] => i = j,
           \A x \in S : \E i \in 1 .. n : t[i] = x
    PROVE  IsFiniteSet(S) /\ Cardinality(S) = n
<1>1. t \in Bijection(1 .. n, S)
  BY DEF Bijection, Injection, Surjection, IsInjective
<1>2. ExistsBijection(1 .. n, S)
  BY <1>1 DEF ExistsBijection
<1> QED
  BY <1>2, FS_CountingElements, FS_NatBijection

LEMMA CoreCount == IsFiniteSet(CoreFields) /\ Cardinality(CoreFields) = 8
<1> DEFINE t == <<"open", "high", "low", "close", "volume", "adj_close", "prev_close", "vwap">>
<1>1. t \in [1 .. 8 -> CoreFields]
  BY DEF CoreFields
<1>2. \A i, j \in 1 .. 8 : t[i] = t[j] => i = j
  OBVIOUS
<1>3. \A x \in CoreFields : \E i \in 1 .. 8 : t[i] = x
  BY DEF CoreFields
<1> HIDE DEF t
<1>4. PICK n \in Nat : n = 8
  OBVIOUS
<1>5. t \in [1 .. n -> CoreFields]
  BY <1>1, <1>4
<1>6. \A i, j \in 1 .. n : t[i] = t[j] => i = j
  BY <1>2, <1>4
<1>7. \A x \in CoreFields : \E i \in 1 .. n : t[i] = x
  BY <1>3, <1>4
<1>8. IsFiniteSet(CoreFields) /\ Cardinality(CoreFields) = n
  BY <1>5, <1>6, <1>7, ListedSet
<1> QED
  BY <1>4, <1>8

LEMMA OptionalCount == IsFiniteSet(OptionalFields) /\ Cardinality(OptionalFields) = 5
<1> DEFINE t == <<"trade_count", "pre_market_volume", "post_market_volume",
                  "shares_outstanding", "exchange">>
<1>1. t \in [1 .. 5 -> OptionalFields]
  BY DEF OptionalFields
<1>2. \A i, j \in 1 .. 5 : t[i] = t[j] => i = j
  OBVIOUS
<1>3. \A x \in OptionalFields : \E i \in 1 .. 5 : t[i] = x
  BY DEF OptionalFields
<1> HIDE DEF t
<1>4. PICK n \in Nat : n = 5
  OBVIOUS
<1>5. t \in [1 .. n -> OptionalFields]
  BY <1>1, <1>4
<1>6. \A i, j \in 1 .. n : t[i] = t[j] => i = j
  BY <1>2, <1>4
<1>7. \A x \in OptionalFields : \E i \in 1 .. n : t[i] = x
  BY <1>3, <1>4
<1>8. IsFiniteSet(OptionalFields) /\ Cardinality(OptionalFields) = n
  BY <1>5, <1>6, <1>7, ListedSet
<1> QED
  BY <1>4, <1>8

\* The fields present are at most the fields, and all of them only if none lacks.
LEMMA PresentCount ==
    ASSUME NEW r, NEW fields, IsFiniteSet(fields)
    PROVE  /\ Present(r, fields) \in Nat /\ Present(r, fields) <= Cardinality(fields)
           /\ Present(r, fields) = Cardinality(fields) <=> \A f \in fields : r[f] # Null
<1> DEFINE there == { f \in fields : r[f] # Null }
<1>1. there \in SUBSET fields
  OBVIOUS
<1>2. IsFiniteSet(there) /\ Cardinality(there) <= Cardinality(fields)
  BY <1>1, FS_Subset
<1>3. Cardinality(there) \in Nat
  BY <1>2, FS_CardinalityType
<1>4. there = fields <=> \A f \in fields : r[f] # Null
  OBVIOUS
<1>5. Cardinality(there) = Cardinality(fields) => there = fields
  BY <1>1, FS_Subset
<1> QED
  BY <1>2, <1>3, <1>4, <1>5 DEF Present

\* The score is that of the record, and full if and only if nothing lacks.
LEMMA ScoreOfRecord ==
    ASSUME NEW r
    PROVE  /\ Completeness(r) = RecordCompleteness(r)
           /\ Completeness(r) = 1000 <=> \A f \in CoreFields \cup OptionalFields : r[f] # Null
<1> DEFINE p == Present(r, CoreFields)
           q == Present(r, OptionalFields)
<1>1. p \in 0 .. 8 /\ q \in 0 .. 5
  BY PresentCount, CoreCount, OptionalCount
<1>2. RecordCompleteness(r) = 100 * p + 40 * q
  BY QualityAssumption DEF RecordCompleteness, Present, CoreFields, OptionalFields
<1>3. Completeness(r) = (2 * (800 * p * 5 + 200 * q * 8) + 8 * 5) \div (2 * 8 * 5)
  BY CoreCount, OptionalCount DEF Completeness, Score
<1>4. /\ p = 8 <=> \A f \in CoreFields : r[f] # Null
      /\ q = 5 <=> \A f \in OptionalFields : r[f] # Null
  BY PresentCount, CoreCount, OptionalCount
<1> HIDE DEF p, q
<1>5. (2 * (800 * p * 5 + 200 * q * 8) + 8 * 5) \div (2 * 8 * 5) = 100 * p + 40 * q
  BY <1>1
<1>6. 100 * p + 40 * q = 1000 <=> p = 8 /\ q = 5
  BY <1>1
<1> QED
  BY <1>2, <1>3, <1>4, <1>5, <1>6
-----------------------------------------------------------------------------
(* The continuity check.                                                   *)

\* The i-th weekday after a weekday, for i up to 5.
NthWeekday(a, i) == IF (a % 7) + i >= 5 THEN a + i + 2 ELSE a + i

LEMMA WeekdaysInOrder ==
    ASSUME NEW a \in Int, a % 7 < 5, NEW i \in 1 .. 5
    PROVE  /\ NthWeekday(a, i) \in a + i .. a + i + 2
           /\ NthWeekday(a, i) % 7 < 5
           /\ \A j \in 1 .. 5 : NthWeekday(a, i) = NthWeekday(a, j) => i = j
  BY DEF NthWeekday

\* The first n of them are n days.
LEMMA WeekdayCount ==
    ASSUME NEW a \in Int, a % 7 < 5, NEW n \in 1 .. 5
    PROVE  LET days == { NthWeekday(a, i) : i \in 1 .. n }
           IN  IsFiniteSet(days) /\ Cardinality(days) = n
<1> DEFINE days == { NthWeekday(a, i) : i \in 1 .. n }
           t == [i \in 1 .. n |-> NthWeekday(a, i)]
<1>1. t \in [1 .. n -> days]
  OBVIOUS
<1>2. \A i, j \in 1 .. n : t[i] = t[j] => i = j
  <2> SUFFICES ASSUME NEW i \in 1 .. n, NEW j \in 1 .. n, NthWeekday(a, i) = NthWeekday(a, j)
               PROVE  i = j
    OBVIOUS
  <2>1. i \in 1 .. 5 /\ j \in 1 .. 5
    OBVIOUS
  <2> QED
    BY <2>1, WeekdaysInOrder
<1>3. \A x \in days : \E i \in 1 .. n : t[i] = x
  OBVIOUS
<1>4. n \in Nat
  OBVIOUS
<1> HIDE DEF t, days
<1>5. IsFiniteSet(days) /\ Cardinality(days) = n
  BY <1>1, <1>2, <1>3, <1>4, ListedSet
<1> QED
  BY <1>5 DEF days

\* From a weekday on, there are five weekdays before a day iff it is at least
\* eight days later.
LEMMA FiveWeekdaysTakeEightDays ==
    ASSUME NEW a \in Int, NEW b \in Int, a % 7 < 5
    PROVE  Cardinality({ d \in a + 1 .. b - 1 : d % 7 < 5 }) >= 5 <=> b - a >= 8
<1> DEFINE W    == { d \in a + 1 .. b - 1 : d % 7 < 5 }
           D(n) == { NthWeekday(a, i) : i \in 1 .. n }
<1>1. IsFiniteSet(W) /\ Cardinality(W) \in Nat
  <2>1. IsFiniteSet(a + 1 .. b - 1) /\ W \in SUBSET (a + 1 .. b - 1)
    BY FS_Interval
  <2> QED
    BY <2>1, FS_Subset, FS_CardinalityType
<1>2. ASSUME b - a >= 8 PROVE Cardinality(W) >= 5
  <2>1. D(5) \in SUBSET W
    <3> SUFFICES ASSUME NEW i \in 1 .. 5 PROVE NthWeekday(a, i) \in W
      OBVIOUS
    <3>1. NthWeekday(a, i) \in a + i .. a + i + 2 /\ NthWeekday(a, i) % 7 < 5
      BY WeekdaysInOrder
    <3>2. NthWeekday(a, i) \in a + 1 .. a + 7
      BY <3>1
    <3> QED
      BY <1>2, <3>1, <3>2
  <2>2. Cardinality(D(5)) = 5
    BY WeekdayCount, 5 \in 1 .. 5
  <2> QED
    BY <1>1, <2>1, <2>2, FS_Subset
<1>3. ASSUME b - a <= 7 PROVE Cardinality(W) <= 4
  <2>1. W \in SUBSET D(4)
    <3> SUFFICES ASSUME NEW d \in W PROVE d \in D(4)
      OBVIOUS
    <3>1. d - a \in 1 .. 6 /\ d % 7 < 5
      BY <1>3
    <3>2. CASE (a % 7) + (d - a) < 5
      <4>1. d - a \in 1 .. 4 /\ NthWeekday(a, d - a) = d
        BY <3>1, <3>2 DEF NthWeekday
      <4> QED
        BY <4>1
    <3>3. CASE (a % 7) + (d - a) >= 5
      <4>1. (a % 7) + (d - a) >= 7
        BY <3>1, <3>3
      <4>2. d - a - 2 \in 1 .. 4 /\ NthWeekday(a, d - a - 2) = d
        BY <3>1, <4>1 DEF NthWeekday
      <4> QED
        BY <4>2
    <3> QED
      BY <3>1, <3>2, <3>3
  <2>2. IsFiniteSet(D(4)) /\ Cardinality(D(4)) = 4
    BY WeekdayCount, 4 \in 1 .. 5
  <2> QED
    BY <1>1, <2>1, <2>2, FS_Subset
<1> QED
  BY <1>1, <1>2, <1>3
-----------------------------------------------------------------------------
(* The invariant of validate_batch.                                        *)

\* The rows a batch may leave: of records that only warnings complain of.
AcceptedRows == { Enriched(r, Fired(r)) : r \in { s \in Bars : Rejections(s) = {} } }

SummaryShape ==
    /\ DOMAIN summary = {"clean_records", "flagged_records", "rejected_records", "total_passed",
                         "total_flagged", "total_rejected", "rejection_reasons", "flag_reasons",
                         "audit_log", "closed"}
    /\ summary.total_passed \in Nat /\ summary.total_flagged \in Nat
    /\ summary.total_rejected \in Nat
    /\ summary.closed \in BOOLEAN

RowsInv ==
    /\ summary.clean_records \in Seq(AcceptedRows)
    /\ summary.flagged_records \in Seq(AcceptedRows)

\* Only the continuity check alerts, when the batch is through.
AlertInv ==
    /\ summary.audit_log \in Seq(SUBSET DOMAIN Rules)
    /\ Alerted <=> summary.closed /\ \E p \in Adjacent : MissingDays(p) > 5

BatchInv == batch \in Seq(Bars) /\ SummaryShape /\ RowsInv /\ AlertInv

\* The rules depend on the engine alone, and on a record.
LEMMA RulesStay ==
    ASSUME UNCHANGED engine
    PROVE  /\ Rules' = Rules
           /\ \A r : Fired(r)' = Fired(r) /\ Rejections(r)' = Rejections(r)
           /\ AcceptedRows' = AcceptedRows
<1>1. Rules' = Rules
  BY DEF Rules
<1>2. \A rule : Threshold(rule)' = Threshold(rule)
  BY DEF Threshold
<1>3. \A rule, r : Raises(rule, r)' = Raises(rule, r)
  BY DEF Raises, TextPriceFirst, BadPriceFirst, Applies
<1>4. \A rule, r : Violates(rule, r)' = Violates(rule, r)
  BY <1>2 DEF Violates, Jumps
<1>5. \A rule, r : Fires(rule, r)' = Fires(rule, r)
  BY <1>3, <1>4 DEF Fires, Applies
<1>6. \A r : Fired(r)' = Fired(r)
  BY <1>1, <1>5 DEF Fired
<1>7. \A r : Rejections(r)' = Rejections(r)
  BY <1>1, <1>3, <1>6 DEF Rejections
<1>8. \A r, places : Enriched(r, places)' = Enriched(r, places)
  BY DEF Enriched, Completeness, Score, Present
<1> QED
  BY <1>1, <1>6, <1>7, <1>8 DEF AcceptedRows

\* A record has no alert among its rules.
LEMMA NoAlertFires ==
    ASSUME NEW r
    PROVE  /\ Fired(r) \in SUBSET DOMAIN Rules /\ Rejections(r) \in SUBSET DOMAIN Rules
           /\ \A n \in Fired(r) \cup Rejections(r) : Rules[n] # "max_consecutive_missing_days"
  BY DEF Fired, Rejections, Fires, BatchRules

\* The rule of the batch level has its place.
LEMMA AlertHasPlace ==
    /\ AlertPlaces \in SUBSET DOMAIN Rules
    /\ \E n \in AlertPlaces : Rules[n] = "max_consecutive_missing_days"
<1>1. 17 \in DOMAIN Rules /\ Rules[17] = "max_consecutive_missing_days"
  BY SharedRulesAreListed DEF SharedRules
<1> QED
  BY <1>1 DEF AlertPlaces, BatchRules

\* What an entry of the audit log adds to what was alerted.
LEMMA AlertedByEntry ==
    ASSUME summary.audit_log \in Seq(SUBSET DOMAIN Rules), NEW places \in SUBSET DOMAIN Rules,
           summary'.audit_log = Append(summary.audit_log, places), UNCHANGED engine
    PROVE  /\ summary'.audit_log \in Seq(SUBSET DOMAIN Rules)
           /\ Alerted' <=> Alerted \/ \E n \in places : Rules[n] = "max_consecutive_missing_days"
<1> DEFINE log == summary.audit_log
           Alert(e) == \E n \in e : Rules[n] = "max_consecutive_missing_days"
<1>1. Rules' = Rules
  BY RulesStay
<1>2. Alerted <=> \E k \in DOMAIN log : Alert(log[k])
  BY DEF Alerted
<1>3. Alerted' <=> \E k \in DOMAIN Append(log, places) : Alert(Append(log, places)[k])
  BY <1>1 DEF Alerted
<1>4. /\ DOMAIN log = 1 .. Len(log) /\ DOMAIN Append(log, places) = 1 .. Len(log) + 1
      /\ Append(log, places)[Len(log) + 1] = places
      /\ \A k \in 1 .. Len(log) : Append(log, places)[k] = log[k]
      /\ Len(log) \in Nat
  OBVIOUS
<1>5. Append(log, places) \in Seq(SUBSET DOMAIN Rules)
  OBVIOUS
<1> HIDE DEF log, Alert
<1>6. (\E k \in DOMAIN Append(log, places) : Alert(Append(log, places)[k]))
        <=> (\E k \in DOMAIN log : Alert(log[k])) \/ Alert(places)
  <2>1. \A k \in 1 .. Len(log) + 1 : k \in 1 .. Len(log) \/ k = Len(log) + 1
    BY <1>4
  <2> QED
    BY <1>4, <2>1
<1> QED
  BY <1>2, <1>3, <1>5, <1>6 DEF log, Alert

LEMMA BatchInitial == ASSUME Init PROVE BatchInv
<1>1. batch \in Seq(Bars)
  <2>1. batch \in Inputs \/ batch = <<>>
    BY DEF Init, ValidationInit
  <2>2. batch \in Inputs => batch \in Seq(Bars)
    BY InputsAssumption
  <2>3. batch = <<>> => batch \in Seq(Bars)
    OBVIOUS
  <2> QED
    BY <2>1, <2>2, <2>3
<1>2. /\ summary.clean_records = <<>> /\ summary.flagged_records = <<>>
      /\ summary.audit_log = <<>> /\ SummaryShape
  <2>1. CASE summary = EmptySummary
    BY <2>1 DEF EmptySummary, SummaryShape
  <2>2. CASE summary = [EmptySummary EXCEPT !.closed = TRUE]
    BY <2>2 DEF EmptySummary, SummaryShape
  <2> QED
    BY <2>1, <2>2 DEF Init, ValidationInit
<1>3. RowsInv
  BY <1>2 DEF RowsInv
<1>4. summary.closed => batch = <<>>
  BY DEF Init, ValidationInit, EmptySummary
<1>5. batch = <<>> => Adjacent = {}
  BY DEF Adjacent, BatchDates, ToSet
<1>6. ~Alerted
  BY <1>2 DEF Alerted
<1> QED
  BY <1>1, <1>2, <1>3, <1>4, <1>5, <1>6 DEF BatchInv, AlertInv

\* A record is rejected, flagged or clean; nothing of an earlier one changes.
LEMMA RecordKeepsInv ==
    ASSUME BatchInv, ValidateRecord
    PROVE  BatchInv'
<1> DEFINE r == batch[Validated + 1]
<1>1. r \in Bars
  BY DEF BatchInv, SummaryShape, ValidateRecord, Validated
<1>2. ~summary.closed /\ UNCHANGED <<engine, batch>>
  BY DEF ValidateRecord
<1>3. Rules' = Rules /\ AcceptedRows' = AcceptedRows
  BY <1>2, RulesStay
<1>4. ~Alerted
  BY <1>2 DEF BatchInv, AlertInv
<1> HIDE DEF r
<1>5. CASE Rejections(r) # {} /\ summary' = Rejected(r)
  <2>1. /\ SummaryShape' /\ summary'.audit_log = Append(summary.audit_log, Rejections(r))
        /\ summary'.clean_records = summary.clean_records
        /\ summary'.flagged_records = summary.flagged_records
        /\ ~summary'.closed
    BY <1>2, <1>5 DEF BatchInv, SummaryShape, Rejected
  <2>2. summary'.audit_log \in Seq(SUBSET DOMAIN Rules) /\ ~Alerted'
    BY <1>2, <1>4, <2>1, NoAlertFires, AlertedByEntry DEF BatchInv, AlertInv
  <2> QED
    BY <1>2, <1>3, <2>1, <2>2 DEF BatchInv, RowsInv, AlertInv
<1>6. CASE Rejections(r) = {} /\ summary' = Flagged(r)
  <2>1. /\ SummaryShape' /\ summary'.audit_log = Append(summary.audit_log, Fired(r))
        /\ summary'.clean_records = summary.clean_records
        /\ summary'.flagged_records = Append(summary.flagged_records, Enriched(r, Fired(r)))
        /\ ~summary'.closed
    BY <1>2, <1>6 DEF BatchInv, SummaryShape, Flagged
  <2>2. summary'.audit_log \in Seq(SUBSET DOMAIN Rules) /\ ~Alerted'
    BY <1>2, <1>4, <2>1, NoAlertFires, AlertedByEntry DEF BatchInv, AlertInv
  <2>3. Enriched(r, Fired(r)) \in AcceptedRows
    BY <1>1, <1>6 DEF AcceptedRows
  <2>4. RowsInv'
    BY <1>3, <2>1, <2>3 DEF BatchInv, RowsInv
  <2> QED
    BY <1>2, <1>3, <2>1, <2>2, <2>4 DEF BatchInv, AlertInv
<1>7. CASE Fired(r) = {} /\ summary' = Clean(r)
  <2>1. /\ SummaryShape' /\ summary'.audit_log = summary.audit_log
        /\ summary'.clean_records = Append(summary.clean_records, Enriched(r, {}))
        /\ summary'.flagged_records = summary.flagged_records
        /\ ~summary'.closed
    BY <1>2, <1>7 DEF BatchInv, SummaryShape, Clean
  <2>2. ~Alerted'
    BY <1>3, <1>4, <2>1 DEF Alerted
  <2>3. Enriched(r, {}) \in AcceptedRows
    BY <1>1, <1>7 DEF AcceptedRows, Rejections
  <2>4. RowsInv'
    BY <1>3, <2>1, <2>3 DEF BatchInv, RowsInv
  <2> QED
    BY <1>2, <1>3, <2>1, <2>2, <2>4 DEF BatchInv, AlertInv
<1> QED
  BY <1>5, <1>6, <1>7 DEF ValidateRecord, r

\* The check of the dates changes nothing but the log.
LEMMA ContinuityKeepsInv ==
    ASSUME BatchInv, CheckContinuity
    PROVE  BatchInv'
<1> DEFINE gap == \E p \in Adjacent : MissingDays(p) > 5
<1>1. UNCHANGED <<engine, batch>> /\ ~summary.closed
  BY DEF CheckContinuity
<1>2. Rules' = Rules /\ AcceptedRows' = AcceptedRows
  BY <1>1, RulesStay
<1>3. gap' <=> gap
  BY <1>1 DEF Adjacent, BatchDates, MissingDays
<1>4. ~Alerted
  BY <1>1 DEF BatchInv, AlertInv
<1>5. /\ SummaryShape' /\ summary'.closed
      /\ summary'.clean_records = summary.clean_records
      /\ summary'.flagged_records = summary.flagged_records
      /\ summary'.audit_log = IF gap THEN Append(summary.audit_log, AlertPlaces)
                              ELSE summary.audit_log
  BY DEF BatchInv, SummaryShape, CheckContinuity
<1>6. RowsInv'
  BY <1>2, <1>5 DEF BatchInv, RowsInv
<1>7. summary'.audit_log \in Seq(SUBSET DOMAIN Rules) /\ (Alerted' <=> gap)
  <2>1. CASE gap
    BY <1>1, <1>5, <2>1, AlertHasPlace, AlertedByEntry DEF BatchInv, AlertInv
  <2>2. CASE ~gap
    BY <1>2, <1>4, <1>5, <2>2 DEF BatchInv, AlertInv, Alerted
  <2> QED
    BY <2>1, <2>2
<1> QED
  BY <1>1, <1>2, <1>3, <1>5, <1>6, <1>7 DEF BatchInv, AlertInv

THEOREM BatchInvariant == Spec => []BatchInv
<1>1. Init => BatchInv
  BY BatchInitial
<1>2. BatchInv /\ [Next]_vars => BatchInv'
  <2> SUFFICES ASSUME BatchInv, [Next]_vars PROVE BatchInv'
    OBVIOUS
  <2>1. ASSUME UNCHANGED <<engine, batch, summary>> PROVE BatchInv'
    <3>1. Rules' = Rules /\ AcceptedRows' = AcceptedRows
      BY <2>1, RulesStay
    <3>2. (\E p \in Adjacent : MissingDays(p) > 5)' <=> \E p \in Adjacent : MissingDays(p) > 5
      BY <2>1 DEF Adjacent, BatchDates, MissingDays
    <3>3. SummaryShape' /\ RowsInv'
      BY <2>1, <3>1 DEF BatchInv, SummaryShape, RowsInv
    <3>4. Alerted' <=> Alerted
      BY <2>1, <3>1 DEF Alerted
    <3> QED
      BY <2>1, <3>1, <3>2, <3>3, <3>4 DEF BatchInv, AlertInv
  <2>2. CASE ValidateRecord
    BY <2>2, RecordKeepsInv
  <2>3. CASE CheckContinuity
    BY <2>3, ContinuityKeepsInv
  <2> QED
    BY <2>1, <2>2, <2>3 DEF Next, ValidationNext, vars
<1> QED
  BY <1>1, <1>2, PTL DEF Spec

\* What a batch leaves, row by row.
LEMMA RowsAreAccepted ==
    ASSUME BatchInv, NEW row \in Rows
    PROVE  /\ row.record \in Bars /\ Rejections(row.record) = {}
           /\ row.data_quality_flag \/ Fired(row.record) = {}
           /\ row.data_completeness = Completeness(row.record)
<1>1. row \in AcceptedRows
  <2>1. Writable \in Seq(AcceptedRows)
    BY DEF Writable, BatchInv, RowsInv
  <2> QED
    BY <2>1 DEF Rows, ToSet
<1>2. PICK r \in Bars : Rejections(r) = {} /\ row = Enriched(r, Fired(r))
  BY <1>1 DEF AcceptedRows
<1> QED
  BY <1>2 DEF Enriched

\* Four numbers that pass the rules are a bar that can have been traded: the
\* rules of rule_engine.py together, in spite of nulls, NaN and rules that raise.
THEOREM AcceptedBarsAreTradable == Spec => []WrittenIsTradable
<1>1. BatchInv => WrittenIsTradable
  BY RowsAreAccepted, AcceptedIsTradable DEF WrittenIsTradable, Tradable
<1> QED
  BY <1>1, BatchInvariant, PTL

\* A row without a flag has what the constructor of BronzeRecord insists on;
\* what slips through because a rule raised carries the flag.
THEOREM UnflaggedRowsAreRecords == Spec => []WrittenIsRecordOrFlagged
<1>1. BatchInv => WrittenIsRecordOrFlagged
  BY RowsAreAccepted, CleanIsRecord DEF WrittenIsRecordOrFlagged
<1> QED
  BY <1>1, BatchInvariant, PTL

\* The score of a written row is that of BronzeRecord, and every field counts: one
\* that the stream declares nullable for a provider lowers the score as any other
\* (against streams/daily.yml:78 and validator.py:332).
THEOREM EveryFieldCounts == Spec => []EveryFieldIsScored
<1>1. BatchInv => EveryFieldIsScored
  BY RowsAreAccepted, ScoreOfRecord DEF EveryFieldIsScored
<1> QED
  BY <1>1, BatchInvariant, PTL

\* The estimate of _check_continuity, which counts calendar days and takes off
\* one weekend, alerts exactly when five weekdays are missing.
THEOREM AlertsAreExact == Spec => []AlertIffFiveDaysMissing
<1>1. BatchInv => AlertIffFiveDaysMissing
  <2> SUFFICES ASSUME BatchInv, summary.closed, \A d \in BatchDates : d % 7 < 5
               PROVE  Alerted <=> \E p \in Adjacent : Cardinality(Weekdays(p)) >= 5
    BY DEF AlertIffFiveDaysMissing
  <2>1. BatchDates \subseteq Int
    <3>1. \A r \in Bars : r.bar_date \in Int \cup {Null, Text}
      BY DEF Bars
    <3>2. \A r \in ToSet(batch) : r \in Bars
      BY DEF BatchInv, ToSet
    <3> QED
      BY <3>1, <3>2 DEF BatchDates
  <2>2. ASSUME NEW p \in Adjacent
        PROVE  MissingDays(p) > 5 <=> Cardinality(Weekdays(p)) >= 5
    <3>1. p[1] \in BatchDates /\ p[1] \in Int /\ p[2] \in Int
      BY <2>1 DEF Adjacent
    <3>2. MissingDays(p) > 5 <=> p[2] - p[1] >= 8
      BY <3>1 DEF MissingDays
    <3>3. Cardinality(Weekdays(p)) >= 5 <=> p[2] - p[1] >= 8
      BY <3>1, FiveWeekdaysTakeEightDays DEF Weekdays
    <3> QED
      BY <3>2, <3>3
  <2> QED
    BY <2>2 DEF BatchInv, AlertInv
<1> QED
  BY <1>1, BatchInvariant, PTL
-----------------------------------------------------------------------------
(* Amendments.                                                             *)

\* No batch is numbered beyond the records there are, so that the next one is new.
RecordsInv ==
    /\ IsFiniteSet(records)
    /\ \A r \in records : /\ DOMAIN r = Fields
                          /\ r.batch_id \in Int /\ r.batch_id <= Cardinality(records)

AmendInv == RecordsInv /\ AmendmentsAreLinked

\* A record more.
LEMMA OneMoreRecord ==
    ASSUME RecordsInv, NEW r, records' = records \cup {r},
           DOMAIN r = Fields, r.batch_id \in Int,
           r.batch_id <= Cardinality(records) \/ r.batch_id = FreshBatch
    PROVE  RecordsInv'
<1>1. Cardinality(records) \in Nat
  BY FS_CardinalityType DEF RecordsInv
<1>2. IsFiniteSet(records')
  BY FS_AddElement DEF RecordsInv
<1>3. Cardinality(records') = IF r \in records THEN Cardinality(records) ELSE Cardinality(records) + 1
  BY FS_AddElement DEF RecordsInv
<1>4. r.batch_id = FreshBatch => r \notin records
  BY <1>1 DEF RecordsInv, FreshBatch
<1>5. ASSUME NEW s \in records' PROVE s.batch_id <= Cardinality(records')
  BY <1>1, <1>3, <1>4 DEF RecordsInv, FreshBatch
<1> QED
  BY <1>2, <1>5 DEF RecordsInv

\* The key, the table and the version of an amendment are those of its original.
LEMMA AmendmentOfRecord ==
    ASSUME NEW r, DOMAIN r = Fields, NEW b, NEW reason, NEW fields,
           DOMAIN fields \subseteq AmendableFields
    PROVE  LET new == PostInit(Amended(r, b, reason, fields))
           IN  /\ DOMAIN new = Fields
               /\ new.batch_id = b /\ new.supersedes_batch = r.batch_id
               /\ new.record_version = r.record_version + 1
               /\ UniqueKey(new) = UniqueKey(r) /\ TableTier(new) = TableTier(r)
<1> DEFINE over == Overlaid(r, fields)
           am   == Amended(r, b, reason, fields)
           new  == PostInit(am)
<1>1. DOMAIN over = Fields
  BY DEF Overlaid
<1>2. \A f \in {"symbol", "bar_date", "bar_interval", "bar_time_utc"} : over[f] = r[f]
  BY DEF Overlaid, Fields, AmendableFields
<1> HIDE DEF over
<1>3. /\ DOMAIN am = Fields
      /\ am.batch_id = b /\ am.supersedes_batch = r.batch_id
      /\ am.record_version = r.record_version + 1
      /\ \A f \in {"symbol", "bar_date", "bar_interval", "bar_time_utc"} : am[f] = over[f]
  BY <1>1 DEF Amended, over, Fields
<1> HIDE DEF am
<1>4. /\ DOMAIN new = Fields
      /\ \A f \in Fields \ {"unadj_close", "has_corporate_action"} : new[f] = am[f]
  BY <1>3 DEF PostInit
<1> HIDE DEF new
<1>5. /\ new.batch_id = b /\ new.supersedes_batch = r.batch_id
      /\ new.record_version = r.record_version + 1
      /\ \A f \in {"symbol", "bar_date", "bar_interval", "bar_time_utc"} : new[f] = r[f]
  BY <1>2, <1>3, <1>4 DEF Fields
<1>6. UniqueKey(new) = UniqueKey(r) /\ TableTier(new) = TableTier(r)
  BY <1>5 DEF UniqueKey, TableTier
<1> QED
  BY <1>4, <1>5, <1>6 DEF new, am

\* The old records are still there.
LEMMA OldRecordsStayLinked ==
    ASSUME AmendmentsAreLinked, NEW new, records' = records \cup {new},
           new.is_amended =>
             \E old \in records :
               /\ old.batch_id = new.supersedes_batch /\ old.batch_id # new.batch_id
               /\ old.record_version + 1 = new.record_version
               /\ UniqueKey(old) = UniqueKey(new) /\ TableTier(old) = TableTier(new)
    PROVE  AmendmentsAreLinked'
  BY DEF AmendmentsAreLinked

\* Amendments of amendments: each supersedes the batch of a record of the same bar
\* in the same table that is one version older (bronze_record.py, amend).
THEOREM AmendmentsFormChains == Spec => []AmendmentsAreLinked
<1>1. Init => AmendInv
  BY FS_EmptySet DEF Init, RecordsInit, AmendInv, RecordsInv, AmendmentsAreLinked
<1>2. AmendInv /\ [Next]_vars => AmendInv'
  <2> SUFFICES ASSUME AmendInv, [Next]_vars PROVE AmendInv'
    OBVIOUS
  <2>1. CASE UNCHANGED records
    BY <2>1 DEF AmendInv, RecordsInv, AmendmentsAreLinked
  <2>2. ASSUME NEW args \in Arguments, Construct(args) PROVE AmendInv'
    <3> DEFINE new == PostInit(args)
    <3>1. DOMAIN args = Fields /\ ~args.is_amended /\ args.batch_id \in Int /\ args.batch_id <= 0
      BY RecordsAssumption
    <3>2. DOMAIN new = Fields /\ new.is_amended = args.is_amended /\ new.batch_id = args.batch_id
      BY <3>1 DEF PostInit, Fields
    <3>3. records' = records \cup {new}
      BY <2>2 DEF Construct
    <3> HIDE DEF new
    <3>4. Cardinality(records) \in Nat
      BY FS_CardinalityType DEF AmendInv, RecordsInv
    <3>5. RecordsInv'
      BY <3>1, <3>2, <3>3, <3>4, OneMoreRecord DEF AmendInv
    <3>6. AmendmentsAreLinked'
      BY <3>1, <3>2, <3>3, OldRecordsStayLinked DEF AmendInv
    <3> QED
      BY <3>5, <3>6 DEF AmendInv
  <2>3. ASSUME NEW r \in records, NEW reason \in Reasons, NEW fields \in Updates,
               Amend(r, FreshBatch, reason, fields)
        PROVE  AmendInv'
    <3> DEFINE new == PostInit(Amended(r, FreshBatch, reason, fields))
    <3>1. DOMAIN r = Fields /\ r.batch_id \in Int /\ r.batch_id <= Cardinality(records)
          /\ Cardinality(records) \in Nat
      BY FS_CardinalityType DEF AmendInv, RecordsInv
    <3>2. records' = records \cup {new} /\ DOMAIN fields \subseteq AmendableFields
      BY <2>3 DEF Amend
    <3>3. /\ DOMAIN new = Fields
          /\ new.batch_id = FreshBatch /\ new.supersedes_batch = r.batch_id
          /\ new.record_version = r.record_version + 1
          /\ UniqueKey(new) = UniqueKey(r) /\ TableTier(new) = TableTier(r)
      BY <3>1, <3>2, AmendmentOfRecord
    <3> HIDE DEF new
    <3>4. FreshBatch \in Int /\ r.batch_id # FreshBatch
      BY <3>1 DEF FreshBatch
    <3>5. RecordsInv'
      BY <3>2, <3>3, <3>4, OneMoreRecord DEF AmendInv
    <3>6. AmendmentsAreLinked'
      BY <3>2, <3>3, <3>4, OldRecordsStayLinked DEF AmendInv
    <3> QED
      BY <3>5, <3>6 DEF AmendInv
  <2> QED
    BY <2>1, <2>2, <2>3 DEF Next, RecordsNext, vars
<1> QED
  BY <1>1, <1>2, PTL DEF Spec, AmendInv
=============================================================================
