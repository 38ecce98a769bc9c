------------------------------- MODULE Splits -------------------------------
(***************************************************************************)
(* What a ratio of two prices means: the detector's threshold, the         *)
(* classifier's table of known splits and Yahoo's way of writing a split.  *)
(* A ratio is a pair of naturals, so that nothing here is rounded that the *)
(* program does not round.                                                 *)
(***************************************************************************)
EXTENDS Integers

Percent == 100
Unit    == 10000   \* the table's expected ratios have four decimals

Ratio(p, q)   == [num |-> p, den |-> q]
Distance(a, b) == IF a < b THEN b - a ELSE a - b

\* abs(ratio - 1.0) > detection_threshold, 40%; zero prices are left out.
Threshold == 40
Deviates(vendor, stored) ==
    vendor # 0 /\ stored # 0 /\ Distance(vendor, stored) * Percent > Threshold * stored

\* _KNOWN_SPLITS.
KnownSplits ==
    { [from |->  2, to |->  1, expected |->   5000], [from |->  3, to |->  1, expected |->   3333],
      [from |->  4, to |->  1, expected |->   2500], [from |->  5, to |->  1, expected |->   2000],
      [from |->  3, to |->  2, expected |->   6667], [from |->  5, to |->  2, expected |->   4000],
      [from |-> 10, to |->  1, expected |->   1000], [from |->  1, to |->  2, expected |->  20000],
      [from |->  1, to |->  5, expected |->  50000], [from |->  1, to |-> 10, expected |-> 100000],
      [from |->  1, to |-> 20, expected |-> 200000] }

\* isclose(ratio, expected, rel_tol=0.05): relative to the larger of the two.
Tolerance == 5
IsClose(r, expected) ==
    LET a == r.num * Unit
        b == expected * r.den
    IN  Distance(a, b) * Percent <= Tolerance * (IF a < b THEN b ELSE a)

Matches(r) == { s \in KnownSplits : IsClose(r, s.expected) }

\* Mutant of Classify: shares before and after are mixed up.
ClassifySwapped(r) ==
    { [type |-> IF s.to < s.from THEN "SPLIT" ELSE "REVERSE_SPLIT",
       from |-> s.to, to |-> s.from, factor |-> Ratio(s.from, s.to)] : s \in Matches(r) }

\* _classify_ratio and the factor its caller derives.  No event for a ratio
\* that matches nothing, whether it is called FALSE_POSITIVE or UNKNOWN.
Classify(r) ==
    { [type |-> IF s.to < s.from THEN "SPLIT" ELSE "REVERSE_SPLIT",
       from |-> s.from, to |-> s.to, factor |-> Ratio(s.to, s.from)] : s \in Matches(r) }

\* Python's round of n/d: a half goes to the even neighbour.
Round(n, d) ==
    LET q == n \div d
        r == 2 * (n % d)
    IN  IF r < d \/ (r = d /\ q % 2 = 0) THEN q ELSE q + 1

\* YahooCorporateActionsProvider: r is the new number of shares per old share.
FromYahoo(r) ==
    IF r.num < r.den
    THEN LET n == Round(r.den, r.num)
         IN  [type |-> "REVERSE_SPLIT", from |-> n, to |-> 1, factor |-> Ratio(n, 1)]
    ELSE LET n == Round(r.num, r.den)
         IN  [type |-> "SPLIT", from |-> n, to |-> 1, factor |-> Ratio(1, n)]
Dividend == [type |-> "DIVIDEND", from |-> 1, to |-> 1, factor |-> Ratio(1, 1)]
=============================================================================
