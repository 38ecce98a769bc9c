------------------------- MODULE MCCorporateActions -------------------------
(***************************************************************************)
(* Instances of CorporateActions for TLC.                                  *)
(***************************************************************************)
EXTENDS CorporateActions

CONSTANTS i1, r1

One    == {i1}
OneRun == {r1}

\* 100 and 35 are a 3-for-1 split and back at the edge of the tolerance, 100
\* and 30 no known split, 35 and 30 too close to be noticed.
Closes == {100, 35, 30}
Start  == [i \in Instruments |-> 100]
Moves  == [Instruments -> Closes]

Event(i, date, shares, dividend) ==
    [inst |-> i, date |-> date, shares |-> shares, dividend |-> dividend]

\* A split and a dividend on the day the detector may see the split.
History == { Event(i1, 2, Ratio(3, 1), FALSE), Event(i1, 2, Ratio(1, 1), TRUE) }
=============================================================================
