---------------------------- MODULE MCReference ----------------------------
(***************************************************************************)
(* Instances of Reference for TLC: a and b are shares, spy is a seed.      *)
(***************************************************************************)
EXTENDS Reference

CONSTANTS a, b, spy

Three  == {a, b, spy}
Spy    == {spy}
Nobody == {}
Shares == {a, b}
Active == {a, spy}

\* a is in an active and in an inactive universe, b in the inactive one.
Held == [u \in {"SP500", "RUSSELL2000"} |-> IF u = "SP500" THEN {a} ELSE {a, b}]

NoLines == {}
TwoRuns == {"first", "second"}
=============================================================================
