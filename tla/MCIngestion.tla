----------------------------- MODULE MCIngestion -----------------------------
(***************************************************************************)
(* Instances of Ingestion for TLC.                                         *)
(***************************************************************************)
EXTENDS Ingestion

SourceList == <<"ibkr", "ibinsync", "polygon", "yahoo">>
FromZero == [i \in Instruments |-> 0]
Island  == {[start |-> 0, end |-> 0]}
AnyRange == [start |-> 0, end |-> 0]
=============================================================================
