----------------------------- MODULE MCPipeline -----------------------------
(***************************************************************************)
(* Instances of Pipeline for TLC.                                          *)
(***************************************************************************)
EXTENDS Pipeline

CONSTANT i1

One == {i1}

Nobody    == {}
NoRange   == [start |-> 1, end |-> 1]
FromDay0  == [i \in Instruments |-> 0]
FromDay1  == [i \in Instruments |-> 1]
EveryDay  == 1 .. MaxDay
AllDays   == 0 .. MaxDay
EveryBar  == [i \in Instruments |-> EveryDay]
AllValid  == [i \in Instruments |-> {}]
FirstBad  == [i \in Instruments |-> {1}]
AllFaults == FaultKinds

\* For runs in which some history lies before the first day of the clock.
NoDates   == [i \in Instruments |-> NoDate]
SinceDay0 == [i \in Instruments |-> 0 .. MaxDay]

\* The vendor has nothing on the first day.
NotOnDay1 == [i \in Instruments |-> (0 .. MaxDay) \ {1}]
=============================================================================
