--------------------------- MODULE MCSampleAllocation --------------------------
(* Instances of SampleAllocation for TLC.                                     *)
EXTENDS SampleAllocation
\* 1/sqrt(p) at p = 1/2 and p = 1, times five.
TwoPilots == <<7, 5>>
SmallBudgets == {1, 3, 4, 6}
TwoNorms == {1, 2}
===============================================================================
