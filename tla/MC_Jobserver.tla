---------------------------- MODULE MC_Jobserver ----------------------------
(***************************************************************************)
(* A make and a submake.                                                   *)
(***************************************************************************)
EXTENDS Jobserver

CONSTANTS top, sub, a, b, c, s, x, y

\* Top makes a and b, in one run c as well, and runs the submake, which makes x
\* and y.
SomeJobs == {a, b, s, x, y}
MoreJobs == {a, b, c, s, x, y}

JobOf == [j \in Jobs |-> IF j \in {x, y} THEN sub ELSE top]
JobRuns == [j \in Jobs |-> IF j = s THEN sub ELSE NoMake]

\* x has two lines; in some of the runs it has one, and b or y has none.
JobLines == [j \in Jobs |-> IF j = x THEN 2 ELSE 1]
EmptyLines == [JobLines EXCEPT ![b] = 0]
NothingForY == [j \in Jobs |-> IF j = y THEN 0 ELSE 1]
NoPrerequisites == [j \in Jobs |-> {}]
BNeedsA == [j \in Jobs |-> IF j = b THEN {a} ELSE {}]
=============================================================================
