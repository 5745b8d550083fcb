--------------------------- MODULE MCSwapScheduler ---------------------------
(***************************************************************************)
(* SwapScheduler with every job list of N lines drawn from a few kinds.    *)
(***************************************************************************)
EXTENDS SwapScheduler

Line(a, s, p, m) == [arrival |-> a, service |-> s, priority |-> p, mbytes |-> m]

\* Level 1 and 2 jobs of several lengths and sizes, real-time jobs that come while
\* those hold the memory of 4 units, lines out of order, a job that has priority 2
\* from the start, and a job larger than the memory.
Kinds ==
  { Line(0, 3, 1, 2), Line(0, 4, 1, 1), Line(1, 1, 1, 3), Line(0, 2, 2, 1),
    Line(2, 2, 0, 2), Line(2, 1, 0, 4), Line(2, 1, 0, 5) }

MCQuanta == {1, 2}
=============================================================================
