------------------------- MODULE MCFeedbackScheduler -------------------------
(* FeedbackScheduler with every job list of N lines drawn from a few kinds. *)
EXTENDS FeedbackScheduler

Line(a, s, p, m) == [arrival |-> a, service |-> s, priority |-> p, mbytes |-> m]

(* Normal jobs that share the memory of 4 units or fill it, real-time jobs  *)
(* that come while they hold it, a late line, one with priority 2 and one   *)
(* that is larger than the memory.                                          *)
Kinds == { Line(0, 1, 1, 2), Line(0, 3, 1, 2), Line(1, 4, 1, 3), Line(0, 3, 2, 1),
           Line(1, 2, 0, 2), Line(2, 1, 0, 4), Line(6, 2, 1, 1),
           Line(1, 1, 1, 5) }
MCQuanta == {1, 2}
=============================================================================
