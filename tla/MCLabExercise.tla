--------------------------- MODULE MCLabExercise ---------------------------
(***************************************************************************)
(* LabExercise with a handful of students.                                 *)
(***************************************************************************)
EXTENDS LabExercise

CONSTANTS s1, s2, s3, s4

Three == {s1, s2, s3}
Four == {s1, s2, s3, s4}

AllWaits == {"giveWait", "lastWait", "callWait", "getWait", "enterWait", "labWait"}
NoWaits == {}
=============================================================================
