--------------------------- MODULE MCMemoryArena ---------------------------
(***************************************************************************)
(* MemoryArena with a memory of MemSize units and jobs of a few sizes.     *)
(***************************************************************************)
EXTENDS MemoryArena

\* 1 fits anywhere, 2 and 3 make holes that are too small for one another.
MCSizes == {1, 2, 3}
=============================================================================
