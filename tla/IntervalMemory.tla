--------------------------- MODULE IntervalMemory ---------------------------
(***************************************************************************)
(* What the memory manager promises its callers, without any block list:   *)
(* a set of pairwise disjoint intervals of 0..MemSize-1.  A request is     *)
(* served with some interval nobody holds, and it is refused only when no  *)
(* such interval exists.  MemoryArena implements this specification.       *)
(***************************************************************************)
EXTENDS Integers

CONSTANTS MemSize,    \* size of the memory
          Sizes,      \* sizes a caller may ask for
          NoOffset    \* the answer to a request that is refused

VARIABLES used,       \* intervals [offset, size] in use
          answer      \* offset given to the last request, or NoOffset

vars == << used, answer >>

Disjoint(r, o, n) == r.offset + r.size <= o \/ o + n <= r.offset

\* n units from o on lie in the memory and nobody holds any of them
IsHole(o, n) == /\ o \in 0..(MemSize - n)
                /\ \A r \in used : Disjoint(r, o, n)

Init == used = {} /\ answer = NoOffset

Grant(n) == \E o \in 0..(MemSize - n) :
               /\ IsHole(o, n)
               /\ used' = used \cup {[offset |-> o, size |-> n]}
               /\ answer' = o

Refuse(n) == /\ \A o \in 0..(MemSize - n) : ~IsHole(o, n)
             /\ answer' = NoOffset
             /\ UNCHANGED used

Release == \E r \in used : used' = used \ {r} /\ UNCHANGED answer

Next == (\E n \in Sizes : Grant(n) \/ Refuse(n)) \/ Release

Spec == Init /\ [][Next]_vars
=============================================================================
