---------------------------- MODULE MemoryBlocks ----------------------------
(***************************************************************************)
(* The simulated memory of the Stage 2 and Stage 3 job dispatchers (mab.c).*)
(*                                                                         *)
(* The code keeps a doubly linked list of struct mab in address order.     *)
(* Here the list is a sequence of blocks and a MabPtr is a position in it; *)
(* position 0 is the NULL pointer.  next and prev are the positions k + 1  *)
(* and k - 1.  A block keeps its offset for as long as it exists, so a     *)
(* caller that holds a block across other calls names it by its offset.    *)
(***************************************************************************)
EXTENDS Integers, Sequences, SequencesExt

CONSTANT MemSize        \* MEMORY_SIZE of mab.h

ASSUME MemSizeAssumption == MemSize \in Nat \ {0}

Block == [offset : Nat, size : Nat \ {0}, allocated : BOOLEAN]

\* The single block main() creates before it reads the job list.
WholeMemory == << [offset |-> 0, size |-> MemSize, allocated |-> FALSE] >>

NextIsFree(b, k) == k < Len(b) /\ ~b[k+1].allocated

PrevIsFree(b, k) == k > 1 /\ ~b[k-1].allocated

\* Position of the block that starts at offset o.
BlockAt(b, o) == CHOOSE k \in 1..Len(b) : b[k].offset = o

-----------------------------------------------------------------------------
(* memChk, memSplit, memMerge, memAlloc, memFree.  An operator whose name  *)
(* ends in _x is the one after it with a mistake put in on purpose; the    *)
(* runs confirm that a property notices it.                                *)

\* Forgets to look at the allocated flag.
MemChk_x(b, size) == SelectInSeq(b, LAMBDA blk : blk.size >= size)

\* First fit: the first free block that is large enough, 0 if there is none.
MemChk(b, size) ==
  SelectInSeq(b, LAMBDA blk : ~blk.allocated /\ blk.size >= size)

\* The new block starts where the first one does.
MemSplit_x(b, k, size) ==
  IF b[k].size > size
    THEN InsertAt([b EXCEPT ![k].size = size], k + 1,
                  [offset    |-> b[k].offset,
                   size      |-> b[k].size - size,
                   allocated |-> b[k].allocated])
    ELSE b

\* The block at k keeps its first size units; a new block after it gets the
\* rest, with the same allocated flag.
MemSplit(b, k, size) ==
  IF b[k].size > size
    THEN InsertAt([b EXCEPT ![k].size = size], k + 1,
                  [offset    |-> b[k].offset + size,
                   size      |-> b[k].size - size,
                   allocated |-> b[k].allocated])
    ELSE b

\* The block at k absorbs its successor, which leaves the list.
MemMerge(b, k) ==
  IF k < Len(b)
    THEN RemoveAt([b EXCEPT ![k].size = @ + b[k+1].size], k + 1)
    ELSE b

\* The list after memAlloc has found the free block at k.
MemAlloc(b, k, size) == [MemSplit(b, k, size) EXCEPT ![k].allocated = TRUE]

\* Never looks at the block after.
MemFree_x(b, k) ==
  LET freed == [b EXCEPT ![k].allocated = FALSE]
  IN  IF PrevIsFree(b, k) THEN MemMerge(freed, k - 1) ELSE freed

\* The list after memFree of the block at k.  The code absorbs the following
\* blocks in a while loop; MemoryArena takes that loop one iteration at a time
\* and shows (StepsComputeMemFree) that it never iterates twice.
MemFree(b, k) ==
  LET freed  == [b EXCEPT ![k].allocated = FALSE]
      start  == IF PrevIsFree(b, k) THEN k - 1 ELSE k
      joined == IF PrevIsFree(b, k) THEN MemMerge(freed, k - 1) ELSE freed
  IN  IF NextIsFree(joined, start) THEN MemMerge(joined, start) ELSE joined

-----------------------------------------------------------------------------
(* What makes a block list well formed                                     *)

\* The blocks lie one after the other, without gap or overlap, from 0 to the
\* end of the memory.
Tiles(b) ==
  /\ Len(b) > 0
  /\ b[1].offset = 0
  /\ \A k \in 1..Len(b)-1 : b[k+1].offset = b[k].offset + b[k].size
  /\ b[Len(b)].offset + b[Len(b)].size = MemSize

\* No two neighbouring blocks are both free.
Coalesced(b) == \A k \in 1..Len(b)-1 : b[k].allocated \/ b[k+1].allocated

\* The intervals in the hands of callers.
UsedIntervals(b) ==
  { [offset |-> b[k].offset, size |-> b[k].size] :
      k \in { i \in 1..Len(b) : b[i].allocated } }

=============================================================================
