----------------------------- MODULE MemoryArena -----------------------------
(***************************************************************************)
(* The block list under an arbitrary sequence of memAlloc and memFree      *)
(* calls, memFree taken apart into the steps of its body: mark the block   *)
(* free, merge it into its predecessor, then a loop that merges it with    *)
(* its successors.  The dispatcher is single threaded, so no other call    *)
(* starts while memFree runs.                                              *)
(***************************************************************************)
EXTENDS MemoryBlocks

CONSTANT Sizes          \* mbytes of the jobs

ASSUME SizesAssumption == Sizes \subseteq Nat \ {0}

NoOffset == -1

VARIABLES blocks,       \* the list that starts at Memory_blocks
          pc,           \* where memFree is; "idle" outside of it
          m,            \* memFree's local m; 0 outside of it
          answer        \* offset of the last memAlloc result, or NoOffset

vars == << blocks, pc, m, answer >>

Init == /\ blocks = WholeMemory
        /\ pc = "idle"
        /\ m = 0
        /\ answer = NoOffset

Alloc(size) ==
  /\ pc = "idle"
  /\ LET k == MemChk(blocks, size)
     IN  IF k = 0
           THEN answer' = NoOffset /\ UNCHANGED blocks
           ELSE /\ blocks' = MemAlloc(blocks, k, size)
                /\ answer' = blocks[k].offset
  /\ UNCHANGED << pc, m >>

\* memFree(m), for any block a caller holds
FreeMark(k) ==
  /\ pc = "idle"
  /\ blocks[k].allocated
  /\ blocks' = [blocks EXCEPT ![k].allocated = FALSE]
  /\ m' = k
  /\ pc' = "prev"
  /\ UNCHANGED answer

\* The cursor stays where the block used to be.
FreeMergePrev_cursor ==
  /\ pc = "prev"
  /\ blocks' = IF PrevIsFree(blocks, m) THEN MemMerge(blocks, m - 1) ELSE blocks
  /\ pc' = "next"
  /\ UNCHANGED << m, answer >>

\* No merge with the block before.
FreeMergePrev_skip ==
  /\ pc = "prev"
  /\ pc' = "next"
  /\ UNCHANGED << blocks, m, answer >>

FreeMergePrev ==
  /\ pc = "prev"
  /\ IF PrevIsFree(blocks, m)
       THEN blocks' = MemMerge(blocks, m - 1) /\ m' = m - 1
       ELSE UNCHANGED << blocks, m >>
  /\ pc' = "next"
  /\ UNCHANGED answer

FreeMergeNext ==
  /\ pc = "next"
  /\ NextIsFree(blocks, m)
  /\ blocks' = MemMerge(blocks, m)
  /\ UNCHANGED << pc, m, answer >>

\* Returns without looking at the block after.
FreeReturn_early ==
  /\ pc = "next"
  /\ pc' = "idle"
  /\ m' = 0
  /\ UNCHANGED << blocks, answer >>

FreeReturn ==
  /\ pc = "next"
  /\ ~NextIsFree(blocks, m)
  /\ pc' = "idle"
  /\ m' = 0
  /\ UNCHANGED << blocks, answer >>

Next == \/ \E size \in Sizes : Alloc(size)
        \/ \E k \in DOMAIN blocks : FreeMark(k)
        \/ FreeMergePrev
        \/ FreeMergeNext
        \/ FreeReturn

Spec == Init /\ [][Next]_vars

-----------------------------------------------------------------------------
(* Properties                                                              *)

\* The block list is a list of blocks, memFree's cursor points into it while
\* memFree runs.
TypeOK == /\ blocks \in Seq(Block)
          /\ pc \in {"idle", "prev", "next"}
          /\ m \in IF pc = "idle" THEN {0} ELSE 1..Len(blocks)
          /\ answer \in 0..MemSize-1 \cup {NoOffset}

\* However allocations, splits and merges follow each other, the list tiles the
\* memory: no unit of it is lost to a merge or handed out twice by a split.
BlocksTileMemory == Tiles(blocks)

\* Outside of memFree no two neighbours are free: first fit never refuses a
\* job because the free room it needs is cut into two blocks.
FreeBlocksCoalesced == pc = "idle" => Coalesced(blocks)

\* Stage 3 step iv.b probes for room with memAlloc and gives the block back with
\* memFree at once ("will be re-allocated in the following steps"): the probe
\* leaves the list exactly as it was.
ProbeLeavesNoTrace ==
  pc = "idle" =>
    \A size \in Sizes :
      LET k == MemChk(blocks, size)
      IN  k # 0 => MemFree(MemAlloc(blocks, k, size), k) = blocks

\* The list that the rest of the running memFree leads to.
Outcome == CASE pc = "idle" -> blocks
             [] pc = "prev" -> MemFree(blocks, m)
             [] pc = "next" -> IF NextIsFree(blocks, m)
                                 THEN MemMerge(blocks, m) ELSE blocks

\* memFree's while loop over the following blocks never iterates twice, and its
\* steps end exactly where the loop-free MemFree of MemoryBlocks says: the free
\* neighbours a caller could find are at most one on either side.
StepsComputeMemFree ==
  [][/\ pc # "idle" => Outcome' = Outcome
     /\ \A k \in DOMAIN blocks :
          FreeMark(k) => Outcome' = MemFree(blocks, k)]_vars

\* The block list implements the promise made to callers: intervals handed out
\* are disjoint, and a request is refused only if no hole of its size exists.
Promise == INSTANCE IntervalMemory WITH used <- UsedIntervals(blocks)
ImplementsIntervalMemory == Promise!Spec

=============================================================================
