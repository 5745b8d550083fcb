------------------------- MODULE MemoryArena_proofs -------------------------
(***************************************************************************)
(* Theorems about MemoryArena for every MemSize and every set of sizes.    *)
(***************************************************************************)
EXTENDS MemoryArena, MemoryBlocks_proofs

(***************************************************************************)
(* The inductive invariant.  TypeOK and Tiles alone are not inductive: that*)
(* the answer lies in the memory needs Ordered, and that memFree leaves no *)
(* two free neighbours needs to know, at each of its steps, which pair of  *)
(* neighbours may both be free at that point: those around the block just  *)
(* freed before the first merge, the pair (m, m + 1) after it.             *)
(***************************************************************************)
FreeNeighbours ==
  /\ pc = "idle" => Coalesced(blocks)
  /\ pc = "prev" =>
       /\ ~blocks[m].allocated
       /\ \A k \in 1..Len(blocks)-1 :
            k # m /\ k + 1 # m => blocks[k].allocated \/ blocks[k+1].allocated
  /\ pc = "next" =>
       /\ ~blocks[m].allocated
       /\ \A k \in 1..Len(blocks)-1 :
            k # m => blocks[k].allocated \/ blocks[k+1].allocated

Invariant == TypeOK /\ WellFormed(blocks) /\ FreeNeighbours

-----------------------------------------------------------------------------
(* Init and each action                                                    *)

\* main()'s single free block satisfies the invariant.
LEMMA InitInvariant == Init => Invariant
  <1>1. SUFFICES ASSUME Init PROVE Invariant
    OBVIOUS
  <1>2. WellFormed(blocks)
    BY <1>1, WholeMemoryWellFormed DEF Init
  <1>3. Len(blocks) = 1
    BY <1>1 DEF Init, WholeMemory
  <1>4. TypeOK
    BY <1>1, <1>2 DEF Init, TypeOK, WellFormed
  <1>5. FreeNeighbours
    BY <1>1, <1>3 DEF Init, FreeNeighbours, Coalesced
  <1>6. QED
    BY <1>2, <1>4, <1>5 DEF Invariant

\* What the invariant says about the list, in the form the proofs cite.
LEMMA InvariantFacts ==
  ASSUME Invariant
  PROVE  /\ blocks \in Seq(Block) /\ WellFormed(blocks)
         /\ Len(blocks) \in Nat \ {0}
         /\ \A k \in 1..Len(blocks) : /\ blocks[k] \in Block
                                      /\ blocks[k].allocated \in BOOLEAN
         /\ DOMAIN blocks = 1..Len(blocks)
  <1>1. blocks \in Seq(Block) /\ WellFormed(blocks)
    BY DEF Invariant, WellFormed
  <1>2. Len(blocks) > 0
    BY <1>1 DEF WellFormed, Tiles
  <1>3. /\ Len(blocks) \in Nat /\ DOMAIN blocks = 1..Len(blocks)
        /\ \A k \in 1..Len(blocks) : blocks[k] \in Block
    BY <1>1, LenProperties
  <1>4. \A k \in 1..Len(blocks) : blocks[k].allocated \in BOOLEAN
    BY <1>3 DEF Block
  <1>5. QED
    BY <1>1, <1>2, <1>3, <1>4

\* memAlloc, granted or refused, keeps the invariant.
LEMMA AllocInvariant ==
  ASSUME Invariant, NEW size \in Sizes, Alloc(size)
  PROVE  Invariant'
  <1> DEFINE k == MemChk(blocks, size)
  <1>1. size \in Nat \ {0}
    BY SizesAssumption
  <1>2. /\ blocks \in Seq(Block) /\ WellFormed(blocks)
        /\ Len(blocks) \in Nat \ {0}
        /\ \A i \in 1..Len(blocks) : blocks[i].allocated \in BOOLEAN
    BY InvariantFacts
  <1>3. /\ k \in 0..Len(blocks)
        /\ k # 0 => ~blocks[k].allocated /\ blocks[k].size >= size
    BY <1>1, <1>2, MemChkProperties
  <1>4. /\ pc = "idle" /\ pc' = pc /\ m' = m /\ m = 0
        /\ Coalesced(blocks)
    BY DEF Alloc, Invariant, TypeOK, FreeNeighbours
  <1>5. CASE k = 0
    <2>1. blocks' = blocks /\ answer' = NoOffset
      BY <1>5 DEF Alloc
    <2>2. QED
      BY <1>2, <1>4, <2>1
      DEF Invariant, TypeOK, FreeNeighbours, WellFormed, Tiles, Ordered, Covers,
          Coalesced
  <1>6. CASE k # 0
    <2>1. blocks' = MemAlloc(blocks, k, size) /\ answer' = blocks[k].offset
      BY <1>6 DEF Alloc
    <2> HIDE DEF k
    <2>2. k \in 1..Len(blocks) /\ ~blocks[k].allocated /\ size <= blocks[k].size
      <3>1. k \in 1..Len(blocks) /\ ~blocks[k].allocated /\ blocks[k].size >= size
        BY <1>2, <1>3, <1>6
      <3>2. QED
        BY <3>1
    <2>3. Allocated(blocks, blocks', k, size)
      BY <1>1, <1>2, <2>1, <2>2, AllocShape
    <2>4. WellFormed(blocks') /\ Coalesced(blocks')
      BY <1>1, <1>2, <1>4, <2>2, <2>3, AllocCoalesced DEF Allocated
    <2>5. blocks[k].offset \in 0..MemSize-1
      BY <1>2, <2>2, OffsetInMemory
    <2>6. TypeOK'
      BY <1>4, <2>1, <2>4, <2>5 DEF TypeOK, WellFormed
    <2>7. FreeNeighbours'
      BY <1>4, <2>4 DEF FreeNeighbours
    <2>8. QED
      BY <2>4, <2>6, <2>7 DEF Invariant
  <1>7. QED
    BY <1>5, <1>6

\* memFree's first step keeps the invariant: the only free neighbours it can
\* leave are those of the block it has just marked.
LEMMA FreeMarkInvariant ==
  ASSUME Invariant, NEW k \in DOMAIN blocks, FreeMark(k)
  PROVE  Invariant'
  <1>1. /\ WellFormed(blocks) /\ Len(blocks) \in Nat \ {0} /\ k \in 1..Len(blocks)
        /\ \A i \in 1..Len(blocks) : blocks[i].allocated \in BOOLEAN
    BY InvariantFacts
  <1>2. /\ pc = "idle" /\ pc' = "prev" /\ m' = k /\ answer' = answer
        /\ blocks' = [blocks EXCEPT ![k].allocated = FALSE]
        /\ Coalesced(blocks) /\ answer \in 0..MemSize-1 \cup {NoOffset}
    BY DEF FreeMark, Invariant, TypeOK, FreeNeighbours
  <1>3. /\ WellFormed(blocks') /\ Len(blocks') = Len(blocks)
        /\ ~blocks'[k].allocated
        /\ \A j \in 1..Len(blocks) : j # k => blocks'[j] = blocks[j]
    <2> DEFINE freed == [offset    |-> blocks[k].offset,
                         size      |-> blocks[k].size,
                         allocated |-> FALSE]
    <2>1. ~freed.allocated
      OBVIOUS
    <2>2. /\ WellFormed(blocks') /\ Len(blocks') = Len(blocks)
          /\ blocks'[k] = freed
          /\ \A j \in 1..Len(blocks) : j # k => blocks'[j] = blocks[j]
      BY <1>1, <1>2, FlagWellFormed DEF Flagged
    <2> HIDE DEF freed
    <2>3. QED
      BY <2>1, <2>2
  <1>4. FreeNeighbours'
    <2>1. ASSUME NEW j \in 1..Len(blocks)-1, j # k, j + 1 # k
          PROVE  blocks'[j].allocated \/ blocks'[j+1].allocated
      <3>1. j \in 1..Len(blocks) /\ j + 1 \in 1..Len(blocks)
        BY <1>1
      <3>2. blocks[j].allocated \/ blocks[j+1].allocated
        BY <1>2 DEF Coalesced
      <3>3. QED
        BY <1>3, <2>1, <3>1, <3>2
    <2>2. QED
      BY <1>2, <1>3, <2>1 DEF FreeNeighbours
  <1>5. TypeOK'
    BY <1>1, <1>2, <1>3 DEF TypeOK, WellFormed
  <1>6. QED
    BY <1>3, <1>4, <1>5 DEF Invariant

\* The merge with the block before keeps the invariant; what is left to coalesce
\* is the block after.
LEMMA FreeMergePrevInvariant ==
  ASSUME Invariant, FreeMergePrev
  PROVE  Invariant'
  <1>1. /\ WellFormed(blocks) /\ Len(blocks) \in Nat \ {0}
        /\ \A i \in 1..Len(blocks) : blocks[i].allocated \in BOOLEAN
    BY InvariantFacts
  <1>2. /\ pc = "prev" /\ pc' = "next" /\ m \in 1..Len(blocks)
        /\ answer' = answer /\ answer \in 0..MemSize-1 \cup {NoOffset}
        /\ ~blocks[m].allocated /\ FreeAround(blocks, m)
    BY DEF FreeMergePrev, Invariant, TypeOK, FreeNeighbours, FreeAround
  <1>3. /\ blocks' = IF PrevIsFree(blocks, m) THEN MemMerge(blocks, m - 1) ELSE blocks
        /\ m' = IF PrevIsFree(blocks, m) THEN m - 1 ELSE m
    BY DEF FreeMergePrev
  <1>4. /\ WellFormed(blocks') /\ m' \in 1..Len(blocks') /\ ~blocks'[m'].allocated
        /\ FreeAfter(blocks', m')
    BY <1>1, <1>2, <1>3, JoinPrev
  <1>5. FreeNeighbours'
    BY <1>2, <1>4 DEF FreeNeighbours, FreeAfter
  <1>6. TypeOK'
    BY <1>2, <1>4 DEF TypeOK, WellFormed
  <1>7. QED
    BY <1>4, <1>5, <1>6 DEF Invariant

\* One iteration of memFree's loop keeps the invariant.
LEMMA FreeMergeNextInvariant ==
  ASSUME Invariant, FreeMergeNext
  PROVE  Invariant'
  <1>1. /\ WellFormed(blocks) /\ Len(blocks) \in Nat \ {0}
        /\ \A i \in 1..Len(blocks) : blocks[i].allocated \in BOOLEAN
    BY InvariantFacts
  <1>2. /\ pc = "next" /\ pc' = "next" /\ m' = m /\ m \in 1..Len(blocks)
        /\ answer' = answer /\ answer \in 0..MemSize-1 \cup {NoOffset}
        /\ ~blocks[m].allocated /\ FreeAfter(blocks, m) /\ NextIsFree(blocks, m)
        /\ blocks' = MemMerge(blocks, m)
    BY DEF FreeMergeNext, Invariant, TypeOK, FreeNeighbours, FreeAfter
  <1>3. /\ WellFormed(blocks') /\ m' \in 1..Len(blocks') /\ ~blocks'[m'].allocated
        /\ Coalesced(blocks')
    BY <1>1, <1>2, JoinNext
  <1>4. FreeNeighbours'
    BY <1>2, <1>3 DEF FreeNeighbours, Coalesced
  <1>5. TypeOK'
    BY <1>2, <1>3 DEF TypeOK, WellFormed
  <1>6. QED
    BY <1>3, <1>4, <1>5 DEF Invariant

\* When memFree returns, the exception the invariant makes for its cursor is
\* no longer needed.
LEMMA FreeReturnInvariant ==
  ASSUME Invariant, FreeReturn
  PROVE  Invariant'
  <1>1. WellFormed(blocks) /\ Len(blocks) \in Nat \ {0}
    BY InvariantFacts
  <1>2. /\ pc = "next" /\ pc' = "idle" /\ m' = 0 /\ m \in 1..Len(blocks)
        /\ blocks' = blocks /\ answer' = answer
        /\ answer \in 0..MemSize-1 \cup {NoOffset}
        /\ \A k \in 1..Len(blocks)-1 :
             k # m => blocks[k].allocated \/ blocks[k+1].allocated
        /\ m < Len(blocks) => blocks[m+1].allocated
    BY DEF FreeReturn, NextIsFree, Invariant, TypeOK, FreeNeighbours
  <1>3. Coalesced(blocks)
    BY <1>1, <1>2 DEF Coalesced
  <1>4. WellFormed(blocks')
    BY <1>1, <1>2
  <1>5. FreeNeighbours'
    BY <1>2, <1>3 DEF FreeNeighbours, Coalesced
  <1>6. TypeOK'
    BY <1>2, <1>4 DEF TypeOK, WellFormed
  <1>7. QED
    BY <1>4, <1>5, <1>6 DEF Invariant

\* Every step keeps the invariant.
LEMMA NextInvariant == Invariant /\ [Next]_vars => Invariant'
  <1>1. SUFFICES ASSUME Invariant, [Next]_vars PROVE Invariant'
    OBVIOUS
  <1>2. ASSUME NEW size \in Sizes, Alloc(size) PROVE Invariant'
    BY <1>1, <1>2, AllocInvariant
  <1>3. ASSUME NEW k \in DOMAIN blocks, FreeMark(k) PROVE Invariant'
    BY <1>1, <1>3, FreeMarkInvariant
  <1>4. CASE FreeMergePrev
    BY <1>1, <1>4, FreeMergePrevInvariant
  <1>5. CASE FreeMergeNext
    BY <1>1, <1>5, FreeMergeNextInvariant
  <1>6. CASE FreeReturn
    BY <1>1, <1>6, FreeReturnInvariant
  <1>7. CASE UNCHANGED vars
    <2>1. blocks' = blocks /\ pc' = pc /\ m' = m /\ answer' = answer
      BY <1>7 DEF vars
    <2>2. WellFormed(blocks)' /\ Coalesced(blocks)' = Coalesced(blocks)
      BY <1>1, <2>1 DEF Invariant
    <2>3. QED
      BY <1>1, <2>1, <2>2 DEF Invariant, TypeOK, FreeNeighbours
  <1>8. QED
    BY <1>1, <1>2, <1>3, <1>4, <1>5, <1>6, <1>7 DEF Next

\* Every reachable list is well formed and, outside of memFree, coalesced.
THEOREM InvariantHolds == Spec => []Invariant
  <1>1. QED
    BY InitInvariant, NextInvariant, PTL DEF Spec

-----------------------------------------------------------------------------
(* The properties of MemoryArena                                           *)

\* Type correctness of the block list and of memFree's cursor.
THEOREM TypeCorrect == Spec => []TypeOK
  <1>1. Invariant => TypeOK
    BY DEF Invariant
  <1>2. QED
    BY <1>1, InvariantHolds, PTL

\* No split or merge ever loses a unit of memory or hands one out twice.
THEOREM MemoryIsTiled == Spec => []BlocksTileMemory
  <1>1. Invariant => BlocksTileMemory
    BY DEF Invariant, WellFormed, BlocksTileMemory
  <1>2. QED
    BY <1>1, InvariantHolds, PTL

\* Between calls no two neighbouring blocks are both free.
THEOREM ArenaIsCoalesced == Spec => []FreeBlocksCoalesced
  <1>1. Invariant => FreeBlocksCoalesced
    BY DEF Invariant, FreeNeighbours, FreeBlocksCoalesced
  <1>2. QED
    BY <1>1, InvariantHolds, PTL

\* Probing with memAlloc and giving the block back at once restores the list,
\* whatever state the list is in: Stage 3 tells by such a probe whether a swap
\* is needed.
THEOREM ProbeIsHarmless == Spec => []ProbeLeavesNoTrace
  <1>1. Invariant => ProbeLeavesNoTrace
    <2>1. SUFFICES ASSUME Invariant, pc = "idle", NEW size \in Sizes,
                          MemChk(blocks, size) # 0
                   PROVE  LET k == MemChk(blocks, size)
                          IN  MemFree(MemAlloc(blocks, k, size), k) = blocks
      BY DEF ProbeLeavesNoTrace
    <2> DEFINE k == MemChk(blocks, size)
    <2>2. size \in Nat \ {0}
      BY SizesAssumption
    <2>3. blocks \in Seq(Block) /\ WellFormed(blocks) /\ Len(blocks) \in Nat
      BY <2>1, InvariantFacts
    <2>4. Coalesced(blocks)
      BY <2>1 DEF Invariant, FreeNeighbours
    <2>5. k \in 1..Len(blocks) /\ ~blocks[k].allocated /\ size <= blocks[k].size
      <3>1. /\ k \in 0..Len(blocks)
            /\ k # 0 => ~blocks[k].allocated /\ blocks[k].size >= size
        BY <2>2, <2>3, MemChkProperties
      <3> HIDE DEF k
      <3>2. k # 0
        BY <2>1 DEF k
      <3>3. QED
        BY <2>3, <3>1, <3>2
    <2>6. QED
      BY <2>2, <2>3, <2>4, <2>5, ProbeRestores
  <1>2. QED
    BY <1>1, InvariantHolds, PTL

\* The steps of memFree, its loop over the following blocks included, compute
\* the loop-free MemFree: the loop never iterates twice.
THEOREM MemFreeIsComputed == Spec => StepsComputeMemFree
  <1>1. Invariant /\ [Next]_vars =>
          [/\ pc # "idle" => Outcome' = Outcome
           /\ \A k \in DOMAIN blocks :
                FreeMark(k) => Outcome' = MemFree(blocks, k)]_vars
    <2>1. SUFFICES ASSUME Invariant, Next
                   PROVE  /\ pc # "idle" => Outcome' = Outcome
                          /\ \A k \in DOMAIN blocks :
                               FreeMark(k) => Outcome' = MemFree(blocks, k)
      OBVIOUS
    <2>2. /\ blocks \in Seq(Block) /\ Len(blocks) \in Nat \ {0}
          /\ WellFormed(blocks) /\ DOMAIN blocks = 1..Len(blocks)
          /\ \A i \in 1..Len(blocks) : blocks[i].allocated \in BOOLEAN
      BY <2>1, InvariantFacts
    <2>3. ASSUME NEW k \in DOMAIN blocks, FreeMark(k)
          PROVE  Outcome' = MemFree(blocks, k)
      <3> DEFINE freed == [blocks EXCEPT ![k].allocated = FALSE]
      <3>1. pc' = "prev" /\ m' = k /\ blocks' = freed /\ k \in 1..Len(blocks)
        BY <2>2, <2>3 DEF FreeMark
      <3>2. Flagged(blocks, freed, k, FALSE)
        BY <2>2, <3>1, FlagWellFormed
      <3> DEFINE rec == [offset    |-> blocks[k].offset,
                         size      |-> blocks[k].size,
                         allocated |-> FALSE]
      <3>3. ~rec.allocated
        OBVIOUS
      <3> HIDE DEF freed, rec
      <3>4. /\ freed \in Seq(Block) /\ Len(freed) = Len(blocks)
            /\ ~freed[k].allocated
            /\ \A j \in 1..Len(blocks) : j # k => freed[j] = blocks[j]
        BY <3>2, <3>3 DEF Flagged, WellFormed, rec
      <3>5. [freed EXCEPT ![k].allocated = FALSE] = freed
        BY <3>1, <3>4, ClearFree
      <3>6. PrevIsFree(freed, k) <=> PrevIsFree(blocks, k)
        <4>1. CASE k > 1
          <5>1. k - 1 \in 1..Len(blocks) /\ k - 1 # k
            BY <2>2, <3>1, <4>1
          <5>2. QED
            BY <3>4, <5>1 DEF PrevIsFree
        <4>2. CASE ~(k > 1)
          BY <4>2 DEF PrevIsFree
        <4>3. QED
          BY <4>1, <4>2
      <3>7. MemFree(freed, k) = MemFree(blocks, k)
        BY <3>5, <3>6 DEF MemFree, freed
      <3>8. Outcome' = MemFree(freed, k)
        BY <3>1 DEF Outcome
      <3>9. QED
        BY <3>7, <3>8
    <2>4. ASSUME pc # "idle"
          PROVE  Outcome' = Outcome
      <3>1. CASE FreeMergePrev
        <4>1. /\ pc = "prev" /\ pc' = "next" /\ m \in 1..Len(blocks)
              /\ ~blocks[m].allocated
          BY <2>1, <3>1 DEF FreeMergePrev, Invariant, TypeOK, FreeNeighbours
        <4>2. [blocks EXCEPT ![m].allocated = FALSE] = blocks
          BY <2>2, <4>1, ClearFree
        <4>3. Outcome = MemFree(blocks, m)
          BY <4>1 DEF Outcome
        <4>4. Outcome' = IF NextIsFree(blocks', m')
                           THEN MemMerge(blocks', m') ELSE blocks'
          BY <4>1 DEF Outcome
        <4>5. CASE PrevIsFree(blocks, m)
          <5>1. blocks' = MemMerge(blocks, m - 1) /\ m' = m - 1
            BY <3>1, <4>5 DEF FreeMergePrev
          <5>2. QED
            BY <4>2, <4>3, <4>4, <4>5, <5>1 DEF MemFree
        <4>6. CASE ~PrevIsFree(blocks, m)
          <5>1. blocks' = blocks /\ m' = m
            BY <3>1, <4>6 DEF FreeMergePrev
          <5>2. QED
            BY <4>2, <4>3, <4>4, <4>6, <5>1 DEF MemFree
        <4>7. QED
          BY <4>5, <4>6
      <3>2. CASE FreeMergeNext
        <4>1. /\ pc = "next" /\ pc' = "next" /\ m' = m /\ m \in 1..Len(blocks)
              /\ NextIsFree(blocks, m) /\ blocks' = MemMerge(blocks, m)
              /\ \A k \in 1..Len(blocks)-1 :
                   k # m => blocks[k].allocated \/ blocks[k+1].allocated
          BY <2>1, <3>2 DEF FreeMergeNext, Invariant, TypeOK, FreeNeighbours
        <4>2. Outcome = blocks'
          BY <4>1 DEF Outcome
        <4>3. m < Len(blocks) /\ ~blocks[m+1].allocated
          BY <4>1 DEF NextIsFree
        <4>4. /\ Len(blocks') = Len(blocks) - 1
              /\ \A j \in 1..Len(blocks)-1 : j > m => blocks'[j] = blocks[j+1]
          BY <2>2, <4>1, <4>3, MergeFlags
        <4>5. ~NextIsFree(blocks', m)
          <5>1. SUFFICES ASSUME m < Len(blocks') PROVE blocks'[m+1].allocated
            BY DEF NextIsFree
          <5>2. m + 1 \in 1..Len(blocks)-1 /\ m + 1 > m /\ m + 1 # m
            BY <2>2, <4>1, <4>4, <5>1
          <5>3. blocks'[m+1] = blocks[(m+1)+1]
            BY <4>4, <5>2
          <5>4. blocks[m+1].allocated \/ blocks[(m+1)+1].allocated
            BY <4>1, <5>2
          <5>5. QED
            BY <4>3, <5>3, <5>4
        <4>6. QED
          BY <4>1, <4>2, <4>5 DEF Outcome
      <3>3. CASE FreeReturn
        BY <3>3 DEF FreeReturn, Outcome
      <3>4. QED
        BY <2>1, <2>4, <3>1, <3>2, <3>3 DEF Next, Alloc, FreeMark
    <2>5. QED
      BY <2>3, <2>4
  <1>2. QED
    BY <1>1, InvariantHolds, PTL DEF Spec, StepsComputeMemFree

-----------------------------------------------------------------------------
(* MemoryArena implements IntervalMemory                                   *)

\* A granted request gets a hole.
LEMMA GrantFits ==
  ASSUME NEW b, WellFormed(b), NEW k \in 1..Len(b), ~b[k].allocated,
         NEW n \in Nat \ {0}, n <= b[k].size
  PROVE  /\ b[k].offset \in 0..(MemSize - n)
         /\ \A r \in UsedIntervals(b) :
              Promise!Disjoint(r, b[k].offset, n)
  <1>1. /\ Len(b) \in Nat /\ Ordered(b)
        /\ \A i \in 1..Len(b) : b[i].offset \in Nat /\ b[i].size \in Nat \ {0}
    BY BlockTypes DEF WellFormed
  <1>2. b[k].offset + b[k].size <= MemSize
    BY OffsetInMemory
  <1>3. b[k].offset \in 0..(MemSize - n)
    BY <1>1, <1>2, MemSizeAssumption
  <1>4. ASSUME NEW r \in UsedIntervals(b)
        PROVE  Promise!Disjoint(r, b[k].offset, n)
    <2>1. PICK i \in 1..Len(b) : b[i].allocated /\ r = Interval(b, i)
      BY UsedIntervalsMembers
    <2>2. r.offset = b[i].offset /\ r.size = b[i].size /\ i # k
      BY <2>1 DEF Interval
    <2>3. CASE i < k
      <3>1. b[i].offset + b[i].size <= b[k].offset
        BY <1>1, <2>3 DEF Ordered
      <3>2. QED
        BY <2>2, <3>1 DEF Promise!Disjoint
    <2>4. CASE i > k
      <3>1. b[k].offset + b[k].size <= b[i].offset
        BY <1>1, <2>4 DEF Ordered
      <3>2. b[k].offset + n <= b[i].offset
        BY <1>1, <3>1
      <3>3. QED
        BY <2>2, <3>2 DEF Promise!Disjoint
    <2>5. QED
      BY <2>2, <2>3, <2>4
  <1>5. QED
    BY <1>3, <1>4

\* When no free block is large enough no hole is, either: a hole that starts
\* in a free block reaches into the used block after it.
LEMMA RefusalIsJustified ==
  ASSUME NEW b, WellFormed(b), Coalesced(b), NEW n \in Nat \ {0},
         \A k \in 1..Len(b) : b[k].allocated \/ b[k].size < n,
         NEW o \in 0..(MemSize - n)
  PROVE  \E r \in UsedIntervals(b) : ~Promise!Disjoint(r, o, n)
  <1>1. /\ Len(b) \in Nat \ {0} /\ Tiles(b) /\ Covers(b)
        /\ \A i \in 1..Len(b) : b[i].offset \in Nat /\ b[i].size \in Nat \ {0}
    BY BlockTypes DEF WellFormed
  <1>2. o \in 0..MemSize-1
    BY MemSizeAssumption
  <1>3. PICK i \in 1..Len(b) : b[i].offset <= o /\ o < b[i].offset + b[i].size
    BY <1>1, <1>2 DEF Covers
  <1>4. ASSUME NEW j \in 1..Len(b), b[j].allocated,
               b[j].offset < o + n, o < b[j].offset + b[j].size
        PROVE  \E r \in UsedIntervals(b) : ~Promise!Disjoint(r, o, n)
    <2>1. Interval(b, j) \in UsedIntervals(b)
      BY <1>4, UsedIntervalsMembers
    <2>2. Interval(b, j).offset = b[j].offset /\ Interval(b, j).size = b[j].size
      BY DEF Interval
    <2>3. b[j].offset \in Nat /\ b[j].size \in Nat
      BY <1>1
    <2>4. ~(b[j].offset + b[j].size <= o) /\ ~(o + n <= b[j].offset)
      BY <1>4, <2>3
    <2>5. ~Promise!Disjoint(Interval(b, j), o, n)
      BY <2>2, <2>4 DEF Promise!Disjoint
    <2>6. QED
      BY <2>1, <2>5
  <1>5. CASE b[i].allocated
    <2>1. b[i].offset < o + n
      BY <1>1, <1>3
    <2>2. QED
      BY <1>3, <1>4, <1>5, <2>1
  <1>6. CASE ~b[i].allocated
    <2>1. b[i].size < n
      BY <1>6
    <2>2. b[i].offset + b[i].size < o + n /\ o + n <= MemSize
      BY <1>1, <1>3, <2>1, MemSizeAssumption
    <2>3. i # Len(b)
      BY <1>1, <2>2, MemSizeAssumption DEF Tiles
    <2>4. i \in 1..Len(b)-1 /\ i + 1 \in 1..Len(b)
      BY <1>1, <2>3
    <2>5. b[i+1].offset = b[i].offset + b[i].size
      BY <1>1, <2>4 DEF Tiles
    <2>6. b[i+1].allocated
      BY <1>6, <2>4 DEF Coalesced
    <2>7. b[i+1].offset < o + n /\ o < b[i+1].offset + b[i+1].size
      <3>1. b[i+1].offset \in Nat /\ b[i+1].size \in Nat \ {0}
        BY <1>1, <2>4
      <3>2. o < b[i+1].offset /\ b[i+1].offset < o + n
        BY <1>3, <2>2, <2>5
      <3>3. QED
        BY <3>1, <3>2
    <2>8. QED
      BY <1>4, <2>4, <2>6, <2>7
  <1>7. QED
    BY <1>5, <1>6

\* Every step of the arena is a step the promise allows, or invisible to it.
LEMMA StepRefines ==
  Invariant /\ [Next]_vars => [Promise!Next]_(Promise!vars)
  <1>1. SUFFICES ASSUME Invariant, [Next]_vars
                 PROVE  \/ Promise!Next
                        \/ /\ UsedIntervals(blocks)' = UsedIntervals(blocks)
                           /\ answer' = answer
    BY DEF Promise!vars
  <1>2. /\ blocks \in Seq(Block) /\ WellFormed(blocks)
        /\ Len(blocks) \in Nat \ {0} /\ DOMAIN blocks = 1..Len(blocks)
    BY <1>1, InvariantFacts
  <1>3. ASSUME NEW size \in Sizes, Alloc(size)
        PROVE  Promise!Next
    <2> DEFINE k == MemChk(blocks, size)
    <2>1. size \in Nat \ {0}
      BY SizesAssumption
    <2>2. /\ k \in 0..Len(blocks)
          /\ k = 0 => \A i \in 1..Len(blocks) : blocks[i].allocated \/ blocks[i].size < size
          /\ k # 0 => ~blocks[k].allocated /\ blocks[k].size >= size
      BY <1>2, <2>1, MemChkProperties
    <2>3. pc = "idle" /\ Coalesced(blocks)
      BY <1>1, <1>3 DEF Alloc, Invariant, FreeNeighbours
    <2>4. CASE k = 0
      <3>1. blocks' = blocks /\ answer' = NoOffset
        BY <1>3, <2>4 DEF Alloc
      <3>2. \A o \in 0..(MemSize - size) :
              \E r \in UsedIntervals(blocks) : ~Promise!Disjoint(r, o, size)
        BY <1>2, <2>1, <2>2, <2>3, <2>4, RefusalIsJustified
      <3>3. Promise!Refuse(size)
        BY <3>1, <3>2 DEF Promise!Refuse, Promise!IsHole
      <3>4. QED
        BY <3>3 DEF Promise!Next
    <2>5. CASE k # 0
      <3>1. blocks' = MemAlloc(blocks, k, size) /\ answer' = blocks[k].offset
        BY <1>3, <2>5 DEF Alloc
      <3> HIDE DEF k
      <3>2. k \in 1..Len(blocks) /\ ~blocks[k].allocated /\ size <= blocks[k].size
        <4>1. k \in 1..Len(blocks) /\ ~blocks[k].allocated /\ blocks[k].size >= size
          BY <1>2, <2>2, <2>5
        <4>2. QED
          BY <4>1
      <3>3. Allocated(blocks, blocks', k, size)
        BY <1>2, <2>1, <3>1, <3>2, AllocShape
      <3>4. UsedIntervals(blocks') =
              UsedIntervals(blocks) \cup {[offset |-> blocks[k].offset, size |-> size]}
        BY <1>2, <2>1, <3>2, <3>3, AllocUsed
      <3>5. /\ blocks[k].offset \in 0..(MemSize - size)
            /\ \A r \in UsedIntervals(blocks) :
                 Promise!Disjoint(r, blocks[k].offset, size)
        BY <1>2, <2>1, <3>2, GrantFits
      <3>6. Promise!Grant(size)
        BY <3>1, <3>4, <3>5 DEF Promise!Grant, Promise!IsHole
      <3>7. QED
        BY <3>6 DEF Promise!Next
    <2>6. QED
      BY <2>4, <2>5
  <1>4. ASSUME NEW k \in DOMAIN blocks, FreeMark(k)
        PROVE  Promise!Next
    <2>1. /\ k \in 1..Len(blocks) /\ blocks[k].allocated /\ answer' = answer
          /\ blocks' = [blocks EXCEPT ![k].allocated = FALSE]
      BY <1>2, <1>4 DEF FreeMark
    <2>2. Flagged(blocks, blocks', k, FALSE)
      BY <1>2, <2>1, FlagWellFormed
    <2>3. /\ Interval(blocks, k) \in UsedIntervals(blocks)
          /\ UsedIntervals(blocks') = UsedIntervals(blocks) \ {Interval(blocks, k)}
      BY <1>2, <2>1, <2>2, MarkUsed
    <2>4. Promise!Release
      BY <2>1, <2>3 DEF Promise!Release
    <2>5. QED
      BY <2>4 DEF Promise!Next
  <1>5. ASSUME FreeMergePrev
        PROVE  UsedIntervals(blocks)' = UsedIntervals(blocks) /\ answer' = answer
    <2>1. m \in 1..Len(blocks) /\ ~blocks[m].allocated /\ answer' = answer
      BY <1>1, <1>5 DEF FreeMergePrev, Invariant, TypeOK, FreeNeighbours
    <2>2. CASE PrevIsFree(blocks, m)
      <3> DEFINE k == m - 1
      <3>1. /\ blocks' = MemMerge(blocks, k)
            /\ k \in 1..Len(blocks) /\ k < Len(blocks) /\ k + 1 = m
            /\ ~blocks[k].allocated
        BY <1>2, <1>5, <2>1, <2>2 DEF FreeMergePrev, PrevIsFree
      <3> HIDE DEF k
      <3>2. ~blocks[k+1].allocated
        BY <2>1, <3>1
      <3>3. QED
        BY <1>2, <2>1, <3>1, <3>2, MergeUsed
    <2>3. CASE ~PrevIsFree(blocks, m)
      BY <1>5, <2>1, <2>3 DEF FreeMergePrev
    <2>4. QED
      BY <2>2, <2>3
  <1>6. ASSUME FreeMergeNext
        PROVE  UsedIntervals(blocks)' = UsedIntervals(blocks) /\ answer' = answer
    <2>1. /\ m \in 1..Len(blocks) /\ ~blocks[m].allocated /\ answer' = answer
          /\ m < Len(blocks) /\ ~blocks[m+1].allocated
          /\ blocks' = MemMerge(blocks, m)
      BY <1>1, <1>6
      DEF FreeMergeNext, NextIsFree, Invariant, TypeOK, FreeNeighbours
    <2>2. QED
      BY <1>2, <2>1, MergeUsed
  <1>7. ASSUME FreeReturn \/ UNCHANGED vars
        PROVE  UsedIntervals(blocks)' = UsedIntervals(blocks) /\ answer' = answer
    BY <1>7 DEF FreeReturn, vars
  <1>8. QED
    BY <1>1, <1>3, <1>4, <1>5, <1>6, <1>7 DEF Next

\* The arena implements IntervalMemory: what is handed out never overlaps, and a
\* request is refused only when no hole of its size exists.
THEOREM ArenaImplementsIntervalMemory == Spec => ImplementsIntervalMemory
  <1>1. Init => Promise!Init
    <2>1. SUFFICES ASSUME Init PROVE Promise!Init
      OBVIOUS
    <2>2. UsedIntervals(blocks) = {}
      <3> DEFINE e == [offset |-> 0, size |-> MemSize, allocated |-> FALSE]
      <3>1. ~e.allocated
        OBVIOUS
      <3>2. blocks = << e >>
        BY <2>1 DEF Init, WholeMemory
      <3> HIDE DEF e
      <3>3. Len(blocks) = 1 /\ blocks[1] = e
        BY <3>2
      <3>4. \A i \in 1..Len(blocks) : ~blocks[i].allocated
        BY <3>1, <3>3
      <3>5. QED
        BY <3>4, UsedIntervalsMembers
    <2>3. QED
      BY <2>1, <2>2 DEF Init, Promise!Init
  <1>2. QED
    BY <1>1, StepRefines, InvariantHolds, PTL
    DEF Spec, ImplementsIntervalMemory, Promise!Spec

=============================================================================
