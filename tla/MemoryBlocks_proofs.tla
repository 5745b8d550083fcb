------------------------- MODULE MemoryBlocks_proofs -------------------------
(***************************************************************************)
(* Lemmas about the block list operations of MemoryBlocks, cited by the    *)
(* proofs about the arena and about the dispatchers that allocate from it, *)
(* and about sequences without repetitions, which their queues are.        *)
(***************************************************************************)
EXTENDS MemoryBlocks, SequenceTheorems, WellFoundedInduction, TLAPS

-----------------------------------------------------------------------------
(* Inserting into and removing from a sequence; least elements             *)

\* Inserting e at position i shifts the elements from i on by one.
LEMMA InsertAtProperties ==
  ASSUME NEW S, NEW s \in Seq(S), NEW i \in 1..Len(s)+1, NEW e \in S
  PROVE  /\ InsertAt(s, i, e) \in Seq(S)
         /\ Len(InsertAt(s, i, e)) = Len(s) + 1
         /\ \A j \in 1..Len(s)+1 :
              InsertAt(s, i, e)[j] = IF j < i THEN s[j]
                                     ELSE IF j = i THEN e ELSE s[j-1]
  <1> DEFINE A == SubSeq(s, 1, i-1)
             B == SubSeq(s, i, Len(s))
             C == A \o << e >>
  <1>1. Len(s) \in Nat /\ \A j \in 1..Len(s) : s[j] \in S
    BY LenProperties
  <1>2. /\ A \in Seq(S) /\ Len(A) = i - 1
        /\ \A j \in 1..i-1 : A[j] = s[j]
    BY <1>1, SubSeqProperties
  <1>3. /\ B \in Seq(S) /\ Len(B) = Len(s) - i + 1
        /\ \A j \in 1..(Len(s)-i+1) : B[j] = s[i+j-1]
    BY <1>1, SubSeqProperties
  <1>4. << e >> \in Seq(S) /\ Len(<< e >>) = 1 /\ << e >>[1] = e
    OBVIOUS
  <1> HIDE DEF A, B
  <1>5. /\ C \in Seq(S) /\ Len(C) = i
        /\ \A j \in 1..i : C[j] = IF j < i THEN s[j] ELSE e
    BY <1>1, <1>2, <1>4, ConcatProperties
  <1> HIDE DEF C
  <1>6. /\ C \o B \in Seq(S)
        /\ Len(C \o B) = Len(C) + Len(B)
        /\ \A j \in 1..Len(C) + Len(B) :
             (C \o B)[j] = IF j <= Len(C) THEN C[j] ELSE B[j - Len(C)]
    BY <1>3, <1>5, ConcatProperties
  <1> DEFINE D == C \o B
  <1>7. InsertAt(s, i, e) = D
    BY DEF InsertAt, A, B, C
  <1>8. \A j \in 1..Len(s)+1 : j > i => B[j-i] = s[j-1]
    BY <1>1, <1>3
  <1> HIDE DEF D
  <1>9. /\ D \in Seq(S) /\ Len(D) = Len(s) + 1
        /\ \A j \in 1..Len(s)+1 : D[j] = IF j <= i THEN C[j] ELSE B[j-i]
    BY <1>1, <1>3, <1>5, <1>6 DEF D
  <1>10. \A j \in 1..Len(s)+1 :
           D[j] = IF j < i THEN s[j] ELSE IF j = i THEN e ELSE s[j-1]
    <2>1. \A j \in 1..Len(s)+1 : j <= i => D[j] = IF j < i THEN s[j] ELSE e
      <3>1. \A j \in 1..Len(s)+1 : j <= i => D[j] = C[j] /\ j \in 1..i
        BY <1>9
      <3>2. QED
        BY <1>5, <3>1
    <2>2. ASSUME NEW j \in 1..Len(s)+1, j > i
          PROVE  D[j] = s[j-1]
      <3>1. B[j-i] = s[j-1]
        BY <1>8, <2>2
      <3>2. D[j] = B[j-i]
        BY <1>1, <1>9, <2>2
      <3>3. QED
        BY <3>1, <3>2
    <2>3. QED
      BY <2>1, <2>2
  <1>11. QED
    BY <1>7, <1>9, <1>10

\* Removing position i shifts the elements after it back by one.
LEMMA RemoveAtProperties ==
  ASSUME NEW S, NEW s \in Seq(S), NEW i \in 1..Len(s)
  PROVE  /\ RemoveAt(s, i) \in Seq(S)
         /\ Len(RemoveAt(s, i)) = Len(s) - 1
         /\ \A j \in 1..Len(s)-1 :
              RemoveAt(s, i)[j] = IF j < i THEN s[j] ELSE s[j+1]
  <1> DEFINE A == SubSeq(s, 1, i-1)
             B == SubSeq(s, i+1, Len(s))
  <1>1. Len(s) \in Nat /\ \A j \in 1..Len(s) : s[j] \in S
    BY LenProperties
  <1>2. /\ A \in Seq(S) /\ Len(A) = i - 1
        /\ \A j \in 1..i-1 : A[j] = s[j]
    BY <1>1, SubSeqProperties
  <1>3. /\ B \in Seq(S) /\ Len(B) = Len(s) - i
        /\ \A j \in 1..(Len(s)-i) : B[j] = s[i+j]
    BY <1>1, SubSeqProperties
  <1> HIDE DEF A, B
  <1>4. /\ A \o B \in Seq(S)
        /\ Len(A \o B) = Len(A) + Len(B)
        /\ \A j \in 1..Len(A) + Len(B) :
             (A \o B)[j] = IF j <= Len(A) THEN A[j] ELSE B[j - Len(A)]
    BY <1>2, <1>3, ConcatProperties
  <1> DEFINE D == A \o B
  <1>5. RemoveAt(s, i) = D
    BY DEF RemoveAt, A, B
  <1>6. \A j \in 1..Len(s)-1 : j >= i => B[j-(i-1)] = s[j+1]
    BY <1>1, <1>3
  <1> HIDE DEF D
  <1>7. /\ D \in Seq(S) /\ Len(D) = Len(s) - 1
        /\ \A j \in 1..Len(s)-1 :
             D[j] = IF j <= i-1 THEN A[j] ELSE B[j-(i-1)]
    BY <1>1, <1>2, <1>3, <1>4 DEF D
  <1>8. \A j \in 1..Len(s)-1 : D[j] = IF j < i THEN s[j] ELSE s[j+1]
    BY <1>1, <1>2, <1>6, <1>7
  <1>9. QED
    BY <1>5, <1>7, <1>8

\* Min picks the least element of a nonempty set of naturals.
LEMMA MinOfNaturals ==
  ASSUME NEW I, I \subseteq Nat, I # {}
  PROVE  Min(I) \in I /\ \A x \in I : Min(I) <= x
  <1> DEFINE R == OpToRel(<, Nat)
  <1>1. IsWellFoundedOn(R, Nat)
    BY NatLessThanWellFounded
  <1>2. R = { ss \in Nat \X Nat : ss[1] < ss[2] }
    BY DEF OpToRel
  <1> HIDE DEF R
  <1>3. PICK m0 \in I : \A y \in I : ~(<< y, m0 >> \in R)
    BY <1>1, WFMin
  <1>4. \A y \in I : m0 <= y
    <2>1. TAKE y \in I
    <2>2. << y, m0 >> \in Nat \X Nat
      OBVIOUS
    <2>3. ~(y < m0)
      BY <1>2, <1>3, <2>2
    <2>4. QED
      BY <2>3
  <1>5. QED
    BY <1>4 DEF Min

-----------------------------------------------------------------------------
(* What each operation makes of the list, position by position             *)

\* A first fit search answers 0 when no free block is large enough, otherwise
\* the position of one that is.
LEMMA MemChkProperties ==
  ASSUME NEW b \in Seq(Block), NEW size \in Nat
  PROVE  /\ MemChk(b, size) \in 0..Len(b)
         /\ MemChk(b, size) = 0 =>
              \A k \in 1..Len(b) : b[k].allocated \/ b[k].size < size
         /\ MemChk(b, size) # 0 =>
              /\ ~b[MemChk(b, size)].allocated
              /\ b[MemChk(b, size)].size >= size
  <1> DEFINE I == { i \in 1..Len(b) : ~b[i].allocated /\ b[i].size >= size }
  <1>1. Len(b) \in Nat /\ \A i \in 1..Len(b) : b[i] \in Block
    BY LenProperties
  <1>2. MemChk(b, size) = IF I # {} THEN Min(I) ELSE 0
    BY DEF MemChk, SelectInSeq
  <1>3. CASE I = {}
    <2>1. \A k \in 1..Len(b) : ~(~b[k].allocated /\ b[k].size >= size)
      BY <1>3
    <2>2. \A k \in 1..Len(b) : b[k].size \in Nat
      BY <1>1 DEF Block
    <2>3. MemChk(b, size) = 0
      BY <1>2, <1>3
    <2>4. QED
      BY <1>1, <2>1, <2>2, <2>3
  <1>4. CASE I # {}
    <2>1. Min(I) \in I
      <3>1. I \subseteq Nat
        BY <1>1
      <3>2. QED
        BY <3>1, <1>4, MinOfNaturals
    <2>2. MemChk(b, size) \in I
      BY <1>2, <1>4, <2>1
    <2>3. QED
      BY <1>1, <2>2
  <1>5. QED
    BY <1>3, <1>4

\* A split that leaves a rest puts one new block after position k.
LEMMA SplitShape ==
  ASSUME NEW b \in Seq(Block), NEW k \in 1..Len(b), NEW n \in Nat \ {0},
         b[k].size > n
  PROVE  /\ MemSplit(b, k, n) \in Seq(Block)
         /\ Len(MemSplit(b, k, n)) = Len(b) + 1
         /\ \A j \in 1..Len(b)+1 :
              MemSplit(b, k, n)[j] =
                IF j < k THEN b[j]
                ELSE IF j = k THEN [offset    |-> b[k].offset,
                                    size      |-> n,
                                    allocated |-> b[k].allocated]
                ELSE IF j = k + 1 THEN [offset    |-> b[k].offset + n,
                                        size      |-> b[k].size - n,
                                        allocated |-> b[k].allocated]
                ELSE b[j-1]
  <1> DEFINE front == [offset    |-> b[k].offset,
                       size      |-> n,
                       allocated |-> b[k].allocated]
             head == [b EXCEPT ![k].size = n]
             rest == [offset    |-> b[k].offset + n,
                      size      |-> b[k].size - n,
                      allocated |-> b[k].allocated]
  <1>1. Len(b) \in Nat /\ \A i \in 1..Len(b) : b[i] \in Block
    BY LenProperties
  <1>2. b[k] \in Block /\ front \in Block /\ rest \in Block
    BY <1>1 DEF Block
  <1>3. /\ head \in Seq(Block) /\ Len(head) = Len(b)
        /\ \A i \in 1..Len(b) : head[i] = IF i = k THEN front ELSE b[i]
    <2>1. head = [b EXCEPT ![k] = front]
      <3>1. front = [b[k] EXCEPT !.size = n]
        <4> HIDE DEF head, rest
        <4>1. b[k] \in [offset : Nat, size : Nat \ {0}, allocated : BOOLEAN]
          BY <1>2 DEF Block
        <4>2. QED
          BY <4>1
      <3> HIDE DEF front
      <3>2. head = [b EXCEPT ![k] = [b[k] EXCEPT !.size = n]]
        OBVIOUS
      <3>3. QED
        BY <3>1, <3>2
    <2> HIDE DEF head, front
    <2>2. QED
      BY <1>2, <2>1, ExceptSeq
  <1>4. MemSplit(b, k, n) = InsertAt(head, k + 1, rest)
    BY DEF MemSplit
  <1> HIDE DEF front, head, rest
  <1> DEFINE c == InsertAt(head, k + 1, rest)
  <1>5. /\ c \in Seq(Block) /\ Len(c) = Len(b) + 1
        /\ \A j \in 1..Len(b)+1 :
             c[j] = IF j < k + 1 THEN head[j]
                    ELSE IF j = k + 1 THEN rest ELSE head[j-1]
    <2> DEFINE p == k + 1
    <2>1. p \in 1..Len(head)+1
      BY <1>1, <1>3
    <2>2. head \in Seq(Block) /\ rest \in Block
      BY <1>2, <1>3
    <2> HIDE DEF p
    <2>3. /\ InsertAt(head, p, rest) \in Seq(Block)
          /\ Len(InsertAt(head, p, rest)) = Len(head) + 1
          /\ \A j \in 1..Len(head)+1 :
               InsertAt(head, p, rest)[j] =
                 IF j < p THEN head[j] ELSE IF j = p THEN rest ELSE head[j-1]
      BY <2>1, <2>2, InsertAtProperties
    <2>4. QED
      BY <1>3, <2>3 DEF p
  <1> HIDE DEF c
  <1>6. ASSUME NEW j \in 1..Len(b)+1
        PROVE  c[j] = IF j < k THEN b[j]
                      ELSE IF j = k THEN front
                      ELSE IF j = k + 1 THEN rest
                      ELSE b[j-1]
    <2>1. CASE j < k + 1
      <3>1. c[j] = head[j] /\ j \in 1..Len(b)
        BY <1>1, <1>5, <2>1
      <3>2. QED
        BY <1>1, <1>3, <2>1, <3>1
    <2>2. CASE j = k + 1
      BY <1>1, <1>5, <2>2
    <2>3. CASE j > k + 1
      <3>1. c[j] = head[j-1] /\ j - 1 \in 1..Len(b) /\ j - 1 # k
        BY <1>1, <1>5, <2>3
      <3>2. QED
        BY <1>1, <1>3, <2>3, <3>1
    <2>4. QED
      BY <1>1, <2>1, <2>2, <2>3
  <1>7. QED
    BY <1>4, <1>5, <1>6 DEF c, front, rest

\* A merge gives the block at k the size of both and drops the one after it.
LEMMA MergeShape ==
  ASSUME NEW b \in Seq(Block), NEW k \in 1..Len(b), k < Len(b)
  PROVE  /\ MemMerge(b, k) \in Seq(Block)
         /\ Len(MemMerge(b, k)) = Len(b) - 1
         /\ \A j \in 1..Len(b)-1 :
              MemMerge(b, k)[j] =
                IF j < k THEN b[j]
                ELSE IF j = k THEN [offset    |-> b[k].offset,
                                    size      |-> b[k].size + b[k+1].size,
                                    allocated |-> b[k].allocated]
                ELSE b[j+1]
  <1> DEFINE both == [offset    |-> b[k].offset,
                      size      |-> b[k].size + b[k+1].size,
                      allocated |-> b[k].allocated]
             wide == [b EXCEPT ![k].size = @ + b[k+1].size]
  <1>1. Len(b) \in Nat /\ \A i \in 1..Len(b) : b[i] \in Block
    BY LenProperties
  <1>2. b[k] \in Block /\ both \in Block
    <2>1. k + 1 \in 1..Len(b)
      BY <1>1
    <2>2. b[k] \in Block /\ b[k+1] \in Block
      BY <1>1, <2>1
    <2>3. /\ b[k].offset \in Nat /\ b[k].size \in Nat \ {0} /\ b[k].allocated \in BOOLEAN
          /\ b[k+1].size \in Nat \ {0}
      BY <2>2 DEF Block
    <2> HIDE DEF wide
    <2>4. b[k].size + b[k+1].size \in Nat \ {0}
      <3>1. \A x, y \in Nat \ {0} : x + y \in Nat \ {0}
        OBVIOUS
      <3>2. QED
        BY <2>3, <3>1
    <2>5. both \in Block
      BY <2>3, <2>4 DEF Block
    <2>6. QED
      BY <2>2, <2>5
  <1>3. /\ wide \in Seq(Block) /\ Len(wide) = Len(b)
        /\ \A i \in 1..Len(b) : wide[i] = IF i = k THEN both ELSE b[i]
    <2>1. wide = [b EXCEPT ![k] = both]
      <3>1. both = [b[k] EXCEPT !.size = b[k].size + b[k+1].size]
        BY <1>2 DEF Block
      <3> HIDE DEF both
      <3>2. wide = [b EXCEPT ![k] = [b[k] EXCEPT !.size = b[k].size + b[k+1].size]]
        OBVIOUS
      <3>3. QED
        BY <3>1, <3>2
    <2> HIDE DEF wide, both
    <2>2. QED
      BY <1>2, <2>1, ExceptSeq
  <1>4. MemMerge(b, k) = RemoveAt(wide, k + 1)
    BY DEF MemMerge
  <1> HIDE DEF both, wide
  <1> DEFINE c == RemoveAt(wide, k + 1)
  <1>5. /\ c \in Seq(Block) /\ Len(c) = Len(b) - 1
        /\ \A j \in 1..Len(b)-1 :
             c[j] = IF j < k + 1 THEN wide[j] ELSE wide[j+1]
    <2>1. k + 1 \in 1..Len(wide)
      BY <1>1, <1>3
    <2>2. /\ c \in Seq(Block) /\ Len(c) = Len(wide) - 1
          /\ \A j \in 1..Len(wide)-1 :
               c[j] = IF j < k + 1 THEN wide[j] ELSE wide[j+1]
      BY <1>3, <2>1, RemoveAtProperties
    <2>3. QED
      BY <1>3, <2>2
  <1> HIDE DEF c
  <1>6. ASSUME NEW j \in 1..Len(b)-1
        PROVE  c[j] = IF j < k THEN b[j]
                      ELSE IF j = k THEN both
                      ELSE b[j+1]
    <2>1. CASE j < k + 1
      <3>1. c[j] = wide[j] /\ j \in 1..Len(b)
        BY <1>1, <1>5, <2>1
      <3>2. QED
        BY <1>1, <1>3, <2>1, <3>1
    <2>2. CASE j >= k + 1
      <3>1. c[j] = wide[j+1] /\ j + 1 \in 1..Len(b) /\ j + 1 # k
        BY <1>1, <1>5, <2>2
      <3>2. QED
        BY <1>1, <1>3, <2>2, <3>1
    <2>3. QED
      BY <1>1, <2>1, <2>2
  <1>7. QED
    BY <1>4, <1>5, <1>6 DEF c, both

-----------------------------------------------------------------------------
(* Well formed lists stay well formed                                      *)

\* Earlier blocks lie before later ones.  This and Covers follow from Tiles
\* by induction over the list, which the provers cannot do; they are carried
\* along with it instead.
Ordered(b) == \A i, j \in 1..Len(b) :
                i < j => b[i].offset + b[i].size <= b[j].offset

\* Every unit of the memory lies in a block.
Covers(b) == \A x \in 0..MemSize-1 : \E i \in 1..Len(b) :
               b[i].offset <= x /\ x < b[i].offset + b[i].size

WellFormed(b) == b \in Seq(Block) /\ Tiles(b) /\ Ordered(b) /\ Covers(b)

\* The list main() starts with is well formed.
LEMMA WholeMemoryWellFormed == WellFormed(WholeMemory)
  <1> DEFINE e == [offset |-> 0, size |-> MemSize, allocated |-> FALSE]
  <1>1. e \in Block
    BY MemSizeAssumption DEF Block
  <1>2. WholeMemory = << e >>
    BY DEF WholeMemory
  <1>3. e.offset = 0 /\ e.size = MemSize
    OBVIOUS
  <1> HIDE DEF e
  <1>4. << e >> \in Seq(Block) /\ Len(<< e >>) = 1 /\ << e >>[1] = e
    BY <1>1
  <1>5. QED
    BY <1>2, <1>3, <1>4, MemSizeAssumption
    DEF WellFormed, Tiles, Ordered, Covers

\* c is the list b with the allocated flag of block k set to flag.
Flagged(b, c, k, flag) ==
  /\ WellFormed(c)
  /\ Len(c) = Len(b)
  /\ c[k] = [offset |-> b[k].offset, size |-> b[k].size, allocated |-> flag]
  /\ \A j \in 1..Len(b) : j # k => c[j] = b[j]

\* Setting or clearing an allocated flag moves no block.
LEMMA FlagWellFormed ==
  ASSUME NEW b, WellFormed(b), NEW k \in 1..Len(b), NEW flag \in BOOLEAN
  PROVE  Flagged(b, [b EXCEPT ![k].allocated = flag], k, flag)
  <1> DEFINE c == [b EXCEPT ![k].allocated = flag]
             e == [b[k] EXCEPT !.allocated = flag]
  <1>1. b \in Seq(Block) /\ Tiles(b) /\ Ordered(b) /\ Covers(b)
    BY DEF WellFormed
  <1>2. Len(b) \in Nat /\ \A i \in 1..Len(b) : b[i] \in Block
    BY <1>1, LenProperties
  <1>3. /\ e \in Block
        /\ e = [offset |-> b[k].offset, size |-> b[k].size, allocated |-> flag]
    <2>1. b[k] \in [offset : Nat, size : Nat \ {0}, allocated : BOOLEAN]
      BY <1>2 DEF Block
    <2>2. QED
      BY <2>1 DEF Block
  <1>4. c = [b EXCEPT ![k] = e]
    OBVIOUS
  <1> HIDE DEF c, e
  <1>5. /\ c \in Seq(Block) /\ Len(c) = Len(b)
        /\ \A j \in 1..Len(b) : c[j] = IF j = k THEN e ELSE b[j]
    BY <1>1, <1>3, <1>4, ExceptSeq
  <1>6. /\ c[k] = [offset |-> b[k].offset, size |-> b[k].size, allocated |-> flag]
        /\ \A j \in 1..Len(b) : j # k => c[j] = b[j]
    BY <1>3, <1>5
  <1>7. ASSUME NEW j \in 1..Len(b)
        PROVE  c[j].offset = b[j].offset /\ c[j].size = b[j].size
    <2>1. CASE j = k
      BY <1>3, <1>5, <2>1
    <2>2. CASE j # k
      BY <1>5, <2>2
    <2>3. QED
      BY <2>1, <2>2
  <1>8. Tiles(c) /\ Ordered(c) /\ Covers(c)
    BY <1>1, <1>2, <1>5, <1>7 DEF Tiles, Ordered, Covers
  <1>9. QED
    BY <1>5, <1>6, <1>8 DEF WellFormed, Flagged, c

\* Splitting a block keeps the list well formed.
LEMMA SplitWellFormed ==
  ASSUME NEW b, WellFormed(b), NEW k \in 1..Len(b), NEW n \in Nat \ {0},
         b[k].size > n
  PROVE  WellFormed(MemSplit(b, k, n))
  <1> DEFINE c == MemSplit(b, k, n)
             g(j) == IF j <= k THEN j ELSE j - 1
  <1>1. b \in Seq(Block) /\ Tiles(b) /\ Ordered(b) /\ Covers(b)
    BY DEF WellFormed
  <1>2. /\ Len(b) \in Nat
        /\ \A i \in 1..Len(b) : b[i].offset \in Nat /\ b[i].size \in Nat \ {0}
    <2>1. Len(b) \in Nat /\ \A i \in 1..Len(b) : b[i] \in Block
      BY <1>1, LenProperties
    <2>2. QED
      BY <2>1 DEF Block
  <1>3. /\ c \in Seq(Block) /\ Len(c) = Len(b) + 1
        /\ \A j \in 1..Len(b)+1 :
             /\ j < k => c[j] = b[j]
             /\ j = k => c[j].offset = b[k].offset /\ c[j].size = n
             /\ j = k + 1 => /\ c[j].offset = b[k].offset + n
                             /\ c[j].size = b[k].size - n
             /\ j > k + 1 => c[j] = b[j-1]
    <2> DEFINE front == [offset    |-> b[k].offset,
                         size      |-> n,
                         allocated |-> b[k].allocated]
               rest  == [offset    |-> b[k].offset + n,
                         size      |-> b[k].size - n,
                         allocated |-> b[k].allocated]
    <2>1. /\ c \in Seq(Block) /\ Len(c) = Len(b) + 1
          /\ \A j \in 1..Len(b)+1 :
               c[j] = IF j < k THEN b[j] ELSE IF j = k THEN front
                      ELSE IF j = k + 1 THEN rest ELSE b[j-1]
      BY <1>1, SplitShape
    <2>2. /\ front.offset = b[k].offset /\ front.size = n
          /\ rest.offset = b[k].offset + n /\ rest.size = b[k].size - n
      OBVIOUS
    <2> HIDE DEF c, front, rest
    <2>3. QED
      BY <1>2, <2>1, <2>2
  <1> HIDE DEF c
  <1>4. ASSUME NEW j \in 1..Len(c)
        PROVE  /\ g(j) \in 1..Len(b)
               /\ c[j].offset = IF j = k + 1 THEN b[k].offset + n
                                             ELSE b[g(j)].offset
               /\ c[j].offset + c[j].size =
                    IF j = k THEN b[k].offset + n
                             ELSE b[g(j)].offset + b[g(j)].size
    <2>1. CASE j < k
      BY <1>2, <1>3, <2>1
    <2>2. CASE j = k
      BY <1>2, <1>3, <2>2
    <2>3. CASE j = k + 1
      <3>1. /\ c[j].offset = b[k].offset + n
            /\ c[j].size = b[k].size - n
            /\ j # k /\ g(j) = k
        BY <1>2, <1>3, <2>3
      <3>2. c[j].offset + c[j].size = b[k].offset + b[k].size
        <4>1. \A x, y, z \in Int : (x + z) + (y - z) = x + y
          OBVIOUS
        <4>2. b[k].offset \in Int /\ b[k].size \in Int /\ n \in Int
          BY <1>2
        <4>3. (b[k].offset + n) + (b[k].size - n) = b[k].offset + b[k].size
          BY <4>1, <4>2
        <4> HIDE DEF g
        <4>4. QED
          BY <3>1, <4>3
      <3>3. QED
        BY <2>3, <3>1, <3>2
    <2>4. CASE j > k + 1
      BY <1>2, <1>3, <2>4
    <2>5. QED
      BY <1>2, <1>3, <2>1, <2>2, <2>3, <2>4
  <1>5. Tiles(c)
    <2>1. Len(c) > 0 /\ c[1].offset = 0
      <3>1. c[1].offset = b[1].offset /\ b[1].offset = 0
        BY <1>1, <1>2, <1>3, <1>4 DEF Tiles
      <3>2. QED
        BY <1>2, <1>3, <3>1
    <2>2. ASSUME NEW j \in 1..Len(c)-1
          PROVE  c[j+1].offset = c[j].offset + c[j].size
      <3>1. j \in 1..Len(c) /\ j + 1 \in 1..Len(c)
        BY <1>2, <1>3
      <3>2. CASE j = k
        BY <1>2, <1>4, <3>1, <3>2
      <3>3. CASE j # k
        <4>1. /\ c[j].offset + c[j].size = b[g(j)].offset + b[g(j)].size
              /\ c[j+1].offset = b[g(j+1)].offset
          BY <1>2, <1>4, <3>1, <3>3
        <4>2. g(j) \in 1..Len(b)-1 /\ g(j+1) = g(j) + 1
          BY <1>2, <1>3, <3>1, <3>3
        <4>3. b[g(j)+1].offset = b[g(j)].offset + b[g(j)].size
          BY <1>1, <4>2 DEF Tiles
        <4>4. QED
          BY <4>1, <4>2, <4>3
      <3>4. QED
        BY <3>2, <3>3
    <2>3. c[Len(c)].offset + c[Len(c)].size = MemSize
      <3>1. Len(c) \in 1..Len(c) /\ Len(c) # k /\ g(Len(c)) = Len(b)
        BY <1>2, <1>3
      <3>2. c[Len(c)].offset + c[Len(c)].size = b[Len(b)].offset + b[Len(b)].size
        BY <1>4, <3>1
      <3>3. QED
        BY <1>1, <3>2 DEF Tiles
    <2>4. QED
      BY <2>1, <2>2, <2>3 DEF Tiles
  <1>6. Ordered(c)
    <2>1. SUFFICES ASSUME NEW i \in 1..Len(c), NEW j \in 1..Len(c), i < j
                   PROVE  c[i].offset + c[i].size <= c[j].offset
      BY DEF Ordered
    <2>2. /\ g(i) \in 1..Len(b) /\ g(j) \in 1..Len(b)
          /\ c[i].offset + c[i].size <= b[g(i)].offset + b[g(i)].size
          /\ b[g(j)].offset <= c[j].offset
      <3>1. g(i) \in 1..Len(b) /\ g(j) \in 1..Len(b)
        BY <1>4
      <3>2. c[i].offset + c[i].size <= b[g(i)].offset + b[g(i)].size
        <4>1. CASE i = k
          <5>1. c[i].offset + c[i].size = b[k].offset + n
            BY <1>4, <4>1
          <5>2. g(i) = k
            BY <4>1
          <5> HIDE DEF g
          <5>3. QED
            BY <1>2, <5>1, <5>2
        <4>2. CASE i # k
          <5>1. c[i].offset + c[i].size = b[g(i)].offset + b[g(i)].size
            BY <1>4, <4>2
          <5>2. b[g(i)].offset \in Nat /\ b[g(i)].size \in Nat
            BY <1>2, <3>1
          <5> HIDE DEF g
          <5>3. QED
            BY <5>1, <5>2
        <4>3. QED
          BY <4>1, <4>2
      <3>3. b[g(j)].offset <= c[j].offset
        <4>1. CASE j = k + 1
          <5>1. c[j].offset = b[k].offset + n
            BY <1>4, <4>1
          <5>2. g(j) = k
            BY <1>2, <4>1
          <5> HIDE DEF g
          <5>3. QED
            BY <1>2, <5>1, <5>2
        <4>2. CASE j # k + 1
          <5>1. c[j].offset = b[g(j)].offset
            BY <1>4, <4>2
          <5>2. b[g(j)].offset \in Nat
            BY <1>2, <3>1
          <5> HIDE DEF g
          <5>3. QED
            BY <5>1, <5>2
        <4>3. QED
          BY <4>1, <4>2
      <3>4. QED
        BY <3>1, <3>2, <3>3
    <2>3. CASE g(i) < g(j)
      <3>1. b[g(i)].offset + b[g(i)].size <= b[g(j)].offset
        BY <1>1, <2>2, <2>3 DEF Ordered
      <3>2. c[i].offset \in Nat /\ c[i].size \in Nat /\ c[j].offset \in Nat
        <4>1. c[i] \in Block /\ c[j] \in Block
          BY <1>3, ElementOfSeq
        <4>2. QED
          BY <4>1 DEF Block
      <3>3. b[g(i)].offset \in Nat /\ b[g(i)].size \in Nat /\ b[g(j)].offset \in Nat
        BY <1>2, <2>2
      <3> DEFINE u == b[g(i)].offset + b[g(i)].size
                 v == b[g(j)].offset
                 p == c[i].offset + c[i].size
                 q == c[j].offset
      <3>4. p <= u /\ u <= v /\ v <= q
        BY <2>2, <3>1
      <3>5. u \in Nat /\ v \in Nat /\ p \in Nat /\ q \in Nat
        <4>1. \A x, y \in Nat : x + y \in Nat
          OBVIOUS
        <4> HIDE DEF g
        <4>2. QED
          BY <3>2, <3>3, <4>1
      <3> HIDE DEF u, v, p, q
      <3>6. p <= q
        BY <3>4, <3>5
      <3>7. QED
        BY <3>6 DEF p, q
    <2>4. CASE ~(g(i) < g(j))
      <3>1. i = k /\ j = k + 1
        BY <1>2, <1>3, <2>1, <2>4
      <3>2. c[i].offset + c[i].size = b[k].offset + n /\ c[j].offset = b[k].offset + n
        BY <1>4, <3>1
      <3>3. QED
        BY <1>2, <3>2
    <2>5. QED
      BY <2>3, <2>4
  <1>7. Covers(c)
    <2>1. SUFFICES ASSUME NEW x \in 0..MemSize-1
                   PROVE  \E i \in 1..Len(c) :
                            c[i].offset <= x /\ x < c[i].offset + c[i].size
      BY DEF Covers
    <2>2. PICK i \in 1..Len(b) : b[i].offset <= x /\ x < b[i].offset + b[i].size
      BY <1>1 DEF Covers
    <2>3. CASE i < k
      <3>1. i \in 1..Len(c) /\ c[i] = b[i]
        BY <1>2, <1>3, <2>3
      <3>2. QED
        BY <2>2, <3>1
    <2>4. CASE i > k
      <3>1. i + 1 \in 1..Len(c) /\ c[i+1] = b[i]
        BY <1>2, <1>3, <2>4
      <3>2. QED
        BY <2>2, <3>1
    <2>5. CASE i = k
      <3>1. /\ k \in 1..Len(c) /\ k + 1 \in 1..Len(c)
            /\ c[k].offset = b[k].offset /\ c[k].offset + c[k].size = b[k].offset + n
            /\ c[k+1].offset = b[k].offset + n
            /\ c[k+1].offset + c[k+1].size = b[k].offset + b[k].size
        BY <1>2, <1>3, <1>4
      <3>2. CASE x < b[k].offset + n
        BY <2>2, <2>5, <3>1, <3>2
      <3>3. CASE ~(x < b[k].offset + n)
        <4>1. b[k].offset + n <= x
          BY <1>2, <3>3
        <4>2. QED
          BY <2>2, <2>5, <3>1, <4>1
      <3>4. QED
        BY <3>2, <3>3
    <2>6. QED
      BY <1>2, <2>3, <2>4, <2>5
  <1>8. QED
    BY <1>3, <1>5, <1>6, <1>7 DEF WellFormed, c

\* Merging a block with its successor keeps the list well formed.
LEMMA MergeWellFormed ==
  ASSUME NEW b, WellFormed(b), NEW k \in 1..Len(b), k < Len(b)
  PROVE  WellFormed(MemMerge(b, k))
  <1> DEFINE c == MemMerge(b, k)
             both == [offset    |-> b[k].offset,
                      size      |-> b[k].size + b[k+1].size,
                      allocated |-> b[k].allocated]
             lo(j) == IF j <= k THEN j ELSE j + 1
             hi(j) == IF j < k THEN j ELSE j + 1
  <1>1. b \in Seq(Block) /\ Tiles(b) /\ Ordered(b) /\ Covers(b)
    BY DEF WellFormed
  <1>2. /\ Len(b) \in Nat
        /\ \A i \in 1..Len(b) : b[i].offset \in Nat /\ b[i].size \in Nat \ {0}
    <2>1. Len(b) \in Nat /\ \A i \in 1..Len(b) : b[i] \in Block
      BY <1>1, LenProperties
    <2>2. QED
      BY <2>1 DEF Block
  <1>3. /\ both.offset = b[k].offset
        /\ both.offset + both.size = b[k+1].offset + b[k+1].size
    <2>1. k \in 1..Len(b)-1 /\ k + 1 \in 1..Len(b)
      BY <1>2
    <2>2. b[k+1].offset = b[k].offset + b[k].size
      BY <1>1, <2>1 DEF Tiles
    <2>3. both.offset = b[k].offset /\ both.size = b[k].size + b[k+1].size
      OBVIOUS
    <2>4. b[k].offset \in Nat /\ b[k].size \in Nat /\ b[k+1].size \in Nat
      BY <1>2, <2>1
    <2>5. \A x, y, z \in Nat : x + (y + z) = (x + y) + z
      OBVIOUS
    <2>6. b[k].offset + (b[k].size + b[k+1].size)
            = (b[k].offset + b[k].size) + b[k+1].size
      BY <2>4, <2>5
    <2> HIDE DEF both
    <2>7. QED
      BY <2>2, <2>3, <2>6
  <1>4. /\ c \in Seq(Block) /\ Len(c) = Len(b) - 1
        /\ \A j \in 1..Len(b)-1 :
             /\ j < k => c[j] = b[j]
             /\ j = k => c[j] = both
             /\ j > k => c[j] = b[j+1]
    <2>1. /\ c \in Seq(Block) /\ Len(c) = Len(b) - 1
          /\ \A j \in 1..Len(b)-1 :
               c[j] = IF j < k THEN b[j] ELSE IF j = k THEN both ELSE b[j+1]
      BY <1>1, MergeShape
    <2> HIDE DEF c, both
    <2>2. QED
      BY <1>2, <2>1
  <1> HIDE DEF c, both
  <1>5. ASSUME NEW j \in 1..Len(c)
        PROVE  /\ lo(j) \in 1..Len(b) /\ hi(j) \in 1..Len(b)
               /\ c[j].offset = b[lo(j)].offset
               /\ c[j].offset + c[j].size = b[hi(j)].offset + b[hi(j)].size
    <2>1. CASE j < k
      BY <1>2, <1>4, <2>1
    <2>2. CASE j = k
      <3>1. lo(j) = k /\ hi(j) = k + 1 /\ c[j] = both /\ k + 1 \in 1..Len(b)
        BY <1>2, <1>4, <2>2
      <3> HIDE DEF lo, hi
      <3>2. QED
        BY <1>3, <3>1
    <2>3. CASE j > k
      <3>1. lo(j) = j + 1 /\ hi(j) = j + 1 /\ c[j] = b[j+1] /\ j + 1 \in 1..Len(b)
        BY <1>2, <1>4, <2>3
      <3> HIDE DEF lo, hi
      <3>2. QED
        BY <3>1
    <2>4. QED
      BY <1>2, <1>4, <2>1, <2>2, <2>3
  <1>6. Tiles(c)
    <2>1. Len(c) > 0 /\ c[1].offset = 0
      <3>1. 1 \in 1..Len(c) /\ lo(1) = 1
        BY <1>2, <1>4
      <3>2. c[1].offset = b[1].offset
        BY <1>5, <3>1
      <3>3. QED
        BY <1>1, <1>2, <1>4, <3>2 DEF Tiles
    <2>2. ASSUME NEW j \in 1..Len(c)-1
          PROVE  c[j+1].offset = c[j].offset + c[j].size
      <3>1. /\ j \in 1..Len(c) /\ j + 1 \in 1..Len(c)
            /\ lo(j+1) = hi(j) + 1 /\ hi(j) \in 1..Len(b)-1
        BY <1>2, <1>4
      <3>2. b[hi(j)+1].offset = b[hi(j)].offset + b[hi(j)].size
        BY <1>1, <3>1 DEF Tiles
      <3>3. /\ c[j+1].offset = b[lo(j+1)].offset
            /\ c[j].offset + c[j].size = b[hi(j)].offset + b[hi(j)].size
        BY <1>5, <3>1
      <3> HIDE DEF lo, hi
      <3>4. QED
        BY <3>1, <3>2, <3>3
    <2>3. c[Len(c)].offset + c[Len(c)].size = MemSize
      <3>1. Len(c) \in 1..Len(c) /\ hi(Len(c)) = Len(b)
        BY <1>2, <1>4
      <3>2. c[Len(c)].offset + c[Len(c)].size = b[Len(b)].offset + b[Len(b)].size
        BY <1>5, <3>1
      <3>3. QED
        BY <1>1, <3>2 DEF Tiles
    <2>4. QED
      BY <2>1, <2>2, <2>3 DEF Tiles
  <1>7. Ordered(c)
    <2>1. SUFFICES ASSUME NEW i \in 1..Len(c), NEW j \in 1..Len(c), i < j
                   PROVE  c[i].offset + c[i].size <= c[j].offset
      BY DEF Ordered
    <2>2. hi(i) \in 1..Len(b) /\ lo(j) \in 1..Len(b) /\ hi(i) < lo(j)
      BY <1>2, <1>4, <2>1
    <2>3. b[hi(i)].offset + b[hi(i)].size <= b[lo(j)].offset
      BY <1>1, <2>2 DEF Ordered
    <2>4. /\ c[j].offset = b[lo(j)].offset
          /\ c[i].offset + c[i].size = b[hi(i)].offset + b[hi(i)].size
      BY <1>5
    <2> HIDE DEF lo, hi
    <2>5. QED
      BY <2>3, <2>4
  <1>8. Covers(c)
    <2>1. SUFFICES ASSUME NEW x \in 0..MemSize-1
                   PROVE  \E i \in 1..Len(c) :
                            c[i].offset <= x /\ x < c[i].offset + c[i].size
      BY DEF Covers
    <2>2. PICK i \in 1..Len(b) : b[i].offset <= x /\ x < b[i].offset + b[i].size
      BY <1>1 DEF Covers
    <2>3. CASE i < k
      <3>1. i \in 1..Len(c) /\ c[i] = b[i]
        BY <1>2, <1>4, <2>3
      <3>2. QED
        BY <2>2, <3>1
    <2>4. CASE i > k + 1
      <3>1. i - 1 \in 1..Len(c) /\ i - 1 > k /\ (i - 1) + 1 = i
        BY <1>2, <1>4, <2>4
      <3>2. c[i-1] = b[(i-1)+1]
        BY <1>4, <3>1
      <3>3. c[i-1] = b[i]
        BY <3>1, <3>2
      <3>4. QED
        BY <2>2, <3>1, <3>3
    <2>5. CASE i = k \/ i = k + 1
      <3>1. k \in 1..Len(c) /\ c[k] = both
        BY <1>2, <1>4
      <3>2. k \in 1..Len(b)-1 /\ k + 1 \in 1..Len(b)
        BY <1>2
      <3>3. b[k+1].offset = b[k].offset + b[k].size
        BY <1>1, <3>2 DEF Tiles
      <3>4. both.offset <= x
        BY <1>2, <1>3, <2>2, <2>5, <3>2, <3>3
      <3>5. x < both.offset + both.size
        BY <1>2, <1>3, <2>2, <2>5, <3>2, <3>3
      <3>6. QED
        BY <3>1, <3>4, <3>5
    <2>6. QED
      BY <1>2, <2>3, <2>4, <2>5
  <1>9. QED
    BY <1>4, <1>6, <1>7, <1>8 DEF WellFormed, c

\* d is the list b with n units of the free block at k in use, and the rest of
\* that block, if any, a free block right after.
Allocated(b, d, k, n) ==
  /\ WellFormed(d) /\ k \in 1..Len(d)
  /\ d[k] = [offset |-> b[k].offset, size |-> n, allocated |-> TRUE]
  /\ \/ /\ n = b[k].size
        /\ Len(d) = Len(b)
        /\ \A j \in 1..Len(b) : j # k => d[j] = b[j]
     \/ /\ n < b[k].size
        /\ Len(d) = Len(b) + 1
        /\ d[k+1] = [offset    |-> b[k].offset + n,
                     size      |-> b[k].size - n,
                     allocated |-> FALSE]
        /\ \A j \in 1..Len(b) : /\ j < k => d[j] = b[j]
                                /\ j > k => d[j+1] = b[j]

\* memAlloc splits the block and marks its first part used.
LEMMA AllocShape ==
  ASSUME NEW b, WellFormed(b), NEW k \in 1..Len(b), ~b[k].allocated,
         NEW n \in Nat \ {0}, n <= b[k].size
  PROVE  Allocated(b, MemAlloc(b, k, n), k, n)
  <1> DEFINE c == MemSplit(b, k, n)
             d == MemAlloc(b, k, n)
             front == [offset |-> b[k].offset, size |-> n, allocated |-> TRUE]
             rest  == [offset    |-> b[k].offset + n,
                       size      |-> b[k].size - n,
                       allocated |-> FALSE]
  <1>1. b \in Seq(Block)
    BY DEF WellFormed
  <1>2. /\ Len(b) \in Nat /\ \A i \in 1..Len(b) : b[i] \in Block
        /\ b[k].size \in Nat \ {0} /\ b[k].offset \in Nat
    <2>1. Len(b) \in Nat /\ \A i \in 1..Len(b) : b[i] \in Block
      BY <1>1, LenProperties
    <2>2. QED
      BY <2>1 DEF Block
  <1>3. d = [c EXCEPT ![k].allocated = TRUE]
    BY DEF MemAlloc
  <1>4. CASE n = b[k].size
    <2>1. c = b
      BY <1>2, <1>4 DEF MemSplit
    <2> HIDE DEF c, d
    <2>2. /\ WellFormed(d) /\ Len(d) = Len(b)
          /\ d[k] = [offset |-> b[k].offset, size |-> b[k].size, allocated |-> TRUE]
          /\ \A j \in 1..Len(b) : j # k => d[j] = b[j]
      <3>1. d = [b EXCEPT ![k].allocated = TRUE]
        BY <1>3, <2>1
      <3>2. Flagged(b, d, k, TRUE)
        BY <3>1, FlagWellFormed
      <3>3. QED
        BY <3>2 DEF Flagged
    <2>3. d[k] = front
      BY <1>4, <2>2
    <2>4. QED
      BY <1>4, <2>2, <2>3 DEF d, Allocated
  <1>5. CASE n < b[k].size
    <2>1. b[k].size > n
      BY <1>2, <1>5
    <2>2. WellFormed(c)
      BY <2>1, SplitWellFormed
    <2>3. /\ c \in Seq(Block) /\ Len(c) = Len(b) + 1
          /\ \A j \in 1..Len(b)+1 :
               c[j] = IF j < k THEN b[j]
                      ELSE IF j = k THEN [offset    |-> b[k].offset,
                                          size      |-> n,
                                          allocated |-> b[k].allocated]
                      ELSE IF j = k + 1 THEN [offset    |-> b[k].offset + n,
                                              size      |-> b[k].size - n,
                                              allocated |-> b[k].allocated]
                      ELSE b[j-1]
      BY <1>1, <2>1, SplitShape
    <2>4. k \in 1..Len(c)
      BY <1>2, <2>3
    <2> HIDE DEF c, d
    <2>5. /\ WellFormed(d) /\ Len(d) = Len(c)
          /\ d[k] = [offset |-> c[k].offset, size |-> c[k].size, allocated |-> TRUE]
          /\ \A j \in 1..Len(c) : j # k => d[j] = c[j]
      <3>1. Flagged(c, d, k, TRUE)
        BY <1>3, <2>2, <2>4, FlagWellFormed
      <3>2. QED
        BY <3>1 DEF Flagged
    <2>6. d[k] = front
      <3>1. c[k] = [offset |-> b[k].offset, size |-> n, allocated |-> b[k].allocated]
        BY <1>2, <2>3
      <3>2. c[k].offset = b[k].offset /\ c[k].size = n
        BY <3>1
      <3>3. QED
        BY <2>5, <3>2
    <2>7. d[k+1] = rest
      <3>1. k + 1 \in 1..Len(c) /\ k + 1 # k
        BY <1>2, <2>3
      <3>2. c[k+1] = [offset    |-> b[k].offset + n,
                      size      |-> b[k].size - n,
                      allocated |-> b[k].allocated]
        BY <1>2, <2>3, <3>1
      <3>3. b[k].allocated = FALSE
        <4>1. b[k].allocated \in BOOLEAN
          BY <1>2 DEF Block
        <4>2. QED
          BY <4>1
      <3>4. QED
        BY <2>5, <3>1, <3>2, <3>3
    <2>8. ASSUME NEW j \in 1..Len(b)
          PROVE  /\ j < k => d[j] = b[j]
                 /\ j > k => d[j+1] = b[j]
      <3>1. CASE j < k
        <4>1. j \in 1..Len(c) /\ j # k /\ c[j] = b[j]
          BY <1>2, <2>3, <3>1
        <4>2. QED
          BY <1>2, <2>5, <3>1, <4>1
      <3>2. CASE j > k
        <4>1. j + 1 \in 1..Len(c) /\ j + 1 # k /\ c[j+1] = b[(j+1)-1] /\ (j+1)-1 = j
          BY <1>2, <2>3, <3>2
        <4>2. d[j+1] = c[j+1]
          BY <2>5, <4>1
        <4>3. d[j+1] = b[j]
          BY <4>1, <4>2
        <4>4. QED
          BY <1>2, <3>2, <4>3
      <3>3. QED
        BY <3>1, <3>2
    <2>9. QED
      BY <1>5, <2>3, <2>4, <2>5, <2>6, <2>7, <2>8 DEF d, Allocated
  <1>6. QED
    BY <1>2, <1>4, <1>5

\* A block starts inside the memory.
LEMMA OffsetInMemory ==
  ASSUME NEW b, WellFormed(b), NEW k \in 1..Len(b)
  PROVE  /\ b[k].offset \in 0..MemSize-1
         /\ b[k].offset + b[k].size <= MemSize
         /\ b[k].size \in Nat \ {0}
  <1>1. b \in Seq(Block) /\ Tiles(b) /\ Ordered(b)
    BY DEF WellFormed
  <1>2. /\ Len(b) \in Nat
        /\ \A i \in 1..Len(b) : b[i].offset \in Nat /\ b[i].size \in Nat \ {0}
    <2>1. Len(b) \in Nat /\ \A i \in 1..Len(b) : b[i] \in Block
      BY <1>1, LenProperties
    <2>2. QED
      BY <2>1 DEF Block
  <1>3. Len(b) \in 1..Len(b) /\ b[Len(b)].offset + b[Len(b)].size = MemSize
    BY <1>1, <1>2 DEF Tiles
  <1>4. b[k].offset + b[k].size <= MemSize
    <2>1. CASE k = Len(b)
      BY <1>2, <1>3, <2>1, MemSizeAssumption
    <2>2. CASE k < Len(b)
      <3>1. b[k].offset + b[k].size <= b[Len(b)].offset
        BY <1>1, <1>3, <2>2 DEF Ordered
      <3>2. QED
        BY <1>2, <1>3, <3>1
    <2>3. QED
      BY <1>2, <2>1, <2>2
  <1>5. QED
    BY <1>2, <1>4, MemSizeAssumption

-----------------------------------------------------------------------------
(* The intervals in the hands of callers                                   *)

Interval(b, i) == [offset |-> b[i].offset, size |-> b[i].size]

\* What it means for an interval to be in a caller's hands.
LEMMA UsedIntervalsMembers ==
  ASSUME NEW b
  PROVE  \A r : r \in UsedIntervals(b) <=>
                  \E i \in 1..Len(b) : b[i].allocated /\ r = Interval(b, i)
  BY DEF UsedIntervals, Interval

\* Every block in a well formed list, with the types the arithmetic needs.
LEMMA BlockTypes ==
  ASSUME NEW b, WellFormed(b)
  PROVE  /\ b \in Seq(Block) /\ Len(b) \in Nat \ {0}
         /\ \A i \in 1..Len(b) : /\ b[i].offset \in Nat /\ b[i].size \in Nat \ {0}
                                 /\ b[i].allocated \in BOOLEAN
  <1>1. b \in Seq(Block) /\ Len(b) > 0
    BY DEF WellFormed, Tiles
  <1>2. Len(b) \in Nat /\ \A i \in 1..Len(b) : b[i] \in Block
    BY <1>1, LenProperties
  <1>3. QED
    BY <1>1, <1>2 DEF Block

\* Allocating adds exactly the interval handed out.
LEMMA AllocUsed ==
  ASSUME NEW b, NEW d, NEW k \in 1..Len(b), NEW n \in Nat \ {0},
         WellFormed(b), ~b[k].allocated, Allocated(b, d, k, n)
  PROVE  UsedIntervals(d) =
           UsedIntervals(b) \cup {[offset |-> b[k].offset, size |-> n]}
  <1> DEFINE given == [offset |-> b[k].offset, size |-> n]
             front == [offset |-> b[k].offset, size |-> n, allocated |-> TRUE]
             rest  == [offset    |-> b[k].offset + n,
                       size      |-> b[k].size - n,
                       allocated |-> FALSE]
  <1>1. Len(b) \in Nat
    BY BlockTypes
  <1>2. front.allocated /\ ~rest.allocated
        /\ front.offset = b[k].offset /\ front.size = n
    OBVIOUS
  <1>3. /\ k \in 1..Len(d) /\ d[k] = front
        /\ \/ /\ Len(d) = Len(b)
              /\ \A j \in 1..Len(b) : j # k => d[j] = b[j]
           \/ /\ Len(d) = Len(b) + 1 /\ d[k+1] = rest
              /\ \A j \in 1..Len(b) : /\ j < k => d[j] = b[j]
                                      /\ j > k => d[j+1] = b[j]
    BY DEF Allocated
  <1> HIDE DEF front, rest
  <1>4. Interval(d, k) = given /\ d[k].allocated
    BY <1>2, <1>3 DEF Interval
  <1>5. ASSUME NEW i \in 1..Len(d), d[i].allocated, i # k
        PROVE  \E j \in 1..Len(b) : b[j].allocated /\ Interval(d, i) = Interval(b, j)
    <2>1. CASE /\ Len(d) = Len(b)
               /\ \A j \in 1..Len(b) : j # k => d[j] = b[j]
      <3>1. i \in 1..Len(b) /\ d[i] = b[i]
        BY <1>5, <2>1
      <3>2. QED
        BY <1>5, <3>1 DEF Interval
    <2>2. CASE /\ Len(d) = Len(b) + 1 /\ d[k+1] = rest
               /\ \A j \in 1..Len(b) : /\ j < k => d[j] = b[j]
                                       /\ j > k => d[j+1] = b[j]
      <3>1. i # k + 1
        BY <1>2, <1>5, <2>2
      <3>2. CASE i < k
        <4>1. i \in 1..Len(b) /\ d[i] = b[i]
          BY <1>1, <2>2, <3>2
        <4>2. QED
          BY <1>5, <4>1 DEF Interval
      <3>3. CASE i > k + 1
        <4>1. i - 1 \in 1..Len(b) /\ i - 1 > k /\ (i - 1) + 1 = i
          BY <1>1, <2>2, <3>3
        <4>2. d[(i-1)+1] = b[i-1]
          BY <2>2, <4>1
        <4>3. d[i] = b[i-1]
          BY <4>1, <4>2
        <4>4. QED
          BY <1>5, <4>1, <4>3 DEF Interval
      <3>4. QED
        BY <1>1, <1>5, <2>2, <3>1, <3>2, <3>3
    <2>3. QED
      BY <1>3, <2>1, <2>2
  <1>6. ASSUME NEW j \in 1..Len(b), b[j].allocated
        PROVE  \E i \in 1..Len(d) : d[i].allocated /\ Interval(d, i) = Interval(b, j)
    <2>1. j # k
      BY <1>6
    <2>2. CASE /\ Len(d) = Len(b)
               /\ \A i \in 1..Len(b) : i # k => d[i] = b[i]
      BY <1>6, <2>1, <2>2 DEF Interval
    <2>3. CASE /\ Len(d) = Len(b) + 1
               /\ \A i \in 1..Len(b) : /\ i < k => d[i] = b[i]
                                       /\ i > k => d[i+1] = b[i]
      <3>1. CASE j < k
        <4>1. j \in 1..Len(d) /\ d[j] = b[j]
          BY <1>1, <2>3, <3>1
        <4>2. QED
          BY <1>6, <4>1 DEF Interval
      <3>2. CASE j > k
        <4>1. j + 1 \in 1..Len(d) /\ d[j+1] = b[j]
          BY <1>1, <2>3, <3>2
        <4>2. QED
          BY <1>6, <4>1 DEF Interval
      <3>3. QED
        BY <1>1, <2>1, <3>1, <3>2
    <2>4. QED
      BY <1>3, <2>2, <2>3
  <1> HIDE DEF given
  <1>7. ASSUME NEW r
        PROVE  r \in UsedIntervals(d) <=> r \in UsedIntervals(b) \cup {given}
    <2>1. ASSUME r \in UsedIntervals(d)
          PROVE  r \in UsedIntervals(b) \cup {given}
      <3>1. PICK i \in 1..Len(d) : d[i].allocated /\ r = Interval(d, i)
        BY <2>1, UsedIntervalsMembers
      <3>2. CASE i = k
        BY <1>4, <3>1, <3>2
      <3>3. CASE i # k
        BY <1>5, <3>1, <3>3, UsedIntervalsMembers
      <3>4. QED
        BY <3>2, <3>3
    <2>2. ASSUME r \in UsedIntervals(b)
          PROVE  r \in UsedIntervals(d)
      <3>1. PICK j \in 1..Len(b) : b[j].allocated /\ r = Interval(b, j)
        BY <2>2, UsedIntervalsMembers
      <3>2. QED
        BY <1>6, <3>1, UsedIntervalsMembers
    <2>3. given \in UsedIntervals(d)
      BY <1>3, <1>4, UsedIntervalsMembers
    <2>4. QED
      BY <2>1, <2>2, <2>3
  <1>8. QED
    BY <1>7 DEF given

\* Freeing takes exactly the block's interval away.
LEMMA MarkUsed ==
  ASSUME NEW b, NEW c, NEW k \in 1..Len(b), WellFormed(b), b[k].allocated,
         Flagged(b, c, k, FALSE)
  PROVE  /\ Interval(b, k) \in UsedIntervals(b)
         /\ UsedIntervals(c) = UsedIntervals(b) \ {Interval(b, k)}
  <1> DEFINE rec == [offset |-> b[k].offset, size |-> b[k].size, allocated |-> FALSE]
  <1>1. ~rec.allocated
    OBVIOUS
  <1> HIDE DEF rec
  <1>2. /\ Len(c) = Len(b) /\ ~c[k].allocated
        /\ \A j \in 1..Len(b) : j # k => c[j] = b[j]
    BY <1>1 DEF Flagged, rec
  <1>3. Interval(b, k) \in UsedIntervals(b)
    BY UsedIntervalsMembers
  <1>4. ASSUME NEW j \in 1..Len(b), j # k
        PROVE  Interval(b, j) # Interval(b, k)
    <2>1. \A i \in 1..Len(b) : b[i].offset \in Nat /\ b[i].size \in Nat \ {0}
      BY BlockTypes
    <2>2. Ordered(b)
      BY DEF WellFormed
    <2>3. b[j].offset # b[k].offset
      <3>1. CASE j < k
        <4>1. b[j].offset + b[j].size <= b[k].offset
          BY <2>2, <3>1 DEF Ordered
        <4>2. QED
          BY <2>1, <4>1
      <3>2. CASE j > k
        <4>1. b[k].offset + b[k].size <= b[j].offset
          BY <2>2, <3>2 DEF Ordered
        <4>2. QED
          BY <2>1, <4>1
      <3>3. QED
        BY <1>4, <3>1, <3>2
    <2>4. QED
      BY <2>3 DEF Interval
  <1>5. ASSUME NEW r
        PROVE  r \in UsedIntervals(c) <=>
                 r \in UsedIntervals(b) \ {Interval(b, k)}
    <2>1. ASSUME r \in UsedIntervals(c)
          PROVE  r \in UsedIntervals(b) \ {Interval(b, k)}
      <3>1. PICK j \in 1..Len(c) : c[j].allocated /\ r = Interval(c, j)
        BY <2>1, UsedIntervalsMembers
      <3>2. j # k /\ j \in 1..Len(b) /\ b[j].allocated /\ r = Interval(b, j)
        BY <1>2, <3>1 DEF Interval
      <3>3. QED
        BY <1>4, <3>2, UsedIntervalsMembers
    <2>2. ASSUME r \in UsedIntervals(b) \ {Interval(b, k)}
          PROVE  r \in UsedIntervals(c)
      <3>1. PICK j \in 1..Len(b) : b[j].allocated /\ r = Interval(b, j)
        BY <2>2, UsedIntervalsMembers
      <3>2. j # k /\ j \in 1..Len(c) /\ c[j].allocated /\ r = Interval(c, j)
        BY <1>2, <2>2, <3>1 DEF Interval
      <3>3. QED
        BY <3>2, UsedIntervalsMembers
    <2>3. QED
      BY <2>1, <2>2
  <1>6. QED
    BY <1>3, <1>5

\* Merging two free blocks leaves the intervals in use alone.
LEMMA MergeUsed ==
  ASSUME NEW b, WellFormed(b), NEW k \in 1..Len(b), k < Len(b),
         ~b[k].allocated, ~b[k+1].allocated
  PROVE  UsedIntervals(MemMerge(b, k)) = UsedIntervals(b)
  <1> DEFINE c == MemMerge(b, k)
             both == [offset    |-> b[k].offset,
                      size      |-> b[k].size + b[k+1].size,
                      allocated |-> b[k].allocated]
  <1>1. b \in Seq(Block) /\ Len(b) \in Nat
    BY BlockTypes
  <1>2. /\ Len(c) = Len(b) - 1
        /\ \A j \in 1..Len(b)-1 :
             c[j] = IF j < k THEN b[j] ELSE IF j = k THEN both ELSE b[j+1]
    BY <1>1, MergeShape
  <1>3. both.allocated = b[k].allocated
    OBVIOUS
  <1> HIDE DEF c, both
  <1>4. ASSUME NEW r
        PROVE  r \in UsedIntervals(c) <=> r \in UsedIntervals(b)
    <2>1. ASSUME r \in UsedIntervals(c)
          PROVE  r \in UsedIntervals(b)
      <3>1. PICK j \in 1..Len(c) : c[j].allocated /\ r = Interval(c, j)
        BY <2>1, UsedIntervalsMembers
      <3>2. j # k /\ j \in 1..Len(b)-1
        BY <1>1, <1>2, <1>3, <3>1
      <3>3. CASE j < k
        <4>1. c[j] = b[j] /\ j \in 1..Len(b)
          BY <1>1, <1>2, <3>2, <3>3
        <4>2. QED
          BY <3>1, <4>1, UsedIntervalsMembers DEF Interval
      <3>4. CASE j > k
        <4>1. c[j] = b[j+1] /\ j + 1 \in 1..Len(b)
          BY <1>1, <1>2, <3>2, <3>4
        <4>2. QED
          BY <3>1, <4>1, UsedIntervalsMembers DEF Interval
      <3>5. QED
        BY <3>2, <3>3, <3>4
    <2>2. ASSUME r \in UsedIntervals(b)
          PROVE  r \in UsedIntervals(c)
      <3>1. PICK j \in 1..Len(b) : b[j].allocated /\ r = Interval(b, j)
        BY <2>2, UsedIntervalsMembers
      <3>2. j # k /\ j # k + 1
        BY <3>1
      <3>3. CASE j < k
        <4>1. c[j] = b[j] /\ j \in 1..Len(c)
          BY <1>1, <1>2, <3>3
        <4>2. QED
          BY <3>1, <4>1, UsedIntervalsMembers DEF Interval
      <3>4. CASE j > k + 1
        <4>1. j - 1 \in 1..Len(b)-1 /\ j - 1 > k /\ (j - 1) + 1 = j
          BY <1>1, <3>4
        <4>2. c[j-1] = b[(j-1)+1] /\ j - 1 \in 1..Len(c)
          BY <1>2, <4>1
        <4>3. c[j-1] = b[j]
          BY <4>1, <4>2
        <4>4. QED
          BY <3>1, <4>2, <4>3, UsedIntervalsMembers DEF Interval
      <3>5. QED
        BY <1>1, <3>2, <3>3, <3>4
    <2>3. QED
      BY <2>1, <2>2
  <1>5. QED
    BY <1>4 DEF c

-----------------------------------------------------------------------------
(* memAlloc and memFree leave no two free neighbours                       *)

\* Merging at k in memFree: what both merges do to the flags.
LEMMA MergeFlags ==
  ASSUME NEW b, WellFormed(b), NEW k \in 1..Len(b), k < Len(b)
  PROVE  /\ Len(MemMerge(b, k)) = Len(b) - 1
         /\ \A j \in 1..Len(b)-1 :
              /\ j <= k => MemMerge(b, k)[j].allocated = b[j].allocated
              /\ j > k => MemMerge(b, k)[j] = b[j+1]
  <1> DEFINE c == MemMerge(b, k)
             both == [offset    |-> b[k].offset,
                      size      |-> b[k].size + b[k+1].size,
                      allocated |-> b[k].allocated]
  <1>1. b \in Seq(Block) /\ Len(b) \in Nat
    BY LenProperties DEF WellFormed
  <1>2. /\ Len(c) = Len(b) - 1
        /\ \A j \in 1..Len(b)-1 :
             c[j] = IF j < k THEN b[j] ELSE IF j = k THEN both ELSE b[j+1]
    BY <1>1, MergeShape
  <1>3. both.allocated = b[k].allocated
    OBVIOUS
  <1> HIDE DEF c, both
  <1>4. ASSUME NEW j \in 1..Len(b)-1
        PROVE  /\ j <= k => c[j].allocated = b[j].allocated
               /\ j > k => c[j] = b[j+1]
    <2>1. CASE j < k
      BY <1>1, <1>2, <2>1
    <2>2. CASE j = k
      BY <1>1, <1>2, <1>3, <2>2
    <2>3. CASE j > k
      BY <1>1, <1>2, <2>3
    <2>4. QED
      BY <1>1, <2>1, <2>2, <2>3
  <1>5. QED
    BY <1>2, <1>4 DEF c

\* Clearing the flag of a free block changes nothing.
LEMMA ClearFree ==
  ASSUME NEW b \in Seq(Block), NEW k \in 1..Len(b), ~b[k].allocated
  PROVE  [b EXCEPT ![k].allocated = FALSE] = b
  <1> DEFINE e == [b[k] EXCEPT !.allocated = FALSE]
  <1>1. b[k] \in [offset : Nat, size : Nat \ {0}, allocated : BOOLEAN]
    BY ElementOfSeq DEF Block
  <1>2. b[k].allocated = FALSE
    BY <1>1
  <1>3. e = b[k]
    BY <1>1, <1>2
  <1>4. [b EXCEPT ![k].allocated = FALSE] = [b EXCEPT ![k] = e]
    OBVIOUS
  <1> HIDE DEF e
  <1>5. [b EXCEPT ![k] = b[k]] = b
    OBVIOUS
  <1>6. QED
    BY <1>3, <1>4, <1>5

\* Allocating in a coalesced list leaves no two free neighbours: what a split leaves is
\* behind a used block, and before a block that is used as the one before it was free.
LEMMA AllocCoalesced ==
  ASSUME NEW b, NEW d, WellFormed(b), Coalesced(b), NEW k \in 1..Len(b), ~b[k].allocated,
         NEW n \in Nat \ {0}, Allocated(b, d, k, n)
  PROVE  Coalesced(d)
  <1>1. /\ Len(b) \in Nat /\ Len(d) \in Nat /\ k \in 1..Len(d) /\ d[k].allocated
        /\ k \in 1..Len(b) /\ ~b[k].allocated
        /\ \/ /\ Len(d) = Len(b)
              /\ \A j \in 1..Len(b) : j # k => d[j] = b[j]
           \/ /\ Len(d) = Len(b) + 1
              /\ \A j \in 1..Len(b) : /\ j < k => d[j] = b[j]
                                      /\ j > k => d[j+1] = b[j]
    <2> DEFINE used == [offset |-> b[k].offset, size |-> n, allocated |-> TRUE]
    <2>1. used.allocated
      OBVIOUS
    <2>2. d[k] = used
      BY DEF Allocated
    <2> HIDE DEF used
    <2>3. Len(b) \in Nat /\ Len(d) \in Nat
      BY BlockTypes DEF Allocated
    <2>4. QED
      BY <2>1, <2>2, <2>3 DEF Allocated
  <1>2. SUFFICES ASSUME NEW j \in 1..Len(d)-1
                 PROVE  d[j].allocated \/ d[j+1].allocated
    BY DEF Coalesced
  <1>3. \A i \in 1..Len(b)-1 :
          b[i].allocated \/ b[i+1].allocated
    BY DEF Coalesced
  <1>4. CASE j = k \/ j + 1 = k
    BY <1>1, <1>4
  <1>5. CASE j # k /\ j + 1 # k /\ Len(d) = Len(b)
    <2>1. \A i \in 1..Len(b) : i # k => d[i] = b[i]
      BY <1>1, <1>5
    <2>2. j \in 1..Len(b)-1 /\ j \in 1..Len(b)
            /\ j + 1 \in 1..Len(b)
      BY <1>1, <1>5
    <2>3. d[j] = b[j] /\ d[j+1] = b[j+1]
      BY <1>5, <2>1, <2>2
    <2>4. QED
      BY <1>3, <2>2, <2>3
  <1>6. CASE j # k /\ j + 1 # k /\ Len(d) = Len(b) + 1
    <2>1. \A i \in 1..Len(b) : /\ i < k => d[i] = b[i]
                               /\ i > k => d[i+1] = b[i]
      BY <1>1, <1>6
    <2>2. CASE j + 1 < k
      <3>1. /\ j \in 1..Len(b)-1 /\ j \in 1..Len(b)
            /\ j + 1 \in 1..Len(b) /\ j < k
        BY <1>1, <2>2
      <3>2. d[j] = b[j] /\ d[j+1] = b[j+1]
        BY <2>1, <2>2, <3>1
      <3>3. QED
        BY <1>3, <3>1, <3>2
    <2>3. CASE j = k + 1
      <3>1. j \in 1..Len(b) /\ j > k /\ k \in 1..Len(b)-1
        BY <1>1, <1>6, <2>3
      <3>2. d[j+1] = b[j]
        BY <2>1, <3>1
      <3>3. b[k].allocated \/ b[k+1].allocated
        BY <1>3, <3>1
      <3>4. QED
        BY <1>1, <2>3, <3>2, <3>3
    <2>4. CASE j > k + 1
      <3>1. /\ j - 1 \in 1..Len(b)-1 /\ j - 1 \in 1..Len(b)
            /\ j \in 1..Len(b) /\ j > k /\ j - 1 > k /\ (j - 1) + 1 = j
        BY <1>1, <1>6, <2>4
      <3>2. d[j+1] = b[j]
        BY <2>1, <3>1
      <3>3. d[(j-1)+1] = b[j-1]
        BY <2>1, <3>1
      <3>4. b[j-1].allocated \/ b[(j-1)+1].allocated
        BY <1>3, <3>1
      <3>5. QED
        BY <3>1, <3>2, <3>3, <3>4
    <2>5. QED
      BY <1>1, <1>6, <2>2, <2>3, <2>4
  <1>7. QED
    BY <1>1, <1>4, <1>5, <1>6

\* At most the pairs of neighbours around the block at k are both free.
FreeAround(b, k) ==
  \A j \in 1..Len(b)-1 : j # k /\ j + 1 # k => b[j].allocated \/ b[j+1].allocated

\* At most the block at k and the one after it are both free.
FreeAfter(b, k) ==
  \A j \in 1..Len(b)-1 : j # k => b[j].allocated \/ b[j+1].allocated

\* The merge with the block before; what is left to coalesce is the block after.
LEMMA JoinPrev ==
  ASSUME NEW b, WellFormed(b), NEW m \in 1..Len(b), ~b[m].allocated, FreeAround(b, m),
         NEW c, c = IF PrevIsFree(b, m) THEN MemMerge(b, m - 1) ELSE b,
         NEW k, k = IF PrevIsFree(b, m) THEN m - 1 ELSE m
  PROVE  /\ WellFormed(c) /\ k \in 1..Len(c) /\ ~c[k].allocated /\ FreeAfter(c, k)
         /\ UsedIntervals(c) = UsedIntervals(b)
  <1>1. Len(b) \in Nat
    BY BlockTypes
  <1>2. CASE PrevIsFree(b, m)
    <2>1. c = MemMerge(b, m - 1) /\ m > 1 /\ ~b[m-1].allocated /\ k = m - 1
      BY <1>2 DEF PrevIsFree
    <2>2. k \in 1..Len(b) /\ k < Len(b) /\ k + 1 = m /\ ~b[k].allocated /\ c = MemMerge(b, k)
      BY <1>1, <2>1
    <2>3. WellFormed(c) /\ UsedIntervals(c) = UsedIntervals(b)
      BY <2>2, MergeWellFormed, MergeUsed
    <2>4. /\ Len(c) = Len(b) - 1
          /\ \A j \in 1..Len(b)-1 :
               /\ j <= k => c[j].allocated = b[j].allocated
               /\ j > k => c[j] = b[j+1]
      BY <2>2, MergeFlags
    <2>5. k \in 1..Len(c) /\ ~c[k].allocated
      BY <1>1, <2>2, <2>4
    <2>6. ASSUME NEW j \in 1..Len(c)-1, j # k
          PROVE  c[j].allocated \/ c[j+1].allocated
      <3>1. CASE j < k
        <4>1. /\ j \in 1..Len(b)-1 /\ j + 1 \in 1..Len(b)-1
              /\ j <= k /\ j + 1 <= k /\ j # m /\ j + 1 # m
          BY <1>1, <2>2, <2>4, <3>1
        <4>2. c[j].allocated = b[j].allocated /\ c[j+1].allocated = b[j+1].allocated
          BY <2>4, <4>1
        <4>3. QED
          BY <4>1, <4>2 DEF FreeAround
      <3>2. CASE j > k
        <4>1. /\ j \in 1..Len(b)-1 /\ j + 1 \in 1..Len(b)-1
              /\ j + 1 > k /\ j + 1 # m /\ (j + 1) + 1 # m
          BY <1>1, <2>2, <2>4, <3>2
        <4>2. c[j] = b[j+1] /\ c[j+1] = b[(j+1)+1]
          BY <2>4, <3>2, <4>1
        <4>3. b[j+1].allocated \/ b[(j+1)+1].allocated
          BY <4>1 DEF FreeAround
        <4>4. QED
          BY <4>2, <4>3
      <3>3. QED
        BY <1>1, <2>2, <2>4, <2>6, <3>1, <3>2
    <2>7. QED
      BY <2>3, <2>5, <2>6 DEF FreeAfter
  <1>3. CASE ~PrevIsFree(b, m)
    <2>1. c = b /\ k = m
      BY <1>3
    <2>2. ASSUME NEW j \in 1..Len(b)-1, j # m
          PROVE  b[j].allocated \/ b[j+1].allocated
      <3>1. CASE j + 1 = m
        <4>1. m > 1 /\ j = m - 1
          BY <1>1, <3>1
        <4>2. b[m-1].allocated
          BY <1>3, <4>1 DEF PrevIsFree
        <4>3. QED
          BY <4>1, <4>2
      <3>2. CASE j + 1 # m
        BY <2>2, <3>2 DEF FreeAround
      <3>3. QED
        BY <3>1, <3>2
    <2>3. QED
      BY <2>1, <2>2 DEF FreeAfter
  <1>4. QED
    BY <1>2, <1>3

\* The merge with the block after
LEMMA JoinNext ==
  ASSUME NEW b, WellFormed(b), NEW m \in 1..Len(b), ~b[m].allocated, FreeAfter(b, m),
         NextIsFree(b, m), NEW c, c = MemMerge(b, m)
  PROVE  /\ WellFormed(c) /\ m \in 1..Len(c) /\ ~c[m].allocated /\ Coalesced(c)
         /\ UsedIntervals(c) = UsedIntervals(b)
  <1>1. Len(b) \in Nat /\ m < Len(b) /\ ~b[m+1].allocated
    BY BlockTypes DEF NextIsFree
  <1>2. WellFormed(c) /\ UsedIntervals(c) = UsedIntervals(b)
    BY <1>1, MergeWellFormed, MergeUsed
  <1>3. /\ Len(c) = Len(b) - 1
        /\ \A j \in 1..Len(b)-1 :
             /\ j <= m => c[j].allocated = b[j].allocated
             /\ j > m => c[j] = b[j+1]
    BY <1>1, MergeFlags
  <1>4. m \in 1..Len(c) /\ ~c[m].allocated
    BY <1>1, <1>3
  <1>5. ASSUME NEW j \in 1..Len(c)-1
        PROVE  c[j].allocated \/ c[j+1].allocated
    <2>1. CASE j < m
      <3>1. j \in 1..Len(b)-1 /\ j + 1 \in 1..Len(b)-1 /\ j <= m /\ j + 1 <= m /\ j # m
        BY <1>1, <1>3, <2>1
      <3>2. c[j].allocated = b[j].allocated /\ c[j+1].allocated = b[j+1].allocated
        BY <1>3, <3>1
      <3>3. QED
        BY <3>1, <3>2 DEF FreeAfter
    <2>2. CASE j >= m
      <3>1. /\ j \in 1..Len(b)-1 /\ j + 1 \in 1..Len(b)-1 /\ j + 1 > m /\ j + 1 # m
        BY <1>1, <1>3, <2>2
      <3>2. c[j+1] = b[(j+1)+1]
        BY <1>3, <3>1
      <3>3. b[j+1].allocated \/ b[(j+1)+1].allocated
        BY <3>1 DEF FreeAfter
      <3>4. CASE j = m
        BY <1>1, <3>2, <3>3, <3>4
      <3>5. CASE j > m
        <4>1. c[j] = b[j+1]
          BY <1>3, <3>1, <3>5
        <4>2. QED
          BY <3>2, <3>3, <4>1
      <3>6. QED
        BY <1>1, <2>2, <3>4, <3>5
    <2>3. QED
      BY <1>1, <1>3, <2>1, <2>2
  <1>6. QED
    BY <1>2, <1>4, <1>5 DEF Coalesced

\* With nothing to merge the list is coalesced.
LEMMA NothingAfter ==
  ASSUME NEW b, WellFormed(b), NEW m \in 1..Len(b), FreeAfter(b, m), ~NextIsFree(b, m)
  PROVE  Coalesced(b)
  <1>1. Len(b) \in Nat
    BY BlockTypes
  <1>2. m < Len(b) => b[m+1].allocated
    BY DEF NextIsFree
  <1>3. QED
    BY <1>1, <1>2 DEF FreeAfter, Coalesced

\* memFree of a used block: the list stays well formed and coalesced, and exactly the
\* block's interval is no longer in use.
LEMMA FreeFacts ==
  ASSUME NEW b, WellFormed(b), Coalesced(b), NEW k \in 1..Len(b), b[k].allocated
  PROVE  /\ WellFormed(MemFree(b, k)) /\ Coalesced(MemFree(b, k))
         /\ UsedIntervals(MemFree(b, k)) = UsedIntervals(b) \ {Interval(b, k)}
  <1> DEFINE freed  == [b EXCEPT ![k].allocated = FALSE]
             start  == IF PrevIsFree(b, k) THEN k - 1 ELSE k
             joined == IF PrevIsFree(b, k) THEN MemMerge(freed, k - 1) ELSE freed
  <1>1. Flagged(b, freed, k, FALSE)
    BY FlagWellFormed
  <1> DEFINE rec == [offset |-> b[k].offset, size |-> b[k].size, allocated |-> FALSE]
  <1>2. ~rec.allocated
    OBVIOUS
  <1>3. MemFree(b, k) = IF NextIsFree(joined, start) THEN MemMerge(joined, start) ELSE joined
    BY DEF MemFree
  <1> HIDE DEF freed, rec
  <1>4. /\ WellFormed(freed) /\ Len(freed) = Len(b) /\ Len(b) \in Nat /\ ~freed[k].allocated
        /\ \A j \in 1..Len(b) : j # k => freed[j] = b[j]
    BY <1>1, <1>2, BlockTypes DEF Flagged, rec
  <1>5. UsedIntervals(freed) = UsedIntervals(b) \ {Interval(b, k)}
    BY <1>1, MarkUsed
  <1>6. FreeAround(freed, k)
    <2>1. ASSUME NEW j \in 1..Len(b)-1, j # k, j + 1 # k
          PROVE  freed[j].allocated \/ freed[j+1].allocated
      <3>1. j \in 1..Len(b) /\ j + 1 \in 1..Len(b)
        BY <1>4
      <3>2. freed[j] = b[j] /\ freed[j+1] = b[j+1]
        BY <1>4, <2>1, <3>1
      <3>3. QED
        BY <3>2 DEF Coalesced
    <2>2. QED
      BY <1>4, <2>1 DEF FreeAround
  <1>7. PrevIsFree(freed, k) <=> PrevIsFree(b, k)
    <2>1. CASE k > 1
      <3>1. k - 1 \in 1..Len(b) /\ k - 1 # k
        BY <1>4, <2>1
      <3>2. QED
        BY <1>4, <3>1 DEF PrevIsFree
    <2>2. CASE ~(k > 1)
      BY <2>2 DEF PrevIsFree
    <2>3. QED
      BY <2>1, <2>2
  <1>8. /\ joined = IF PrevIsFree(freed, k) THEN MemMerge(freed, k - 1) ELSE freed
        /\ start = IF PrevIsFree(freed, k) THEN k - 1 ELSE k
    BY <1>7
  <1> HIDE DEF start, joined
  <1>9. /\ WellFormed(joined) /\ start \in 1..Len(joined) /\ ~joined[start].allocated
        /\ FreeAfter(joined, start) /\ UsedIntervals(joined) = UsedIntervals(freed)
    BY <1>4, <1>6, <1>8, JoinPrev
  <1>10. CASE NextIsFree(joined, start)
    BY <1>3, <1>5, <1>9, <1>10, JoinNext
  <1>11. CASE ~NextIsFree(joined, start)
    BY <1>3, <1>5, <1>9, <1>11, NothingAfter
  <1>12. QED
    BY <1>10, <1>11

\* Probing with memAlloc and giving the block back at once restores a coalesced list.
LEMMA ProbeRestores ==
  ASSUME NEW b, WellFormed(b), Coalesced(b), NEW k \in 1..Len(b), ~b[k].allocated,
         NEW n \in Nat \ {0}, n <= b[k].size
  PROVE  MemFree(MemAlloc(b, k, n), k) = b
  <1> DEFINE d == MemAlloc(b, k, n)
             freed == [d EXCEPT ![k].allocated = FALSE]
  <1>2. n \in Nat \ {0}
    OBVIOUS
  <1>3. /\ b \in Seq(Block) /\ WellFormed(b) /\ Len(b) \in Nat \ {0}
        /\ \A i \in 1..Len(b) : b[i] \in Block /\ b[i].allocated \in BOOLEAN
    <2>1. b \in Seq(Block) /\ Len(b) \in Nat \ {0}
      BY BlockTypes
    <2>2. \A i \in 1..Len(b) : b[i] \in Block
      BY <2>1, ElementOfSeq
    <2>3. QED
      BY <2>1, <2>2, BlockTypes
  <1>4. \A i \in 1..Len(b)-1 : b[i].allocated \/ b[i+1].allocated
    BY DEF Coalesced
  <1>5. k \in 1..Len(b) /\ ~b[k].allocated /\ n <= b[k].size
    OBVIOUS
  <1>6. Allocated(b, d, k, n)
    BY <1>2, <1>3, <1>5, AllocShape
  <1> HIDE DEF d
  <1>7. /\ WellFormed(freed) /\ Len(freed) = Len(d)
        /\ freed[k] = [offset |-> d[k].offset, size |-> d[k].size, allocated |-> FALSE]
        /\ \A j \in 1..Len(d) : j # k => freed[j] = d[j]
    BY <1>6, FlagWellFormed DEF Allocated, Flagged
  <1> HIDE DEF freed
  <1>8. /\ freed[k] = [offset    |-> b[k].offset,
                       size      |-> n,
                       allocated |-> FALSE]
        /\ ~freed[k].allocated
    <2>1. d[k] = [offset |-> b[k].offset, size |-> n, allocated |-> TRUE]
      BY <1>6 DEF Allocated
    <2>2. d[k].offset = b[k].offset /\ d[k].size = n
      BY <2>1
    <2>3. QED
      BY <1>7, <2>2
  <1>9. \A j \in 1..Len(b) : j < k => d[j] = b[j]
    BY <1>3, <1>5, <1>6 DEF Allocated
  <1>10. ~PrevIsFree(d, k)
    <2>1. SUFFICES ASSUME k > 1 PROVE d[k-1].allocated
      BY DEF PrevIsFree
    <2>2. k - 1 \in 1..Len(b)-1 /\ k - 1 \in 1..Len(b)
            /\ (k - 1) + 1 = k /\ k - 1 < k
      BY <1>3, <1>5, <2>1
    <2>3. b[k-1].allocated
      BY <1>4, <1>5, <2>2
    <2>4. QED
      BY <1>9, <2>2, <2>3
  <1>11. MemFree(d, k) = IF NextIsFree(freed, k) THEN MemMerge(freed, k)
                                                 ELSE freed
    BY <1>10 DEF MemFree, freed
  <1>12. b[k] \in [offset : Nat, size : Nat \ {0}, allocated : BOOLEAN]
         /\ b[k].allocated = FALSE
    BY <1>3, <1>5 DEF Block
  <1>13. CASE n = b[k].size
    <2>1. /\ Len(d) = Len(b)
          /\ \A j \in 1..Len(b) : j # k => d[j] = b[j]
      BY <1>3, <1>5, <1>6, <1>12, <1>13 DEF Allocated
    <2>2. freed[k] = b[k]
      BY <1>8, <1>12, <1>13
    <2>3. freed = b
      <3>1. freed \in Seq(Block) /\ b \in Seq(Block)
        BY <1>3, <1>7 DEF WellFormed
      <3>2. Len(freed) = Len(b)
        BY <1>7, <2>1
      <3>3. \A j \in 1..Len(freed) : freed[j] = b[j]
        BY <1>7, <2>1, <2>2
      <3>4. QED
        BY <3>1, <3>2, <3>3, SeqEqual
    <2>4. ~NextIsFree(b, k)
      BY <1>3, <1>4, <1>5 DEF NextIsFree
    <2>5. QED
      BY <1>11, <2>3, <2>4 DEF d
  <1>14. CASE n < b[k].size
    <2> DEFINE rest == [offset    |-> b[k].offset + n,
                        size      |-> b[k].size - n,
                        allocated |-> FALSE]
               merged == MemMerge(freed, k)
    <2>1. /\ Len(d) = Len(b) + 1 /\ d[k+1] = rest
          /\ \A j \in 1..Len(b) : /\ j < k => d[j] = b[j]
                                  /\ j > k => d[j+1] = b[j]
      BY <1>2, <1>3, <1>5, <1>6, <1>12, <1>14 DEF Allocated
    <2>2. ~rest.allocated /\ rest.size = b[k].size - n
      OBVIOUS
    <2> HIDE DEF rest, merged
    <2>3. k + 1 \in 1..Len(d) /\ k + 1 # k /\ k < Len(freed) /\ k \in 1..Len(freed)
      BY <1>3, <1>5, <1>7, <2>1
    <2>4. freed[k+1] = rest
      BY <1>7, <2>1, <2>3
    <2>5. NextIsFree(freed, k)
      BY <2>2, <2>3, <2>4 DEF NextIsFree
    <2>6. freed \in Seq(Block) /\ Len(freed) = Len(b) + 1
      BY <1>7, <2>1 DEF WellFormed
    <2>7. /\ merged \in Seq(Block) /\ Len(merged) = Len(freed) - 1
          /\ \A j \in 1..Len(freed)-1 :
               merged[j] =
                 IF j < k THEN freed[j]
                 ELSE IF j = k THEN [offset    |-> freed[k].offset,
                                     size      |-> freed[k].size + freed[k+1].size,
                                     allocated |-> freed[k].allocated]
                 ELSE freed[j+1]
      BY <2>3, <2>6, MergeShape DEF merged
    <2>8. Len(merged) = Len(b)
      BY <1>3, <2>6, <2>7
    <2>9. merged[k] = b[k]
      <3>1. k \in 1..Len(freed)-1
        BY <1>3, <1>5, <2>6
      <3>2. merged[k] = [offset    |-> freed[k].offset,
                         size      |-> freed[k].size + freed[k+1].size,
                         allocated |-> freed[k].allocated]
        BY <2>7, <3>1
      <3>3. /\ freed[k].offset = b[k].offset /\ freed[k].size = n
            /\ freed[k].allocated = FALSE
        BY <1>8
      <3>4. n + (b[k].size - n) = b[k].size
        BY <1>2, <1>12
      <3>5. freed[k].size + freed[k+1].size = b[k].size
        BY <2>2, <2>4, <3>3, <3>4
      <3>6. QED
        BY <1>12, <3>2, <3>3, <3>5
    <2>10. ASSUME NEW j \in 1..Len(b)
           PROVE  merged[j] = b[j]
      <3>1. j \in 1..Len(freed)-1
        BY <1>3, <2>6
      <3>2. CASE j < k
        <4>1. merged[j] = freed[j]
          BY <2>7, <3>1, <3>2
        <4>2. freed[j] = d[j] /\ d[j] = b[j]
          BY <1>3, <1>5, <1>7, <2>1, <3>2
        <4>3. QED
          BY <4>1, <4>2
      <3>3. CASE j > k
        <4>1. merged[j] = freed[j+1]
          BY <1>5, <2>7, <3>1, <3>3
        <4>2. j + 1 \in 1..Len(d) /\ j + 1 # k
          BY <1>3, <1>5, <2>1, <3>3
        <4>3. freed[j+1] = d[j+1] /\ d[j+1] = b[j]
          BY <1>7, <2>1, <3>3, <4>2
        <4>4. QED
          BY <4>1, <4>3
      <3>4. QED
        BY <1>5, <2>9, <3>2, <3>3
    <2>11. merged = b
      BY <1>3, <2>7, <2>8, <2>10, SeqEqual
    <2>12. QED
      BY <1>11, <2>5, <2>11 DEF d, merged
  <1>15. QED
    BY <1>2, <1>5, <1>12, <1>13, <1>14 DEF d
-----------------------------------------------------------------------------
(* Blocks in the hands of jobs                                             *)

\* The block that starts at an offset is found by it.
LEMMA BlockAtFacts ==
  ASSUME NEW b, WellFormed(b), NEW i \in 1..Len(b), NEW o, o = b[i].offset
  PROVE  BlockAt(b, o) = i
  <1>1. /\ Ordered(b) /\ Len(b) \in Nat
        /\ \A k \in 1..Len(b) : b[k].offset \in Nat /\ b[k].size \in Nat \ {0}
    BY BlockTypes DEF WellFormed
  <1>2. ASSUME NEW k \in 1..Len(b), b[k].offset = b[i].offset
        PROVE  k = i
    <2>1. ~(k < i) /\ ~(i < k)
      BY <1>1, <1>2 DEF Ordered
    <2>2. QED
      BY <1>1, <2>1
  <1>3. QED
    BY <1>2 DEF BlockAt

\* The jobs in R, and they alone, hold blocks of b: j one of need[j].mbytes units at
\* own[j].block.
Holding(b, R, own, need) ==
  /\ WellFormed(b) /\ Coalesced(b)
  /\ \A r : r \in UsedIntervals(b) <=>
              \E j \in R : r = [offset |-> own[j].block, size |-> need[j].mbytes]
  /\ \A i, j \in R : i # j => own[i].block # own[j].block

\* own and has agree on the blocks of R.
KeepBlocks(R, own, has) == \A i \in R : has[i].block = own[i].block

\* A job that memChk finds room for gets a block of its own.
LEMMA GrantBlock ==
  ASSUME NEW b, NEW R, NEW own, NEW need, Holding(b, R, own, need),
         NEW j, j \notin R, need[j].mbytes \in Nat \ {0}, MemChk(b, need[j].mbytes) # 0,
         NEW has, KeepBlocks(R, own, has),
         has[j].block = b[MemChk(b, need[j].mbytes)].offset
  PROVE  /\ Holding(MemAlloc(b, MemChk(b, need[j].mbytes), need[j].mbytes),
                    R \cup {j}, has, need)
         /\ b[MemChk(b, need[j].mbytes)].offset \in 0..MemSize-1
         /\ need[j].mbytes <= MemSize
         /\ MemAlloc(b, MemChk(b, need[j].mbytes), need[j].mbytes) \in Seq(Block)
  <1> DEFINE n == need[j].mbytes
             k == MemChk(b, n)
             d == MemAlloc(b, k, n)
             S == R \cup {j}
  <1>0. /\ k # 0 /\ has[j].block = b[k].offset /\ \A i : i \in S <=> i \in R \/ i = j
        /\ \A i \in R : has[i].block = own[i].block
    BY DEF KeepBlocks
  <1>1. /\ WellFormed(b) /\ Coalesced(b) /\ b \in Seq(Block) /\ Len(b) \in Nat \ {0}
        /\ \A i \in 1..Len(b) : /\ b[i].offset \in Nat /\ b[i].size \in Nat \ {0}
                                /\ b[i].allocated \in BOOLEAN
    BY BlockTypes DEF Holding
  <1>2. n \in Nat \ {0} /\ k = MemChk(b, n) /\ d = MemAlloc(b, k, n)
    OBVIOUS
  <1> HIDE DEF n, k, d, S
  <1>3. k \in 1..Len(b) /\ ~b[k].allocated /\ b[k].size >= n
    <2>1. /\ MemChk(b, n) \in 0..Len(b)
          /\ MemChk(b, n) # 0 => ~b[MemChk(b, n)].allocated /\ b[MemChk(b, n)].size >= n
      BY <1>1, <1>2, MemChkProperties
    <2>2. MemChk(b, n) # 0 /\ k = MemChk(b, n)
      BY <1>0, <1>2
    <2>3. QED
      BY <1>1, <2>1, <2>2
  <1>4. /\ b[k].offset \in 0..MemSize-1 /\ b[k].offset + b[k].size <= MemSize
        /\ n <= b[k].size
    BY <1>1, <1>2, <1>3, OffsetInMemory
  <1>5. n <= MemSize
    BY <1>1, <1>2, <1>3, <1>4, MemSizeAssumption
  <1>6. Allocated(b, d, k, n)
    BY <1>1, <1>2, <1>3, <1>4, AllocShape
  <1>7. WellFormed(d) /\ Coalesced(d) /\ d \in Seq(Block)
    BY <1>1, <1>2, <1>3, <1>6, AllocCoalesced DEF Allocated, WellFormed
  <1>8. UsedIntervals(d) = UsedIntervals(b) \cup {[offset |-> b[k].offset, size |-> n]}
    BY <1>1, <1>2, <1>3, <1>6, AllocUsed
  <1>9. \A r : r \in UsedIntervals(d) <=>
                 \E i \in S : r = [offset |-> has[i].block, size |-> need[i].mbytes]
    <2>1. [offset |-> b[k].offset, size |-> n] = [offset |-> has[j].block, size |-> need[j].mbytes]
      BY <1>0 DEF n
    <2>2. \A i \in R : [offset |-> has[i].block, size |-> need[i].mbytes]
                         = [offset |-> own[i].block, size |-> need[i].mbytes]
      BY <1>0
    <2>3. QED
      BY <1>0, <1>8, <2>1, <2>2 DEF Holding
  <1>10. ASSUME NEW i \in R PROVE own[i].block # b[k].offset
    <2>1. [offset |-> own[i].block, size |-> need[i].mbytes] \in UsedIntervals(b)
      BY <1>10 DEF Holding
    <2>2. PICK l \in 1..Len(b) :
            b[l].allocated /\ [offset |-> own[i].block, size |-> need[i].mbytes] = Interval(b, l)
      BY <2>1, UsedIntervalsMembers
    <2>3. own[i].block = b[l].offset
      BY <2>2 DEF Interval
    <2>4. l # k
      BY <1>3, <2>2
    <2>5. BlockAt(b, b[l].offset) = l /\ BlockAt(b, b[k].offset) = k
      BY <1>1, <1>3, BlockAtFacts
    <2>6. QED
      BY <2>3, <2>4, <2>5
  <1>11. \A i, l \in S : i # l => has[i].block # has[l].block
    BY <1>0, <1>10 DEF Holding
  <1>12. Holding(d, S, has, need)
    BY <1>7, <1>9, <1>11 DEF Holding
  <1>13. QED
    BY <1>4, <1>5, <1>7, <1>12 DEF n, k, d, S

\* A job that gives its block back leaves the others theirs.
LEMMA ReturnBlock ==
  ASSUME NEW b, NEW R, NEW own, NEW need, Holding(b, R, own, need),
         NEW j, j \in R, NEW has, KeepBlocks(R \ {j}, own, has)
  PROVE  /\ Holding(MemFree(b, BlockAt(b, own[j].block)), R \ {j}, has, need)
         /\ MemFree(b, BlockAt(b, own[j].block)) \in Seq(Block)
  <1> DEFINE d == MemFree(b, BlockAt(b, own[j].block))
             S == R \ {j}
  <1>0. /\ \A i : i \in S <=> i \in R /\ i # j
        /\ \A i \in R : i # j => has[i].block = own[i].block
        /\ d = MemFree(b, BlockAt(b, own[j].block))
    BY DEF KeepBlocks
  <1> HIDE DEF d, S
  <1>1. WellFormed(b) /\ Coalesced(b)
    BY DEF Holding
  <1> DEFINE mine == [offset |-> own[j].block, size |-> need[j].mbytes]
  <1>2. mine \in UsedIntervals(b)
    BY DEF Holding
  <1>3. PICK l \in 1..Len(b) : b[l].allocated /\ mine = Interval(b, l)
    BY <1>2, UsedIntervalsMembers
  <1>4. own[j].block = b[l].offset
    BY <1>3 DEF Interval
  <1>5. BlockAt(b, own[j].block) = l
    BY <1>1, <1>4, BlockAtFacts
  <1>6. /\ WellFormed(d) /\ Coalesced(d)
        /\ UsedIntervals(d) = UsedIntervals(b) \ {mine}
    BY <1>0, <1>1, <1>3, <1>5, FreeFacts
  <1>7. ASSUME NEW i \in R
        PROVE  [offset |-> own[i].block, size |-> need[i].mbytes] = mine <=> i = j
    BY <1>7 DEF Holding
  <1>8. \A r : r \in UsedIntervals(d) <=>
                 \E i \in S : r = [offset |-> has[i].block, size |-> need[i].mbytes]
    <2>1. \A i \in S : [offset |-> has[i].block, size |-> need[i].mbytes]
                         = [offset |-> own[i].block, size |-> need[i].mbytes]
      BY <1>0
    <2>2. \A r : r \in UsedIntervals(d) <=>
              r # mine /\ \E i \in R : r = [offset |-> own[i].block, size |-> need[i].mbytes]
      BY <1>6 DEF Holding
    <2> HIDE DEF mine
    <2>3. QED
      BY <1>0, <1>7, <2>1, <2>2
  <1>9. \A i, m \in S : i # m => has[i].block # has[m].block
    BY <1>0 DEF Holding
  <1>10. QED
    BY <1>6, <1>8, <1>9 DEF Holding, WellFormed, d, S

\* With nobody in memory a request is granted exactly if the memory is large enough.
LEMMA EmptyMemory ==
  ASSUME NEW b, NEW R, NEW own, NEW need, Holding(b, R, own, need), R = {},
         NEW n, n \in Nat \ {0}
  PROVE  MemChk(b, n) # 0 <=> n <= MemSize
  <1>1. /\ WellFormed(b) /\ Coalesced(b) /\ b \in Seq(Block) /\ Len(b) \in Nat \ {0}
        /\ \A i \in 1..Len(b) : /\ b[i].offset \in Nat /\ b[i].size \in Nat \ {0}
                                /\ b[i].allocated \in BOOLEAN
    BY BlockTypes DEF Holding
  <1>2. \A i \in 1..Len(b) : ~b[i].allocated
    BY UsedIntervalsMembers DEF Holding
  <1>3. Len(b) = 1
    <2>1. Len(b) \in Nat \ {0}
      BY <1>1
    <2>2. ASSUME Len(b) > 1 PROVE FALSE
      <3>1. 1 \in 1..Len(b)-1 /\ 1 \in 1..Len(b) /\ 1 + 1 \in 1..Len(b)
        BY <2>1, <2>2
      <3>2. b[1].allocated \/ b[1+1].allocated
        BY <1>1, <3>1 DEF Coalesced
      <3>3. QED
        BY <1>2, <3>1, <3>2
    <2>3. ~(Len(b) > 1)
      BY <2>2
    <2> DEFINE l == Len(b)
    <2>4. l \in Nat \ {0} /\ ~(l > 1)
      BY <2>1, <2>3
    <2> HIDE DEF l
    <2>5. l = 1
      BY <2>4
    <2>6. QED
      BY <2>5 DEF l
  <1>4. b[1].size = MemSize
    BY <1>1, <1>3, MemSizeAssumption DEF WellFormed, Tiles
  <1>5. /\ MemChk(b, n) \in 0..Len(b)
        /\ MemChk(b, n) = 0 =>
             \A k \in 1..Len(b) : b[k].allocated \/ b[k].size < n
        /\ MemChk(b, n) # 0 =>
             /\ ~b[MemChk(b, n)].allocated
             /\ b[MemChk(b, n)].size >= n
    BY <1>1, MemChkProperties
  <1>6. CASE MemChk(b, n) = 0
    <2>1. b[1].size < n
      BY <1>2, <1>3, <1>5, <1>6
    <2>2. QED
      BY <1>4, <1>6, <2>1, MemSizeAssumption
  <1>7. CASE MemChk(b, n) # 0
    <2>1. MemChk(b, n) = 1
      BY <1>3, <1>5, <1>7
    <2>2. QED
      BY <1>4, <1>5, <1>7, <2>1, MemSizeAssumption
  <1>8. QED
    BY <1>6, <1>7
-----------------------------------------------------------------------------
(* Queues without repetition                                               *)

NoRepeats(s) == \A i, k \in 1..Len(s) : s[i] = s[k] => i = k

\* What it means to be in a queue.
LEMMA InQueue ==
  ASSUME NEW T, NEW s, s \in Seq(T)
  PROVE  /\ \A x : x \in ToSet(s) <=> \E i \in 1..Len(s) : s[i] = x
         /\ ToSet(s) \subseteq T
         /\ s = << >> <=> \A x : x \notin ToSet(s)
  <1>1. /\ Len(s) \in Nat /\ DOMAIN s = 1..Len(s)
        /\ \A i \in 1..Len(s) : s[i] \in T
    BY LenProperties
  <1>2. \A x : x \in ToSet(s) <=> \E i \in 1..Len(s) : s[i] = x
    BY <1>1 DEF ToSet
  <1>3. ToSet(s) \subseteq T
    BY <1>1, <1>2
  <1>4. s = << >> => \A x : x \notin ToSet(s)
    <2>1. s = << >> => Len(s) = 0
      BY EmptySeq
    <2>2. QED
      BY <1>2, <2>1
  <1>5. s # << >> => \E x : x \in ToSet(s)
    <2>1. s # << >> => Len(s) \in Nat \ {0}
      BY EmptySeq
    <2>2. s # << >> => 1 \in 1..Len(s)
      BY <2>1
    <2>3. QED
      BY <1>2, <2>2
  <1>6. QED
    BY <1>2, <1>3, <1>4, <1>5

\* deqPcb: the head leaves the queue.
LEMMA HeadLeaves ==
  ASSUME NEW T, NEW s, s \in Seq(T), s # << >>, NoRepeats(s)
  PROVE  /\ Head(s) \in T /\ Head(s) \in ToSet(s)
         /\ Tail(s) \in Seq(T) /\ NoRepeats(Tail(s))
         /\ \A x : x \in ToSet(Tail(s)) <=> x \in ToSet(s) /\ x # Head(s)
  <1> DEFINE h == Head(s)
             t == Tail(s)
  <1>1. /\ h \in T /\ t \in Seq(T) /\ Len(t) = Len(s) - 1 /\ Len(s) \in Nat \ {0}
        /\ \A i \in 1..Len(t) : t[i] = s[i+1]
    BY HeadTailProperties, EmptySeq
  <1>2. h = s[1]
    OBVIOUS
  <1> HIDE DEF h, t
  <1>3. /\ \A x : x \in ToSet(s) <=> \E i \in 1..Len(s) : s[i] = x
        /\ \A x : x \in ToSet(t) <=> \E i \in 1..Len(t) : t[i] = x
    <2>1. \A x : x \in ToSet(s) <=> \E i \in 1..Len(s) : s[i] = x
      BY InQueue
    <2>2. t \in Seq(T)
      BY <1>1
    <2>3. \A x : x \in ToSet(t) <=> \E i \in 1..Len(t) : t[i] = x
      BY <2>2, InQueue
    <2>4. QED
      BY <2>1, <2>3
  <1>4. NoRepeats(t)
    <2>1. ASSUME NEW i \in 1..Len(t), NEW k \in 1..Len(t), t[i] = t[k]
          PROVE  i = k
      <3>1. i + 1 \in 1..Len(s) /\ k + 1 \in 1..Len(s)
        BY <1>1
      <3>2. s[i+1] = s[k+1]
        BY <1>1, <2>1
      <3>3. i + 1 = k + 1
        BY <3>1, <3>2 DEF NoRepeats
      <3>4. QED
        BY <3>1, <3>3
    <2>2. QED
      BY <2>1 DEF NoRepeats
  <1>5. ASSUME NEW x
        PROVE  x \in ToSet(t) <=> x \in ToSet(s) /\ x # h
    <2>1. ASSUME x \in ToSet(t) PROVE x \in ToSet(s) /\ x # h
      <3>1. PICK i \in 1..Len(t) : t[i] = x
        BY <1>3, <2>1
      <3>2. i + 1 \in 1..Len(s) /\ 1 \in 1..Len(s) /\ i + 1 # 1 /\ s[i+1] = x
        BY <1>1, <3>1
      <3>3. s[i+1] # s[1]
        BY <3>2 DEF NoRepeats
      <3>4. QED
        BY <1>2, <1>3, <3>2, <3>3
    <2>2. ASSUME x \in ToSet(s), x # h PROVE x \in ToSet(t)
      <3>1. PICK i \in 1..Len(s) : s[i] = x
        BY <1>3, <2>2
      <3>2. i # 1
        BY <1>2, <2>2, <3>1
      <3>3. i - 1 \in 1..Len(t) /\ (i - 1) + 1 = i
        BY <1>1, <3>2
      <3>4. t[i-1] = x
        BY <1>1, <3>1, <3>3
      <3>5. QED
        BY <1>3, <3>3, <3>4
    <2>3. QED
      BY <2>1, <2>2
  <1>6. 1 \in 1..Len(s)
    BY <1>1
  <1>7. h \in ToSet(s)
    BY <1>2, <1>6, <1>3
  <1>8. QED
    BY <1>1, <1>4, <1>5, <1>7 DEF h, t

\* Joining two queues that share nobody.
LEMMA QueuesJoin ==
  ASSUME NEW T, NEW s, s \in Seq(T), NoRepeats(s), NEW t, t \in Seq(T), NoRepeats(t),
         \A x : ~(x \in ToSet(s) /\ x \in ToSet(t))
  PROVE  /\ s \o t \in Seq(T) /\ NoRepeats(s \o t)
         /\ \A x : x \in ToSet(s \o t) <=> x \in ToSet(s) \/ x \in ToSet(t)
  <1> DEFINE u == s \o t
  <1>1. /\ u \in Seq(T) /\ Len(u) = Len(s) + Len(t) /\ Len(s) \in Nat /\ Len(t) \in Nat
        /\ \A i \in 1..Len(s)+Len(t) : u[i] = IF i <= Len(s) THEN s[i] ELSE t[i-Len(s)]
    BY ConcatProperties, LenProperties
  <1> HIDE DEF u
  <1>2. \A i \in 1..Len(s) : i \in 1..Len(u) /\ u[i] = s[i]
    BY <1>1
  <1>3. \A i \in 1..Len(t) : Len(s) + i \in 1..Len(u) /\ u[Len(s)+i] = t[i]
    <2>1. SUFFICES ASSUME NEW i \in 1..Len(t)
                   PROVE  Len(s) + i \in 1..Len(u) /\ u[Len(s)+i] = t[i]
      OBVIOUS
    <2>2. /\ Len(s) + i \in 1..Len(u) /\ Len(s) + i \in 1..Len(s)+Len(t)
          /\ ~(Len(s) + i <= Len(s)) /\ (Len(s) + i) - Len(s) = i
      BY <1>1
    <2>3. QED
      BY <1>1, <2>2
  <1>4. ASSUME NEW i \in 1..Len(u)
        PROVE  \/ i \in 1..Len(s) /\ u[i] = s[i]
               \/ i - Len(s) \in 1..Len(t) /\ u[i] = t[i-Len(s)]
    BY <1>1
  <1>5. ASSUME NEW x
        PROVE  x \in ToSet(u) <=> x \in ToSet(s) \/ x \in ToSet(t)
    <2>1. x \in ToSet(s) <=> \E i \in 1..Len(s) : s[i] = x
      BY InQueue
    <2>2. x \in ToSet(t) <=> \E i \in 1..Len(t) : t[i] = x
      BY InQueue
    <2>3. x \in ToSet(u) <=> \E i \in 1..Len(u) : u[i] = x
      <3>1. u \in Seq(T)
        BY <1>1
      <3>2. QED
        BY <3>1, InQueue
    <2>4. QED
      BY <1>2, <1>3, <1>4, <2>1, <2>2, <2>3
  <1>6. ASSUME NEW i \in 1..Len(u), NEW k \in 1..Len(u), u[i] = u[k]
        PROVE  i = k
    <2>1. CASE i \in 1..Len(s) /\ k \in 1..Len(s)
      BY <1>2, <1>6, <2>1 DEF NoRepeats
    <2>2. CASE i - Len(s) \in 1..Len(t) /\ k - Len(s) \in 1..Len(t)
      <3>1. t[i-Len(s)] = t[k-Len(s)]
        <4>1. u[i] = t[i-Len(s)] /\ u[k] = t[k-Len(s)]
          BY <1>1, <2>2
        <4>2. QED
          BY <1>6, <4>1
      <3>2. i - Len(s) = k - Len(s)
        BY <2>2, <3>1 DEF NoRepeats
      <3>3. QED
        BY <1>1, <3>2
    <2>3. ASSUME NEW l \in 1..Len(s), NEW m \in 1..Len(t), s[l] = t[m] PROVE FALSE
      <3>1. s[l] \in ToSet(s) /\ t[m] \in ToSet(t)
        BY InQueue
      <3>2. QED
        BY <2>3, <3>1
    <2>4. QED
      BY <1>4, <1>6, <2>1, <2>2, <2>3
  <1>7. QED
    BY <1>1, <1>5, <1>6 DEF NoRepeats, u

\* A queue of one
LEMMA OneInQueue ==
  ASSUME NEW T, NEW e, e \in T
  PROVE  /\ << e >> \in Seq(T) /\ NoRepeats(<< e >>)
         /\ \A x : x \in ToSet(<< e >>) <=> x = e
  <1>1. << e >> \in Seq(T) /\ Len(<< e >>) = 1 /\ << e >>[1] = e
    OBVIOUS
  <1> DEFINE s == << e >>
  <1> HIDE DEF s
  <1>2. \A i \in 1..Len(s) : i = 1
    BY <1>1 DEF s
  <1>3. 1 \in 1..Len(s) /\ s[1] = e
    BY <1>1 DEF s
  <1>4. \A x : x \in ToSet(s) <=> \E i \in 1..Len(s) : s[i] = x
    BY <1>1, InQueue DEF s
  <1>5. \A x : x \in ToSet(s) <=> x = e
    BY <1>2, <1>3, <1>4
  <1>6. NoRepeats(s)
    BY <1>2 DEF NoRepeats
  <1>7. QED
    BY <1>1, <1>5, <1>6 DEF s

\* enqPcb: the job joins the queue at the end.
LEMMA JoinsAtEnd ==
  ASSUME NEW T, NEW s, s \in Seq(T), NoRepeats(s), NEW e, e \in T, e \notin ToSet(s)
  PROVE  /\ Append(s, e) \in Seq(T) /\ NoRepeats(Append(s, e))
         /\ \A x : x \in ToSet(Append(s, e)) <=> x \in ToSet(s) \/ x = e
  <1> DEFINE u == Append(s, e)
  <1>1. u = s \o << e >>
    BY AppendIsConcat
  <1> HIDE DEF u
  <1>2. /\ << e >> \in Seq(T) /\ NoRepeats(<< e >>)
        /\ \A x : x \in ToSet(<< e >>) <=> x = e
    BY OneInQueue
  <1>3. \A x : ~(x \in ToSet(s) /\ x \in ToSet(<< e >>))
    BY <1>2
  <1>4. /\ u \in Seq(T) /\ NoRepeats(u)
        /\ \A x : x \in ToSet(u) <=> x \in ToSet(s) \/ x \in ToSet(<< e >>)
    BY <1>1, <1>2, <1>3, QueuesJoin
  <1>5. QED
    BY <1>2, <1>4 DEF u

\* A preempted job goes to the front.
LEMMA JoinsAtFront ==
  ASSUME NEW T, NEW s, s \in Seq(T), NoRepeats(s), NEW e, e \in T, e \notin ToSet(s)
  PROVE  /\ Cons(e, s) \in Seq(T) /\ NoRepeats(Cons(e, s))
         /\ \A x : x \in ToSet(Cons(e, s)) <=> x \in ToSet(s) \/ x = e
  <1> DEFINE u == Cons(e, s)
  <1>1. u = << e >> \o s
    BY DEF Cons
  <1> HIDE DEF u
  <1>2. /\ << e >> \in Seq(T) /\ NoRepeats(<< e >>)
        /\ \A x : x \in ToSet(<< e >>) <=> x = e
    BY OneInQueue
  <1>3. \A x : ~(x \in ToSet(<< e >>) /\ x \in ToSet(s))
    BY <1>2
  <1>4. /\ u \in Seq(T) /\ NoRepeats(u)
        /\ \A x : x \in ToSet(u) <=> x \in ToSet(<< e >>) \/ x \in ToSet(s)
    BY <1>1, <1>2, <1>3, QueuesJoin
  <1>5. QED
    BY <1>2, <1>4 DEF u

\* A job is taken out of the middle.
LEMMA OneLeaves ==
  ASSUME NEW T, NEW s, s \in Seq(T), NoRepeats(s), NEW i, i \in 1..Len(s)
  PROVE  /\ RemoveAt(s, i) \in Seq(T) /\ NoRepeats(RemoveAt(s, i))
         /\ \A x : x \in ToSet(RemoveAt(s, i)) <=> x \in ToSet(s) /\ x # s[i]
  <1> DEFINE u == RemoveAt(s, i)
  <1>1. /\ u \in Seq(T) /\ Len(u) = Len(s) - 1 /\ Len(s) \in Nat
        /\ \A k \in 1..Len(s)-1 : u[k] = IF k < i THEN s[k] ELSE s[k+1]
    BY RemoveAtProperties, LenProperties
  <1> HIDE DEF u
  <1>2. ASSUME NEW k \in 1..Len(u)
        PROVE  /\ k < i => k \in 1..Len(s) /\ u[k] = s[k]
               /\ k >= i => k + 1 \in 1..Len(s) /\ u[k] = s[k+1]
    BY <1>1
  <1>3. ASSUME NEW k \in 1..Len(s), k # i
        PROVE  \E l \in 1..Len(u) : u[l] = s[k]
    <2>1. CASE k < i
      <3>1. k \in 1..Len(u)
        BY <1>1, <2>1
      <3>2. QED
        BY <1>2, <2>1, <3>1
    <2>2. CASE k > i
      <3>1. k - 1 \in 1..Len(u) /\ k - 1 >= i /\ (k - 1) + 1 = k
        BY <1>1, <2>2
      <3>2. u[k-1] = s[k]
        BY <1>2, <3>1
      <3>3. QED
        BY <3>1, <3>2
    <2>3. QED
      BY <1>1, <1>3, <2>1, <2>2
  <1>4. ASSUME NEW x
        PROVE  x \in ToSet(u) <=> x \in ToSet(s) /\ x # s[i]
    <2>1. /\ x \in ToSet(u) <=> \E k \in 1..Len(u) : u[k] = x
          /\ x \in ToSet(s) <=> \E k \in 1..Len(s) : s[k] = x
      BY <1>1, InQueue
    <2>2. ASSUME NEW k \in 1..Len(u)
          PROVE  \E l \in 1..Len(s) : l # i /\ s[l] = u[k]
      <3>1. CASE k < i
        BY <1>2, <3>1
      <3>2. CASE k >= i
        <4>1. k + 1 \in 1..Len(s) /\ u[k] = s[k+1] /\ k + 1 # i
          BY <1>1, <1>2, <3>2
        <4>2. QED
          BY <4>1
      <3>3. QED
        BY <1>1, <3>1, <3>2
    <2>3. ASSUME NEW l \in 1..Len(s), l # i PROVE s[l] # s[i]
      BY <2>3 DEF NoRepeats
    <2>4. ASSUME x \in ToSet(u) PROVE x \in ToSet(s) /\ x # s[i]
      <3>1. PICK k \in 1..Len(u) : u[k] = x
        BY <2>1, <2>4
      <3>2. PICK l \in 1..Len(s) : l # i /\ s[l] = u[k]
        BY <2>2
      <3>3. QED
        BY <2>1, <2>3, <3>1, <3>2
    <2>5. ASSUME x \in ToSet(s), x # s[i] PROVE x \in ToSet(u)
      <3>1. PICK k \in 1..Len(s) : s[k] = x
        BY <2>1, <2>5
      <3>2. k # i
        BY <2>5, <3>1
      <3>3. QED
        BY <1>3, <2>1, <3>1, <3>2
    <2>6. QED
      BY <2>4, <2>5
  <1>5. ASSUME NEW k \in 1..Len(u), NEW l \in 1..Len(u), u[k] = u[l]
        PROVE  k = l
    <2>1. CASE k < i /\ l < i
      <3>1. k \in 1..Len(s) /\ u[k] = s[k] /\ l \in 1..Len(s) /\ u[l] = s[l]
        BY <1>2, <2>1
      <3>2. QED
        BY <1>5, <3>1 DEF NoRepeats
    <2>2. CASE k >= i /\ l >= i
      <3>1. k + 1 \in 1..Len(s) /\ u[k] = s[k+1] /\ l + 1 \in 1..Len(s) /\ u[l] = s[l+1]
        BY <1>2, <2>2
      <3>2. k + 1 = l + 1
        BY <1>5, <3>1 DEF NoRepeats
      <3>3. QED
        BY <3>2
    <2>3. CASE k < i /\ l >= i
      <3>1. k \in 1..Len(s) /\ u[k] = s[k] /\ l + 1 \in 1..Len(s) /\ u[l] = s[l+1]
        BY <1>2, <2>3
      <3>2. k = l + 1
        BY <1>5, <3>1 DEF NoRepeats
      <3>3. QED
        BY <1>1, <2>3, <3>2
    <2>4. CASE k >= i /\ l < i
      <3>1. k + 1 \in 1..Len(s) /\ u[k] = s[k+1] /\ l \in 1..Len(s) /\ u[l] = s[l]
        BY <1>2, <2>4
      <3>2. k + 1 = l
        BY <1>5, <3>1 DEF NoRepeats
      <3>3. QED
        BY <1>1, <2>4, <3>2
    <2>5. QED
      BY <1>1, <2>1, <2>2, <2>3, <2>4
  <1>6. QED
    BY <1>1, <1>4, <1>5 DEF NoRepeats, u

=============================================================================
