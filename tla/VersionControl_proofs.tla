------------------------ MODULE VersionControl_proofs ------------------------
(***************************************************************************)
(* Theorems about VersionControl for any paths, contents, hash parts,      *)
(* branch names and messages and any bounds.                               *)
(***************************************************************************)
EXTENDS VersionControl, FiniteSetTheorems, SequenceTheorems, WellFoundedInduction, TLAPS

-----------------------------------------------------------------------------
(* The inductive invariant                                                 *)

Bases == { Base[p] : p \in Paths }
Dirs == UNION { [D -> Contents] : D \in SUBSET Bases }

CommitRecord == [id : (Messages \cup Names) \X SUBSET ({"added", "removed", "modified"} \X Paths),
                 dir : Dirs,
                 parents : Seq(Nat),
                 added : Seq(Entry), removed : Seq(Entry),
                 modified : Seq(Entry), tracked : Seq(Entry)]

BranchRecord == [name : Names, files : Seq(Entry), hist : Seq(Nat), n : Nat]

Sane == {"sound", "strayed"}

\* No entry is tracked and removed at once.
Settled(es) == \A i \in 1 .. Len(es) : ~(es[i].added /\ es[i].removed)

Owned(es, b) == \A i \in 1 .. Len(es) : es[i].own = b

\* The array of a history, with what a reset has left behind its end, is a chain of
\* first parents.
ChainOf(h, cs) ==
  /\ \A k \in 1 .. Len(h) : h[k] \in 1 .. Len(cs)
  /\ \A k \in 2 .. Len(h) : cs[h[k]].parents[1] = h[k - 1]

\* What the branch b takes for committed is in its last commit.
Agrees(b, cs) ==
  \A i \in 1 .. Len(b.files) :
    b.files[i].added /\ ~b.files[i].staged =>
      b.n > 0 /\ b.files[i].name \in Tracked(cs[b.hist[b.n]])

\* The copies of a commit, whoever owns the names of its entries.
Complete(c) ==
  \A i \in 1 .. Len(Saved(c)) :
    /\ Base[Saved(c)[i].name] \in DOMAIN c.dir
    /\ Alone(c, Saved(c)[i]) =>
         \E x \in Meant(Saved(c)[i]) : c.dir[Base[Saved(c)[i].name]] = CopyOf[x]

\* A branch b at place i, with the commits cs and in health h
BranchSound(b, i, cs, h) ==
  /\ b \in BranchRecord
  /\ Settled(b.files) /\ Owned(b.files, i)
  /\ ChainOf(b.hist, cs)
  /\ h # "undefined" => b.n <= Len(b.hist)
  /\ h \in Sane => Distinct(b.files)
  /\ h = "sound" => Agrees(b, cs)

\* A commit c; what it removed is not tracked.
CommitSound(c, h) ==
  /\ c \in CommitRecord
  /\ Settled(Saved(c)) /\ \A i \in 1 .. Len(c.removed) : ~c.removed[i].added
  /\ h \in Sane => Complete(c)

Invariant ==
  /\ work \in [Paths -> Contents \cup {Gone}]
  /\ health \in Sane \cup {"confused", "undefined", "exited"}
  /\ branches \in Seq(BranchRecord) /\ current \in 1 .. Len(branches)
  /\ commits \in Seq(CommitRecord)
  /\ \A i \in 1 .. Len(branches) : BranchSound(branches[i], i, commits, health)
  /\ \A k \in 1 .. Len(commits) : CommitSound(commits[k], health)
  /\ \A i, j \in 1 .. Len(branches) : branches[i].name = branches[j].name => i = j
  /\ health # "undefined" /\ Len(branches) > 1 =>
       \A i \in 1 .. Len(branches) : branches[i].n > 0

-----------------------------------------------------------------------------
(* Numbers and lists                                                       *)

\* Every nonempty set of naturals has a least element.
LEMMA LeastOf ==
  ASSUME NEW I, I \subseteq Nat, I # {}
  PROVE  \E least \in I : \A x \in I : least <= x
  <1> DEFINE R == OpToRel(<, Nat)
  <1>1. IsWellFoundedOn(R, Nat)
    BY NatLessThanWellFounded
  <1>2. R = { ss \in Nat \X Nat : ss[1] < ss[2] }
    BY DEF OpToRel
  <1> HIDE DEF R
  <1>3. PICK least \in I : \A y \in I : ~(<< y, least >> \in R)
    BY <1>1, WFMin
  <1>4. ASSUME NEW y \in I PROVE least <= y
    <2>1. << y, least >> \in Nat \X Nat
      OBVIOUS
    <2>2. ~(y < least)
      BY <1>2, <1>3, <2>1
    <2>3. QED
      BY <2>2
  <1>5. QED
    BY <1>4

\* Max picks the greatest element of a nonempty set of naturals that has a bound.
LEMMA GreatestOf ==
  ASSUME NEW n \in Nat, NEW S, S \subseteq 0 .. n, S # {}
  PROVE  Max(S) \in S /\ \A x \in S : x <= Max(S)
  <1> DEFINE I == { n - x : x \in S }
  <1>1. ASSUME NEW x \in S PROVE n - x \in Nat /\ x \in Int
    OBVIOUS
  <1>2. I \subseteq Nat /\ I # {}
    BY <1>1
  <1>3. PICK least \in I : \A y \in I : least <= y
    <2> HIDE DEF I
    <2>1. QED
      BY <1>2, LeastOf
  <1>4. PICK m \in S : least = n - m
    BY <1>3
  <1>5. ASSUME NEW x \in S PROVE m >= x
    <2>1. n - m <= n - x
      BY <1>3, <1>4
    <2>2. QED
      BY <1>1, <2>1
  <1>6. QED
    BY <1>5 DEF Max

\* The members of a concatenation
LEMMA ConcatMembers ==
  ASSUME NEW E, NEW s \in Seq(E), NEW t \in Seq(E)
  PROVE  /\ s \o t \in Seq(E) /\ Len(s \o t) = Len(s) + Len(t)
         /\ \A i \in 1 .. Len(s) : (s \o t)[i] = s[i]
         /\ \A i \in 1 .. Len(t) : (s \o t)[Len(s) + i] = t[i]
         /\ \A i \in 1 .. Len(s \o t) :
              \/ i \in 1 .. Len(s) /\ (s \o t)[i] = s[i]
              \/ i - Len(s) \in 1 .. Len(t) /\ (s \o t)[i] = t[i - Len(s)]
  BY ConcatProperties, LenProperties

\* The k-th element of a set of numbers, counted from the smallest
Rank(T, i) == Cardinality({ j \in T : j <= i })
Nth(T, k)  == CHOOSE i : i \in { x \in T : Rank(T, x) = k }

LEMMA NthOfMore ==
  ASSUME NEW n \in Nat, NEW T, T \subseteq 1 .. n, NEW m \in 1 .. n, \A x \in T : x < m
  PROVE  /\ Cardinality(T) \in Nat /\ Cardinality(T \cup {m}) = Cardinality(T) + 1
         /\ \A k \in 1 .. Cardinality(T) : Nth(T \cup {m}, k) = Nth(T, k)
         /\ Nth(T \cup {m}, Cardinality(T) + 1) = m
  <1> DEFINE U == T \cup {m}
  <1>1. IsFiniteSet(T) /\ Cardinality(T) \in Nat
    <2>1. IsFiniteSet(1 .. n)
      BY FS_Interval
    <2>2. QED
      BY <2>1, FS_Subset, FS_CardinalityType
  <1>2. Cardinality(U) = Cardinality(T) + 1 /\ IsFiniteSet(U)
    <2>1. m \notin T
      OBVIOUS
    <2>2. QED
      BY <1>1, <2>1, FS_AddElement
  <1>3. ASSUME NEW x \in T PROVE Rank(U, x) = Rank(T, x) /\ Rank(T, x) <= Cardinality(T)
    <2>1. { j \in U : j <= x } = { j \in T : j <= x }
      OBVIOUS
    <2>2. Cardinality({ j \in T : j <= x }) <= Cardinality(T)
      BY <1>1, FS_Subset
    <2>3. QED
      BY <2>1, <2>2 DEF Rank
  <1>4. Rank(U, m) = Cardinality(T) + 1
    <2>1. \A j \in U : j <= m
      OBVIOUS
    <2>2. { j \in U : j <= m } = U
      BY <2>1
    <2>3. QED
      BY <1>2, <2>2 DEF Rank
  <1>5. ASSUME NEW k \in 1 .. Cardinality(T) PROVE Nth(U, k) = Nth(T, k)
    <2>1. Rank(U, m) # k
      BY <1>1, <1>4
    <2>2. { x \in U : Rank(U, x) = k } = { x \in T : Rank(T, x) = k }
      BY <1>3, <2>1
    <2>3. QED
      BY <2>2 DEF Nth
  <1>6. Nth(U, Cardinality(T) + 1) = m
    <2>1. \A x \in T : Rank(T, x) # Cardinality(T) + 1
      BY <1>1, <1>3
    <2>2. \A x \in T : Rank(U, x) # Cardinality(T) + 1
      BY <1>3, <2>1
    <2>3. { x \in U : Rank(U, x) = Cardinality(T) + 1 } = {m}
      BY <1>4, <2>2
    <2>4. QED
      BY <2>3 DEF Nth
  <1>7. QED
    BY <1>1, <1>2, <1>5, <1>6

\* What Picked has picked after it has been through the positions s
PickedFrom(es, S, s) ==
  [k \in 1 .. Cardinality({ i \in s : es[i] \in S }) |-> es[Nth({ i \in s : es[i] \in S }, k)]]

LEMMA PickedOneMore ==
  ASSUME NEW E, NEW es \in Seq(E), NEW S, NEW s \in SUBSET (1 .. Len(es)), s # {}
  PROVE  /\ Max(s) \in s /\ \A x \in s : x <= Max(s)
         /\ es[Max(s)] \in S =>
              PickedFrom(es, S, s) = Append(PickedFrom(es, S, s \ {Max(s)}), es[Max(s)])
         /\ es[Max(s)] \notin S => PickedFrom(es, S, s) = PickedFrom(es, S, s \ {Max(s)})
  <1>1. Len(es) \in Nat /\ s \subseteq 0 .. Len(es) /\ \A i \in 1 .. Len(es) : es[i] \in E
    BY LenProperties
  <1>2. Max(s) \in s /\ \A x \in s : x <= Max(s)
    BY <1>1, GreatestOf
  <1>3. PICK m : m = Max(s)
    OBVIOUS
  <1> DEFINE T == { i \in s \ {m} : es[i] \in S }
             W == { i \in s : es[i] \in S }
  <1>4. /\ T \subseteq 1 .. Len(es) /\ m \in 1 .. Len(es) /\ m \in s
        /\ \A x \in T : x < m
    <2>1. T \subseteq s /\ T \subseteq 1 .. Len(es) /\ m \in s /\ m \notin T
      BY <1>2, <1>3
    <2>2. m \in 1 .. Len(es) /\ \A x \in s : x \in Int
      BY <1>1, <2>1
    <2>3. ASSUME NEW x \in T PROVE x < m
      <3>1. x \in s /\ x <= m /\ x # m
        BY <1>2, <1>3, <2>1
      <3>2. QED
        BY <2>2, <3>1
    <2>4. QED
      BY <2>1, <2>2, <2>3
  <1>5. /\ Cardinality(T) \in Nat /\ Cardinality(T \cup {m}) = Cardinality(T) + 1
        /\ \A k \in 1 .. Cardinality(T) : Nth(T \cup {m}, k) = Nth(T, k)
        /\ Nth(T \cup {m}, Cardinality(T) + 1) = m
    <2> HIDE DEF T
    <2>1. QED
      BY <1>1, <1>4, NthOfMore
  <1>6. CASE es[m] \in S
    <2>1. W = T \cup {m}
      BY <1>4, <1>6
    <2>2. /\ PickedFrom(es, S, s) = [k \in 1 .. Cardinality(W) |-> es[Nth(W, k)]]
          /\ PickedFrom(es, S, s \ {m}) = [k \in 1 .. Cardinality(T) |-> es[Nth(T, k)]]
      BY DEF PickedFrom
    <2> HIDE DEF T, W
    <2>3. PICK c \in Nat : c = Cardinality(T)
      BY <1>5
    <2>4. /\ Cardinality(W) = c + 1 /\ Nth(W, c + 1) = m
          /\ \A k \in 1 .. c : Nth(W, k) = Nth(T, k)
      BY <1>5, <2>1, <2>3
    <2>5. PICK f : f = [k \in 1 .. c |-> es[Nth(T, k)]]
      OBVIOUS
    <2>6. Len(f) = c /\ Append(f, es[m]) = [k \in 1 .. c + 1 |-> IF k = c + 1 THEN es[m] ELSE f[k]]
      BY <2>3, <2>5
    <2>7. [k \in 1 .. c + 1 |-> es[Nth(W, k)]]
            = [k \in 1 .. c + 1 |-> IF k = c + 1 THEN es[m] ELSE f[k]]
      BY <2>4, <2>5
    <2>8. QED
      BY <1>2, <1>3, <1>6, <2>2, <2>3, <2>4, <2>5, <2>6, <2>7
  <1>7. CASE es[m] \notin S
    <2>1. W = T
      BY <1>7
    <2>2. PickedFrom(es, S, s) = PickedFrom(es, S, s \ {m})
      BY <2>1 DEF PickedFrom
    <2>3. QED
      BY <1>2, <1>3, <1>7, <2>2
  <1>8. QED
    BY <1>6, <1>7

\* Picked comes to the same.
LEMMA PickedIsFrom ==
  ASSUME NEW E, NEW es \in Seq(E), NEW S
  PROVE  \E it : /\ it[{}] = << >> /\ Picked(es, S) = it[1 .. Len(es)]
                 /\ \A n \in 1 .. Len(es) :
                      it[1 .. n] = IF es[n] \in S THEN Append(it[1 .. n - 1], es[n])
                                   ELSE it[1 .. n - 1]
  <1> DEFINE Goes(it) == it = [s \in SUBSET (1 .. Len(es)) |->
               IF s = {} THEN << >>
               ELSE IF es[Max(s)] \in S THEN Append(it[s \ {Max(s)}], es[Max(s)])
                    ELSE it[s \ {Max(s)}]]
             picked == CHOOSE it : Goes(it)
  <1>1. Len(es) \in Nat /\ DOMAIN es = 1 .. Len(es)
    BY LenProperties
  <1>2. Picked(es, S) = picked[1 .. Len(es)]
    BY <1>1 DEF Picked, FoldLeft, MapThenFoldSet
  <1>3. Goes(picked)
    <2> DEFINE it == [s \in SUBSET (1 .. Len(es)) |-> PickedFrom(es, S, s)]
    <2>1. PickedFrom(es, S, {}) = << >>
      <3>1. { i \in {} : es[i] \in S } = {}
        OBVIOUS
      <3>2. Cardinality({}) = 0
        BY FS_EmptySet
      <3>3. QED
        BY <3>1, <3>2 DEF PickedFrom
    <2>2. ASSUME NEW s \in SUBSET (1 .. Len(es)), s # {}
          PROVE  /\ s \ {Max(s)} \in SUBSET (1 .. Len(es))
                 /\ PickedFrom(es, S, s) =
                      IF es[Max(s)] \in S
                      THEN Append(PickedFrom(es, S, s \ {Max(s)}), es[Max(s)])
                      ELSE PickedFrom(es, S, s \ {Max(s)})
      <3>1. s \subseteq 1 .. Len(es)
        OBVIOUS
      <3>2. /\ Max(s) \in s
            /\ PickedFrom(es, S, s) =
                 IF es[Max(s)] \in S
                 THEN Append(PickedFrom(es, S, s \ {Max(s)}), es[Max(s)])
                 ELSE PickedFrom(es, S, s \ {Max(s)})
        <4>1. Max(s) \in s
          BY <2>2, <3>1, PickedOneMore
        <4>2. es[Max(s)] \in S =>
                   PickedFrom(es, S, s) = Append(PickedFrom(es, S, s \ {Max(s)}), es[Max(s)])
          BY <2>2, <3>1, PickedOneMore
        <4>3. es[Max(s)] \notin S =>
                   PickedFrom(es, S, s) = PickedFrom(es, S, s \ {Max(s)})
          BY <2>2, <3>1, PickedOneMore
        <4>4. QED
          BY <4>1, <4>2, <4>3
      <3>3. s \ {Max(s)} \in SUBSET (1 .. Len(es))
        BY <3>1
      <3>4. QED
        BY <3>2, <3>3
    <2>3. Goes(it)
      BY <2>1, <2>2
    <2> HIDE DEF it, Goes
    <2>4. QED
      BY <2>3
  <1> HIDE DEF picked
  <1>4. picked[{}] = << >>
    BY <1>3
  <1>5. ASSUME NEW n \in 1 .. Len(es)
        PROVE  picked[1 .. n] = IF es[n] \in S THEN Append(picked[1 .. n - 1], es[n])
                                ELSE picked[1 .. n - 1]
    <2>1. 1 .. n \subseteq 0 .. n /\ n \in 1 .. n /\ n \in Nat /\ 1 .. n \subseteq 1 .. Len(es)
      BY <1>1
    <2>2. Max(1 .. n) \in 1 .. n /\ n <= Max(1 .. n)
      BY <2>1, GreatestOf
    <2>3. Max(1 .. n) = n /\ (1 .. n) \ {n} = 1 .. n - 1 /\ 1 .. n # {}
      BY <2>1, <2>2
    <2>4. QED
      BY <1>3, <2>1, <2>3
  <1>6. QED
    BY <1>2, <1>4, <1>5

\* The elements of Picked are those of the list that are in the set.
LEMMA PickedFacts ==
  ASSUME NEW E, NEW es \in Seq(E), NEW S
  PROVE  /\ Picked(es, S) \in Seq(E)
         /\ \A i \in 1 .. Len(Picked(es, S)) :
              Picked(es, S)[i] \in S /\ \E j \in 1 .. Len(es) : es[j] = Picked(es, S)[i]
         /\ \A j \in 1 .. Len(es) :
              es[j] \in S => \E i \in 1 .. Len(Picked(es, S)) : Picked(es, S)[i] = es[j]
  <1>1. PICK it : /\ it[{}] = << >> /\ Picked(es, S) = it[1 .. Len(es)]
                  /\ \A n \in 1 .. Len(es) :
                       it[1 .. n] = IF es[n] \in S THEN Append(it[1 .. n - 1], es[n])
                                    ELSE it[1 .. n - 1]
    BY PickedIsFrom
  <1> DEFINE Good(n) ==
        /\ it[1 .. n] \in Seq(E)
        /\ \A i \in 1 .. Len(it[1 .. n]) :
             it[1 .. n][i] \in S /\ \E j \in 1 .. n : es[j] = it[1 .. n][i]
        /\ \A j \in 1 .. n : es[j] \in S => \E i \in 1 .. Len(it[1 .. n]) : it[1 .. n][i] = es[j]
  <1>2. Len(es) \in Nat /\ \A n \in 1 .. Len(es) : es[n] \in E
    BY LenProperties
  <1>3. Good(0)
    <2>1. 1 .. 0 = {} /\ << >> \in Seq(E) /\ Len(<< >>) = 0
      OBVIOUS
    <2>2. QED
      BY <1>1, <2>1
  <1>4. ASSUME NEW n \in 1 .. Len(es), Good(n - 1) PROVE Good(n)
    <2>1. PICK old : old = it[1 .. n - 1]
      OBVIOUS
    <2>2. PICK new : new = it[1 .. n]
      OBVIOUS
    <2>3. /\ old \in Seq(E) /\ n \in Nat /\ n - 1 \in Nat
          /\ \A i \in 1 .. Len(old) : old[i] \in S /\ \E j \in 1 .. n - 1 : es[j] = old[i]
          /\ \A j \in 1 .. n - 1 : es[j] \in S => \E i \in 1 .. Len(old) : old[i] = es[j]
      BY <1>2, <1>4, <2>1
    <2>4. new = IF es[n] \in S THEN Append(old, es[n]) ELSE old
      BY <1>1, <2>1, <2>2
    <2>5. CASE es[n] \in S
      <3>1. /\ new \in Seq(E) /\ Len(new) = Len(old) + 1 /\ Len(old) \in Nat
            /\ new[Len(old) + 1] = es[n] /\ \A i \in 1 .. Len(old) : new[i] = old[i]
        <4>1. new = Append(old, es[n]) /\ es[n] \in E
          BY <1>2, <2>4, <2>5
        <4>2. QED
          BY <2>3, <4>1, AppendProperties, LenProperties
      <3>2. ASSUME NEW i \in 1 .. Len(new)
            PROVE  new[i] \in S /\ \E j \in 1 .. n : es[j] = new[i]
        <4>1. i \in 1 .. Len(old) \/ i = Len(old) + 1
          BY <3>1
        <4>2. CASE i \in 1 .. Len(old)
          <5>1. PICK j \in 1 .. n - 1 : es[j] = old[i]
            BY <2>3, <4>2
          <5>2. j \in 1 .. n
            BY <2>3
          <5>3. QED
            BY <2>3, <3>1, <4>2, <5>1, <5>2
        <4>3. CASE i = Len(old) + 1
          BY <2>3, <2>5, <3>1, <4>3
        <4>4. QED
          BY <4>1, <4>2, <4>3
      <3>3. ASSUME NEW j \in 1 .. n, es[j] \in S PROVE \E i \in 1 .. Len(new) : new[i] = es[j]
        <4>1. j \in 1 .. n - 1 \/ j = n
          BY <2>3
        <4>2. CASE j \in 1 .. n - 1
          <5>1. PICK i \in 1 .. Len(old) : old[i] = es[j]
            BY <2>3, <3>3, <4>2
          <5>2. i \in 1 .. Len(new)
            BY <3>1
          <5>3. QED
            BY <3>1, <5>1, <5>2
        <4>3. CASE j = n
          <5>1. Len(old) + 1 \in 1 .. Len(new)
            BY <3>1
          <5>2. QED
            BY <3>1, <4>3, <5>1
        <4>4. QED
          BY <4>1, <4>2, <4>3
      <3>4. QED
        BY <2>2, <3>1, <3>2, <3>3
    <2>6. CASE es[n] \notin S
      <3>1. new = old
        BY <2>4, <2>6
      <3>2. \A i \in 1 .. Len(old) : \E j \in 1 .. n : es[j] = old[i]
        <4>1. 1 .. n - 1 \subseteq 1 .. n
          BY <2>3
        <4>2. QED
          BY <2>3, <4>1
      <3>3. ASSUME NEW j \in 1 .. n, es[j] \in S PROVE \E i \in 1 .. Len(old) : old[i] = es[j]
        <4>1. j \in 1 .. n - 1
          BY <2>3, <2>6, <3>3
        <4>2. QED
          BY <2>3, <3>3, <4>1
      <3>4. QED
        BY <2>2, <2>3, <3>1, <3>2, <3>3
    <2>7. QED
      BY <2>5, <2>6
  <1>5. \A n \in 0 .. Len(es) : Good(n)
    <2> HIDE DEF Good
    <2> SUFFICES ASSUME { n \in 0 .. Len(es) : ~Good(n) } # {} PROVE FALSE
      OBVIOUS
    <2>1. PICK n \in { m \in 0 .. Len(es) : ~Good(m) } :
            \A m \in { k \in 0 .. Len(es) : ~Good(k) } : n <= m
      <3>1. { m \in 0 .. Len(es) : ~Good(m) } \subseteq Nat
        BY <1>2
      <3>2. QED
        BY <3>1, LeastOf
    <2>2. n \in 0 .. Len(es) /\ ~Good(n) /\ n # 0
      BY <1>3, <2>1
    <2>3. n \in 1 .. Len(es) /\ n - 1 \in 0 .. Len(es) /\ ~(n <= n - 1)
      BY <1>2, <2>2
    <2>4. Good(n - 1)
      BY <2>1, <2>3
    <2>5. QED
      BY <1>4, <2>2, <2>3, <2>4
  <1>6. Good(Len(es))
    <2> HIDE DEF Good
    <2>1. QED
      BY <1>2, <1>5
  <1>7. QED
    BY <1>1, <1>6

-----------------------------------------------------------------------------
(* Entries and their lists                                                 *)

Works == [Paths -> Contents \cup {Gone}]
Kinds == {"added", "removed", "modified", "tracked"}

\* Flags sets the flags and keeps the rest.
LEMMA FlagsFacts ==
  ASSUME NEW f \in Entry, NEW a \in BOOLEAN, NEW s \in BOOLEAN, NEW r \in BOOLEAN
  PROVE  /\ Flags(f, a, s, r) \in Entry
         /\ Flags(f, a, s, r).name = f.name /\ Flags(f, a, s, r).own = f.own
         /\ Flags(f, a, s, r).hash = f.hash
         /\ Flags(f, a, s, r).added = a /\ Flags(f, a, s, r).staged = s
         /\ Flags(f, a, s, r).removed = r
  BY DEF Flags, Entry

\* The hash of a file is the sum of the two parts, unless there is no file.
LEMMA HashFacts ==
  ASSUME NEW w \in Works, NEW p \in Paths
  PROVE  /\ Hash(w, p) \in Int
         /\ w[p] # Gone => w[p] \in Contents /\ Hash(w, p) = NameSum[p] + ContentSum[w[p]]
  BY SumsAssumption DEF Works, Hash

\* What a commit does with an entry: a tracked one is there and recorded with the hash of
\* the content, a removed one is no longer tracked.
LEMMA RecordedFacts ==
  ASSUME NEW w \in Works, NEW f \in Entry, ~(f.added /\ f.removed)
  PROVE  /\ Recorded(w, f) \in Entry
         /\ Recorded(w, f).name = f.name /\ Recorded(w, f).own = f.own
         /\ ~(Recorded(w, f).added /\ Recorded(w, f).removed)
         /\ Change(w, f) \in {"added", "modified", "tracked"} =>
              /\ w[f.name] # Gone
              /\ Recorded(w, f).hash = Hash(w, f.name)
         /\ Change(w, f) = "removed" => ~Recorded(w, f).added
         /\ Recorded(w, f).added => Change(w, f) \in {"added", "modified", "tracked"}
         /\ Change(w, f) = "tracked" => f.added /\ ~f.staged
         /\ f.added /\ w[f.name] # Gone => Recorded(w, f).added
  <1>1. /\ f.name \in Paths /\ Hash(w, f.name) \in Int
        /\ f.added \in BOOLEAN /\ f.staged \in BOOLEAN /\ f.removed \in BOOLEAN
    BY HashFacts DEF Entry
  <1>2. CASE w[f.name] = Gone /\ ~f.staged /\ f.added
    <2>1. Change(w, f) = "removed"
      BY <1>2 DEF Change
    <2>2. QED
      BY <1>1, <1>2, <2>1 DEF Recorded, Flags, Entry
  <1>3. CASE w[f.name] = Gone /\ ~(~f.staged /\ f.added)
    <2>1. Change(w, f) = "forgotten"
      BY <1>3 DEF Change
    <2>2. QED
      BY <1>1, <1>3, <2>1 DEF Recorded, Flags, Entry
  <1>4. CASE w[f.name] # Gone /\ f.added /\ f.staged
    <2>1. Change(w, f) = "added"
      BY <1>4 DEF Change
    <2>2. QED
      BY <1>1, <1>4, <2>1 DEF Recorded, Entry
  <1>5. CASE w[f.name] # Gone /\ f.added /\ ~f.staged /\ Hash(w, f.name) # f.hash
    <2>1. Change(w, f) = "modified"
      BY <1>5 DEF Change
    <2>2. QED
      BY <1>1, <1>5, <2>1 DEF Recorded, Entry
  <1>6. CASE w[f.name] # Gone /\ f.added /\ ~f.staged /\ Hash(w, f.name) = f.hash
    <2>1. Change(w, f) = "tracked"
      BY <1>6 DEF Change
    <2>2. QED
      BY <1>1, <1>6, <2>1 DEF Recorded, Entry
  <1>7. CASE w[f.name] # Gone /\ ~f.added /\ f.removed
    <2>1. Change(w, f) = "removed"
      BY <1>7 DEF Change
    <2>2. QED
      BY <1>1, <1>7, <2>1 DEF Recorded, Flags, Entry
  <1>8. CASE w[f.name] # Gone /\ ~f.added /\ ~f.removed
    <2>1. Change(w, f) = "none"
      BY <1>8 DEF Change
    <2>2. QED
      BY <1>1, <1>8, <2>1 DEF Recorded, Entry
  <1>9. QED
    BY <1>1, <1>2, <1>3, <1>4, <1>5, <1>6, <1>7, <1>8

\* svc_add and svc_rm on a listed entry, and the resolution of an entry
LEMMA ReAddFacts ==
  ASSUME work \in Works, NEW f \in Entry, ~(f.added /\ f.removed)
  PROVE  /\ ReAdd(f) \in Entry /\ ReAdd(f).name = f.name /\ ReAdd(f).own = f.own
         /\ ~(ReAdd(f).added /\ ReAdd(f).removed)
         /\ ReAdd(f).added /\ ~ReAdd(f).staged => f.added /\ ~f.staged
  <1>1. f.name \in Paths /\ Hash(work, f.name) \in Int
    BY HashFacts DEF Entry
  <1>2. QED
    BY <1>1 DEF ReAdd, Flags, Entry

LEMMA UntrackedFacts ==
  ASSUME NEW f \in Entry, ~(f.added /\ f.removed)
  PROVE  /\ Untracked(f) \in Entry /\ Untracked(f).name = f.name /\ Untracked(f).own = f.own
         /\ ~(Untracked(f).added /\ Untracked(f).removed)
         /\ Untracked(f).added /\ ~Untracked(f).staged => f.added /\ ~f.staged
  BY DEF Untracked, Flags, Entry

\* What an operation on each entry of a list leaves of the list
LEMMA MappedList ==
  ASSUME NEW fs \in Seq(Entry), NEW gs \in [1 .. Len(fs) -> Entry], Settled(fs),
         \A i \in 1 .. Len(fs) :
           gs[i].name = fs[i].name /\ ~(gs[i].added /\ gs[i].removed)
  PROVE  /\ gs \in Seq(Entry) /\ Len(gs) = Len(fs) /\ Settled(gs)
         /\ Distinct(fs) => Distinct(gs)
         /\ \A b : (\A i \in 1 .. Len(fs) : gs[i].own = b) => Owned(gs, b)
  <1>1. Len(fs) \in Nat /\ DOMAIN fs = 1 .. Len(fs) /\ DOMAIN gs = 1 .. Len(fs)
    BY LenProperties
  <1>2. gs \in Seq(Entry) /\ Len(gs) = Len(fs)
    <2>1. QED
      BY <1>1, SeqDef, LenProperties
  <1>3. Settled(gs)
    BY <1>2 DEF Settled
  <1>4. Distinct(fs) => Distinct(gs)
    BY <1>1 DEF Distinct
  <1>5. ASSUME NEW b, \A i \in 1 .. Len(fs) : gs[i].own = b PROVE Owned(gs, b)
    BY <1>2, <1>5 DEF Owned
  <1>6. QED
    BY <1>2, <1>3, <1>4, <1>5

-----------------------------------------------------------------------------
(* The members of lists, and a new commit                                  *)

Has(es, e) == \E i \in 1 .. Len(es) : es[i] = e

LEMMA HasConcat ==
  ASSUME NEW E, NEW s \in Seq(E), NEW t \in Seq(E), NEW e
  PROVE  s \o t \in Seq(E) /\ (Has(s \o t, e) <=> Has(s, e) \/ Has(t, e))
  <1>1. /\ s \o t \in Seq(E) /\ Len(s \o t) = Len(s) + Len(t) /\ Len(s) \in Nat /\ Len(t) \in Nat
        /\ \A i \in 1 .. Len(s) : (s \o t)[i] = s[i]
        /\ \A i \in 1 .. Len(t) : (s \o t)[Len(s) + i] = t[i]
        /\ \A i \in 1 .. Len(s \o t) :
              \/ i \in 1 .. Len(s) /\ (s \o t)[i] = s[i]
              \/ i - Len(s) \in 1 .. Len(t) /\ (s \o t)[i] = t[i - Len(s)]
    BY ConcatMembers, LenProperties
  <1>2. ASSUME Has(s \o t, e) PROVE Has(s, e) \/ Has(t, e)
    BY <1>1, <1>2 DEF Has
  <1>3. ASSUME Has(s, e) PROVE Has(s \o t, e)
    <2>1. PICK i \in 1 .. Len(s) : s[i] = e
      BY <1>3 DEF Has
    <2>2. i \in 1 .. Len(s \o t) /\ (s \o t)[i] = e
      BY <1>1, <2>1
    <2>3. QED
      BY <2>2 DEF Has
  <1>4. ASSUME Has(t, e) PROVE Has(s \o t, e)
    <2>1. PICK i \in 1 .. Len(t) : t[i] = e
      BY <1>4 DEF Has
    <2>2. Len(s) + i \in 1 .. Len(s \o t) /\ (s \o t)[Len(s) + i] = e
      BY <1>1, <2>1
    <2>3. QED
      BY <2>2 DEF Has
  <1>5. QED
    BY <1>1, <1>2, <1>3, <1>4

\* The files that a commit tracks are those it added, modified and left.
LEMMA SavedFacts ==
  ASSUME NEW c, c.added \in Seq(Entry), c.modified \in Seq(Entry), c.tracked \in Seq(Entry)
  PROVE  /\ Saved(c) \in Seq(Entry) /\ DOMAIN Saved(c) = 1 .. Len(Saved(c))
         /\ \A e : Has(Saved(c), e) <=> Has(c.added, e) \/ Has(c.modified, e) \/ Has(c.tracked, e)
         /\ \A p : p \in Tracked(c) <=> \E e : Has(Saved(c), e) /\ e.name = p
  <1>1. PICK s \in Seq(Entry) : s = c.added \o c.modified
    BY ConcatMembers
  <1>2. ASSUME NEW e PROVE Has(s, e) <=> Has(c.added, e) \/ Has(c.modified, e)
    BY <1>1, HasConcat
  <1>3. Saved(c) = s \o c.tracked
    BY <1>1 DEF Saved
  <1>4. PICK t : t = s \o c.tracked
    OBVIOUS
  <1>5. t \in Seq(Entry)
    BY <1>4, ConcatMembers
  <1>6. ASSUME NEW e PROVE Has(t, e) <=> Has(s, e) \/ Has(c.tracked, e)
    BY <1>4, HasConcat
  <1>7. DOMAIN t = 1 .. Len(t)
    BY <1>5, LenProperties
  <1>8. ASSUME NEW p PROVE p \in Tracked(c) <=> \E e : Has(t, e) /\ e.name = p
    BY <1>3, <1>4, <1>7 DEF Tracked, Has
  <1>9. QED
    BY <1>2, <1>3, <1>4, <1>5, <1>6, <1>7, <1>8

\* A list of a commit consists of the recorded entries of its kind.
LEMMA ChangedFacts ==
  ASSUME NEW w \in Works, NEW fs \in Seq(Entry), Settled(fs), NEW kind
  PROVE  /\ Changed(w, fs, kind) \in Seq(Entry)
         /\ \A e : Has(Changed(w, fs, kind), e) <=>
                     \E j \in 1 .. Len(fs) : Change(w, fs[j]) = kind /\ e = Recorded(w, fs[j])
  <1> DEFINE K == {f \in ToSet(fs) : Change(w, f) = kind}
  <1>1. PICK picked : picked = Picked(fs, K)
    OBVIOUS
  <1>2. /\ DOMAIN fs = 1 .. Len(fs)
        /\ \A j \in 1 .. Len(fs) : /\ fs[j] \in Entry /\ ~(fs[j].added /\ fs[j].removed)
                                   /\ fs[j] \in ToSet(fs)
    BY LenProperties DEF Settled, ToSet
  <1>3. /\ picked \in Seq(Entry)
        /\ \A i \in 1 .. Len(picked) :
             picked[i] \in K /\ \E j \in 1 .. Len(fs) : fs[j] = picked[i]
        /\ \A j \in 1 .. Len(fs) : fs[j] \in K => \E i \in 1 .. Len(picked) : picked[i] = fs[j]
    <2> HIDE DEF K
    <2>1. QED
      BY <1>1, PickedFacts
  <1>4. PICK out : out = [i \in 1 .. Len(picked) |-> Recorded(w, picked[i])]
    OBVIOUS
  <1>5. Changed(w, fs, kind) = out
    <2>1. DOMAIN picked = 1 .. Len(picked)
      BY <1>3, LenProperties
    <2>2. QED
      BY <1>1, <1>4, <2>1 DEF Changed
  <1>6. ASSUME NEW i \in 1 .. Len(picked)
        PROVE  \E j \in 1 .. Len(fs) : /\ Change(w, fs[j]) = kind /\ out[i] = Recorded(w, fs[j])
                                       /\ out[i] \in Entry
    <2>1. PICK j \in 1 .. Len(fs) : fs[j] = picked[i]
      BY <1>3
    <2>2. Change(w, fs[j]) = kind
      BY <1>3, <2>1
    <2>3. out[i] = Recorded(w, fs[j])
      BY <1>4, <2>1
    <2>4. Recorded(w, fs[j]) \in Entry
      BY <1>2, RecordedFacts
    <2>5. QED
      BY <2>2, <2>3, <2>4
  <1>7. out \in Seq(Entry) /\ Len(out) = Len(picked)
    <2>1. Len(picked) \in Nat /\ out \in [1 .. Len(picked) -> Entry]
      BY <1>3, <1>4, <1>6, LenProperties
    <2>2. QED
      BY <2>1, SeqDef, LenProperties
  <1>8. ASSUME NEW j \in 1 .. Len(fs), Change(w, fs[j]) = kind
        PROVE  \E i \in 1 .. Len(out) : out[i] = Recorded(w, fs[j])
    <2>1. fs[j] \in K
      BY <1>2, <1>8
    <2>2. PICK i \in 1 .. Len(picked) : picked[i] = fs[j]
      BY <1>3, <2>1
    <2>3. QED
      BY <1>4, <1>7, <2>2
  <1>9. ASSUME NEW e, Has(out, e)
        PROVE  \E j \in 1 .. Len(fs) : Change(w, fs[j]) = kind /\ e = Recorded(w, fs[j])
    <2>1. PICK i \in 1 .. Len(picked) : out[i] = e
      BY <1>7, <1>9 DEF Has
    <2>2. QED
      BY <1>6, <2>1
  <1>10. ASSUME NEW e, NEW j \in 1 .. Len(fs), Change(w, fs[j]) = kind, e = Recorded(w, fs[j])
         PROVE  Has(out, e)
    BY <1>8, <1>10 DEF Has
  <1>11. QED
    BY <1>5, <1>7, <1>9, <1>10

\* Every file that a commit tracks has a copy, made of a tracked file with its base name.
LEMMA CopiesFacts ==
  ASSUME NEW w \in Works, NEW c,
         c.added \in Seq(Entry), c.modified \in Seq(Entry), c.tracked \in Seq(Entry),
         \A e : Has(Saved(c), e) => w[e.name] # Gone
  PROVE  /\ Copies(w, c) \in Dirs
         /\ \A e : Has(Saved(c), e) =>
              /\ Base[e.name] \in DOMAIN Copies(w, c)
              /\ \E g : /\ Has(Saved(c), g) /\ Base[g.name] = Base[e.name]
                        /\ Copies(w, c)[Base[e.name]] = CopyOf[w[g.name]]
  <1>1. PICK s \in Seq(Entry) : s = c.tracked \o c.added
    BY ConcatMembers
  <1>2. PICK order : order = s \o c.modified
    OBVIOUS
  <1>3. order \in Seq(Entry)
    BY <1>2, ConcatMembers
  <1>4. ASSUME NEW e PROVE Has(order, e) <=> Has(Saved(c), e)
    <2>1. Has(s, e) <=> Has(c.tracked, e) \/ Has(c.added, e)
      BY <1>1, HasConcat
    <2>2. Has(order, e) <=> Has(s, e) \/ Has(c.modified, e)
      BY <1>2, HasConcat
    <2>3. QED
      BY <2>1, <2>2, SavedFacts
  <1>5. /\ Len(order) \in Nat /\ DOMAIN order = 1 .. Len(order)
        /\ \A i \in 1 .. Len(order) : order[i] \in Entry /\ Has(order, order[i])
    BY <1>3, LenProperties DEF Has
  <1> DEFINE At(n) == {i \in DOMAIN order : Base[order[i].name] = n}
             Used == {Base[order[i].name] : i \in DOMAIN order}
  <1>6. Copies(w, c) = [n \in Used |-> CopyOf[w[order[Max(At(n))].name]]]
    BY <1>1, <1>2 DEF Copies
  <1>7. ASSUME NEW n \in Used
        PROVE  /\ Max(At(n)) \in 1 .. Len(order) /\ Base[order[Max(At(n))].name] = n
               /\ CopyOf[w[order[Max(At(n))].name]] \in Contents /\ n \in Bases
    <2>1. PICK i \in 1 .. Len(order) : Base[order[i].name] = n
      BY <1>5
    <2>2. At(n) \subseteq 0 .. Len(order) /\ At(n) # {}
      BY <1>5, <2>1
    <2>3. Max(At(n)) \in At(n)
      <3> HIDE DEF At
      <3>1. QED
        BY <1>5, <2>2, GreatestOf
    <2>4. PICK m \in 1 .. Len(order) : m = Max(At(n)) /\ Base[order[m].name] = n
      BY <1>5, <2>3
    <2>5. order[m] \in Entry /\ order[m].name \in Paths /\ w[order[m].name] # Gone
      BY <1>4, <1>5 DEF Entry
    <2>6. CopyOf[w[order[m].name]] \in Contents
      <3>1. w[order[m].name] \in Contents
        BY <2>5, HashFacts
      <3>2. QED
        BY <3>1, CopyAssumption
    <2>7. QED
      BY <2>4, <2>5, <2>6 DEF Bases
  <1>8. Copies(w, c) \in [Used -> Contents] /\ Used \in SUBSET Bases
    <2> HIDE DEF Used, At
    <2>1. QED
      BY <1>6, <1>7
  <1>9. ASSUME NEW e, Has(Saved(c), e)
        PROVE  /\ Base[e.name] \in Used
               /\ \E g : /\ Has(Saved(c), g) /\ Base[g.name] = Base[e.name]
                         /\ Copies(w, c)[Base[e.name]] = CopyOf[w[g.name]]
    <2>1. PICK i \in 1 .. Len(order) : order[i] = e
      BY <1>4, <1>9 DEF Has
    <2>2. PICK n \in Used : n = Base[e.name]
      BY <1>5, <2>1
    <2>3. PICK m \in 1 .. Len(order) : m = Max(At(n)) /\ Base[order[m].name] = n
      BY <1>7
    <2>4. Copies(w, c)[n] = CopyOf[w[order[m].name]]
      BY <1>6, <2>3
    <2>5. Has(Saved(c), order[m])
      BY <1>4, <1>5
    <2>6. QED
      BY <2>2, <2>3, <2>4, <2>5
  <1>10. DOMAIN Copies(w, c) = Used
    BY <1>6
  <1>11. Copies(w, c) \in Dirs
    <2> HIDE DEF Used, At
    <2>1. QED
      BY <1>8 DEF Dirs
  <1>12. QED
    <2> HIDE DEF Used, At
    <2>1. QED
      BY <1>9, <1>10, <1>11

\* A new commit is sound, and tracks the entries that stay tracked.
LEMMA NewCommitFacts ==
  ASSUME NEW m \in Messages \cup Names, NEW w \in Works, NEW fs \in Seq(Entry), Settled(fs),
         NEW ps \in Seq(Nat), NEW h
  PROVE  /\ CommitSound(NewCommit(m, w, fs, ps), h) /\ NewCommit(m, w, fs, ps).parents = ps
         /\ \A j \in 1 .. Len(fs) :
              Recorded(w, fs[j]).added => fs[j].name \in Tracked(NewCommit(m, w, fs, ps))
  <1> DEFINE lists == [kind \in {"added", "removed", "modified", "tracked"} |-> Changed(w, fs, kind)]
             c == NewCommit(m, w, fs, ps)
  <1>1. /\ lists.added = Changed(w, fs, "added") /\ lists.removed = Changed(w, fs, "removed")
        /\ lists.modified = Changed(w, fs, "modified")
        /\ lists.tracked = Changed(w, fs, "tracked")
    OBVIOUS
  <1>2. c = [id |-> CommitId(m, lists), dir |-> Copies(w, lists), parents |-> ps,
             added |-> lists.added, removed |-> lists.removed,
             modified |-> lists.modified, tracked |-> lists.tracked]
    BY DEF NewCommit
  <1>3. /\ c.id = CommitId(m, lists) /\ c.dir = Copies(w, lists) /\ c.parents = ps
        /\ c.added = lists.added /\ c.removed = lists.removed
        /\ c.modified = lists.modified /\ c.tracked = lists.tracked
    <2> HIDE DEF c, lists
    <2>1. QED
      BY <1>2
  <1>4. ASSUME NEW kind \in Kinds
        PROVE  /\ lists[kind] \in Seq(Entry)
               /\ \A e : Has(lists[kind], e) <=>
                     \E j \in 1 .. Len(fs) : Change(w, fs[j]) = kind /\ e = Recorded(w, fs[j])
    <2>1. lists[kind] = Changed(w, fs, kind)
      BY DEF Kinds
    <2> HIDE DEF lists
    <2>2. QED
      BY <2>1, ChangedFacts
  <1>5. /\ c.added \in Seq(Entry) /\ c.removed \in Seq(Entry)
        /\ c.modified \in Seq(Entry) /\ c.tracked \in Seq(Entry)
    <2> HIDE DEF c, lists
    <2>1. lists.added \in Seq(Entry) /\ lists.removed \in Seq(Entry)
          /\ lists.modified \in Seq(Entry) /\ lists.tracked \in Seq(Entry)
      BY <1>4 DEF Kinds
    <2>2. QED
      BY <1>3, <2>1
  <1>6. ASSUME NEW e
        PROVE  /\ Has(c.added, e) <=> \E j \in 1 .. Len(fs) :
                     Change(w, fs[j]) = "added" /\ e = Recorded(w, fs[j])
               /\ Has(c.modified, e) <=> \E j \in 1 .. Len(fs) :
                     Change(w, fs[j]) = "modified" /\ e = Recorded(w, fs[j])
               /\ Has(c.tracked, e) <=> \E j \in 1 .. Len(fs) :
                     Change(w, fs[j]) = "tracked" /\ e = Recorded(w, fs[j])
               /\ Has(c.removed, e) <=> \E j \in 1 .. Len(fs) :
                     Change(w, fs[j]) = "removed" /\ e = Recorded(w, fs[j])
    <2> HIDE DEF c, lists
    <2>1. Has(c.added, e) <=> \E j \in 1 .. Len(fs) :
            Change(w, fs[j]) = "added" /\ e = Recorded(w, fs[j])
      <3>1. c.added = Changed(w, fs, "added")
        BY <1>1, <1>3
      <3>2. QED
        BY <3>1, ChangedFacts
    <2>2. Has(c.modified, e) <=> \E j \in 1 .. Len(fs) :
            Change(w, fs[j]) = "modified" /\ e = Recorded(w, fs[j])
      <3>1. c.modified = Changed(w, fs, "modified")
        BY <1>1, <1>3
      <3>2. QED
        BY <3>1, ChangedFacts
    <2>3. Has(c.tracked, e) <=> \E j \in 1 .. Len(fs) :
            Change(w, fs[j]) = "tracked" /\ e = Recorded(w, fs[j])
      <3>1. c.tracked = Changed(w, fs, "tracked")
        BY <1>1, <1>3
      <3>2. QED
        BY <3>1, ChangedFacts
    <2>4. Has(c.removed, e) <=> \E j \in 1 .. Len(fs) :
            Change(w, fs[j]) = "removed" /\ e = Recorded(w, fs[j])
      <3>1. c.removed = Changed(w, fs, "removed")
        BY <1>1, <1>3
      <3>2. QED
        BY <3>1, ChangedFacts
    <2>5. QED
      BY <2>1, <2>2, <2>3, <2>4
  <1> HIDE DEF c, lists
  <1>7. ASSUME NEW j \in 1 .. Len(fs)
        PROVE  fs[j] \in Entry /\ fs[j].name \in Paths /\ ~(fs[j].added /\ fs[j].removed)
    <2>1. fs[j] \in Entry
      BY LenProperties
    <2>2. ~(fs[j].added /\ fs[j].removed)
      BY DEF Settled
    <2>3. QED
      BY <2>1, <2>2 DEF Entry
  <1>8. ASSUME NEW e, Has(Saved(c), e)
        PROVE  \E j \in 1 .. Len(fs) : /\ Change(w, fs[j]) \in {"added", "modified", "tracked"}
                                       /\ e = Recorded(w, fs[j])
    <2>1. Has(c.added, e) \/ Has(c.modified, e) \/ Has(c.tracked, e)
      BY <1>5, <1>8, SavedFacts
    <2>2. QED
      BY <1>6, <2>1
  <1>9. ASSUME NEW e, Has(Saved(c), e)
        PROVE  /\ e \in Entry /\ e.name \in Paths /\ w[e.name] # Gone /\ e.hash = Hash(w, e.name)
               /\ ~(e.added /\ e.removed)
    <2>1. PICK j \in 1 .. Len(fs) : /\ Change(w, fs[j]) \in {"added", "modified", "tracked"}
                                    /\ e = Recorded(w, fs[j])
      BY <1>8, <1>9
    <2>2. QED
      BY <1>7, <2>1, RecordedFacts
  <1>10. /\ c.dir \in Dirs
         /\ \A e : Has(Saved(c), e) =>
              /\ Base[e.name] \in DOMAIN c.dir
              /\ \E g : /\ Has(Saved(c), g) /\ Base[g.name] = Base[e.name]
                        /\ c.dir[Base[e.name]] = CopyOf[w[g.name]]
    <2>1. Saved(c) = Saved(lists)
      BY <1>3 DEF Saved
    <2>2. lists.added \in Seq(Entry) /\ lists.modified \in Seq(Entry) /\ lists.tracked \in Seq(Entry)
      BY <1>3, <1>5
    <2>3. \A e : Has(Saved(lists), e) => w[e.name] # Gone
      BY <1>9, <2>1
    <2>4. Copies(w, lists) \in Dirs
      BY <2>2, <2>3, CopiesFacts
    <2>5. \A e : Has(Saved(lists), e) =>
              /\ Base[e.name] \in DOMAIN Copies(w, lists)
              /\ \E g : /\ Has(Saved(lists), g) /\ Base[g.name] = Base[e.name]
                        /\ Copies(w, lists)[Base[e.name]] = CopyOf[w[g.name]]
      BY <2>2, <2>3, CopiesFacts
    <2>6. QED
      BY <1>3, <2>1, <2>4, <2>5
  <1>11. c \in CommitRecord
    <2>1. ASSUME NEW kind \in {"added", "removed", "modified"}, NEW i \in DOMAIN lists[kind]
          PROVE  <<kind, lists[kind][i].name>> \in {"added", "removed", "modified"} \X Paths
      <3>1. lists[kind] \in Seq(Entry)
        BY <1>4 DEF Kinds
      <3>2. lists[kind][i] \in Entry
        BY <3>1, LenProperties
      <3>3. QED
        BY <3>2 DEF Entry
    <2>2. CommitId(m, lists) \in
            (Messages \cup Names) \X SUBSET ({"added", "removed", "modified"} \X Paths)
      <3>1. PICK changed : changed = UNION {{<<kind, lists[kind][i].name>> : i \in DOMAIN lists[kind]} :
                                              kind \in {"added", "removed", "modified"}}
        OBVIOUS
      <3>2. changed \subseteq {"added", "removed", "modified"} \X Paths
        <4> SUFFICES ASSUME NEW x \in changed PROVE x \in {"added", "removed", "modified"} \X Paths
          OBVIOUS
        <4>1. PICK kind \in {"added", "removed", "modified"} :
                x \in {<<kind, lists[kind][i].name>> : i \in DOMAIN lists[kind]}
          BY <3>1
        <4>2. QED
          BY <2>1, <4>1
      <3>3. CommitId(m, lists) = <<m, changed>>
        BY <3>1 DEF CommitId
      <3>4. QED
        BY <3>2, <3>3
    <2>3. c = [id |-> c.id, dir |-> c.dir, parents |-> c.parents, added |-> c.added,
               removed |-> c.removed, modified |-> c.modified, tracked |-> c.tracked]
      BY <1>2, <1>3
    <2>4. QED
      BY <1>3, <1>5, <1>10, <2>2, <2>3 DEF CommitRecord
  <1>12. /\ Saved(c) \in Seq(Entry)
         /\ \A p : p \in Tracked(c) <=> \E e : Has(Saved(c), e) /\ e.name = p
    BY <1>5, SavedFacts
  <1>13. Settled(Saved(c))
    BY <1>9 DEF Settled, Has
  <1>14. ASSUME NEW i \in 1 .. Len(c.removed) PROVE ~c.removed[i].added
    <2>1. PICK j \in 1 .. Len(fs) : Change(w, fs[j]) = "removed" /\ c.removed[i] = Recorded(w, fs[j])
      BY <1>6 DEF Has
    <2>2. QED
      BY <1>7, <2>1, RecordedFacts
  <1>15. Complete(c)
    <2> SUFFICES ASSUME NEW i \in 1 .. Len(Saved(c))
                 PROVE  /\ Base[Saved(c)[i].name] \in DOMAIN c.dir
                        /\ Alone(c, Saved(c)[i]) => \E x \in Meant(Saved(c)[i]) :
                             c.dir[Base[Saved(c)[i].name]] = CopyOf[x]
      BY DEF Complete
    <2>1. PICK e : e = Saved(c)[i]
      OBVIOUS
    <2>2. Has(Saved(c), e)
      BY <2>1 DEF Has
    <2>3. /\ Base[e.name] \in DOMAIN c.dir
          /\ \E g : /\ Has(Saved(c), g) /\ Base[g.name] = Base[e.name]
                    /\ c.dir[Base[e.name]] = CopyOf[w[g.name]]
      BY <1>10, <2>2
    <2>4. ASSUME Alone(c, e) PROVE \E x \in Meant(e) : c.dir[Base[e.name]] = CopyOf[x]
      <3>1. PICK g : /\ Has(Saved(c), g) /\ Base[g.name] = Base[e.name]
                     /\ c.dir[Base[e.name]] = CopyOf[w[g.name]]
        BY <2>3
      <3>2. g.name = e.name
        <4>1. PICK k \in 1 .. Len(Saved(c)) : Saved(c)[k] = g
          BY <3>1 DEF Has
        <4>2. k \in DOMAIN Saved(c)
          BY <1>12, LenProperties
        <4>3. QED
          BY <2>4, <3>1, <4>1, <4>2 DEF Alone
      <3>3. c.dir[Base[e.name]] = CopyOf[w[e.name]]
        BY <3>1, <3>2
      <3>4. /\ Hash(w, e.name) = NameSum[e.name] + ContentSum[w[e.name]]
            /\ e.hash = Hash(w, e.name) /\ w[e.name] \in Contents
        BY <1>9, <2>2, HashFacts
      <3>5. w[e.name] \in Meant(e)
        BY <3>4 DEF Meant
      <3>6. QED
        BY <3>3, <3>5
    <2>5. QED
      BY <2>1, <2>3, <2>4
  <1>16. CommitSound(c, h)
    BY <1>11, <1>13, <1>14, <1>15 DEF CommitSound
  <1>17. ASSUME NEW j \in 1 .. Len(fs), Recorded(w, fs[j]).added PROVE fs[j].name \in Tracked(c)
    <2>1. PICK e : e = Recorded(w, fs[j])
      OBVIOUS
    <2>2. e.name = fs[j].name /\ Change(w, fs[j]) \in {"added", "modified", "tracked"}
      BY <1>7, <1>17, <2>1, RecordedFacts
    <2>3. Has(c.added, e) \/ Has(c.modified, e) \/ Has(c.tracked, e)
      BY <1>6, <2>1, <2>2
    <2>4. Has(Saved(c), e)
      BY <1>5, <2>3, SavedFacts
    <2>5. QED
      BY <1>12, <2>2, <2>4
  <1>18. c.parents = ps
    BY <1>3
  <1>19. QED
    BY <1>16, <1>17, <1>18 DEF c

-----------------------------------------------------------------------------
(* Branches                                                                *)

\* The commits ds keep the parents of the commits cs, and what these track.
Follows(ds, cs) ==
  Len(cs) <= Len(ds) /\ \A k \in 1 .. Len(cs) : ds[k].parents = cs[k].parents
TracksOn(ds, cs) == \A k \in 1 .. Len(cs) : Tracked(cs[k]) \subseteq Tracked(ds[k])

LEMMA ChainCarried ==
  ASSUME NEW cs \in Seq(CommitRecord), NEW ds \in Seq(CommitRecord), Follows(ds, cs),
         NEW hist \in Seq(Nat), ChainOf(hist, cs)
  PROVE  ChainOf(hist, ds)
  <1>1. Len(cs) \in Nat /\ Len(ds) \in Nat /\ Len(hist) \in Nat /\ Len(cs) <= Len(ds)
    BY LenProperties DEF Follows
  <1>2. ASSUME NEW k \in 1 .. Len(hist) PROVE hist[k] \in 1 .. Len(cs) /\ hist[k] \in 1 .. Len(ds)
    BY <1>1 DEF ChainOf
  <1>3. ASSUME NEW k \in 2 .. Len(hist) PROVE ds[hist[k]].parents[1] = hist[k - 1]
    <2>1. k \in 1 .. Len(hist)
      BY <1>1
    <2>2. ds[hist[k]].parents = cs[hist[k]].parents
      BY <1>2, <2>1 DEF Follows
    <2>3. QED
      BY <2>2 DEF ChainOf
  <1>4. QED
    BY <1>2, <1>3 DEF ChainOf

\* A branch stays sound while commits are added and changed in keeping with that.
LEMMA BranchCarried ==
  ASSUME NEW cs \in Seq(CommitRecord), NEW ds \in Seq(CommitRecord), Follows(ds, cs),
         NEW b, NEW i, NEW h \in Sane, BranchSound(b, i, cs, h),
         NEW g, g = "sound" => h = "sound" /\ TracksOn(ds, cs)
  PROVE  BranchSound(b, i, ds, g)
  <1>1. /\ b \in BranchRecord /\ b.hist \in Seq(Nat) /\ b.n \in Nat /\ b.n <= Len(b.hist)
        /\ Settled(b.files) /\ Owned(b.files, i) /\ ChainOf(b.hist, cs) /\ Distinct(b.files)
    BY DEF BranchSound, Sane, BranchRecord
  <1>2. ChainOf(b.hist, ds)
    BY <1>1, ChainCarried
  <1>3. ASSUME g = "sound" PROVE Agrees(b, ds)
    <2>1. Agrees(b, cs)
      BY <1>3 DEF BranchSound
    <2>2. ASSUME b.n > 0 PROVE Tracked(cs[b.hist[b.n]]) \subseteq Tracked(ds[b.hist[b.n]])
      <3>1. b.n \in 1 .. Len(b.hist)
        BY <1>1, <2>2, LenProperties
      <3>2. b.hist[b.n] \in 1 .. Len(cs)
        BY <1>1, <3>1 DEF ChainOf
      <3>3. QED
        BY <1>3, <3>2 DEF TracksOn
    <2>3. QED
      BY <2>1, <2>2 DEF Agrees
  <1>4. QED
    BY <1>1, <1>2, <1>3 DEF BranchSound

\* What the invariant says of one branch and its last commit
LEMMA BranchFacts ==
  ASSUME Invariant, health \in Sane, NEW i \in 1 .. Len(branches)
  PROVE  /\ Len(branches) \in Nat /\ DOMAIN branches = 1 .. Len(branches)
         /\ branches[i] \in BranchRecord /\ branches[i].name \in Names
         /\ branches[i].files \in Seq(Entry) /\ branches[i].hist \in Seq(Nat)
         /\ branches[i].n \in Nat /\ branches[i].n <= Len(branches[i].hist)
         /\ Len(branches[i].hist) \in Nat
         /\ Settled(branches[i].files) /\ Owned(branches[i].files, i)
         /\ Distinct(branches[i].files) /\ ChainOf(branches[i].hist, commits)
         /\ health = "sound" => Agrees(branches[i], commits)
         /\ \A k \in 1 .. branches[i].n : /\ branches[i].hist[k] \in 1 .. Len(commits)
                                          /\ branches[i].hist[k] \in Nat
  <1>1. BranchSound(branches[i], i, commits, health) /\ branches[i] \in BranchRecord
    BY DEF Invariant, BranchSound
  <1>2. /\ branches[i].name \in Names /\ branches[i].n \in Nat
        /\ branches[i].files \in Seq(Entry) /\ branches[i].hist \in Seq(Nat)
    BY <1>1 DEF BranchRecord
  <1>3. Len(branches[i].hist) \in Nat /\ branches[i].n <= Len(branches[i].hist)
    BY <1>1, <1>2, LenProperties DEF BranchSound, Sane
  <1>4. Len(branches) \in Nat /\ DOMAIN branches = 1 .. Len(branches)
    BY LenProperties DEF Invariant
  <1>5. ChainOf(branches[i].hist, commits)
    BY <1>1 DEF BranchSound
  <1>6. ASSUME NEW k \in 1 .. branches[i].n
        PROVE  branches[i].hist[k] \in 1 .. Len(commits) /\ branches[i].hist[k] \in Nat
    <2>1. k \in 1 .. Len(branches[i].hist)
      BY <1>2, <1>3
    <2>2. QED
      BY <1>2, <1>5, <2>1, LenProperties DEF ChainOf
  <1>7. QED
    BY <1>1, <1>2, <1>3, <1>4, <1>5, <1>6 DEF BranchSound

LEMMA CommitFacts ==
  ASSUME Invariant, health \in Sane, NEW k \in 1 .. Len(commits)
  PROVE  /\ commits[k] \in CommitRecord /\ commits[k].parents \in Seq(Nat)
         /\ commits[k].added \in Seq(Entry) /\ commits[k].modified \in Seq(Entry)
         /\ commits[k].removed \in Seq(Entry) /\ commits[k].tracked \in Seq(Entry)
         /\ Saved(commits[k]) \in Seq(Entry) /\ Settled(Saved(commits[k]))
         /\ Complete(commits[k]) /\ commits[k].dir \in Dirs
         /\ \A j \in 1 .. Len(commits[k].removed) : ~commits[k].removed[j].added
         /\ Len(commits) \in Nat /\ DOMAIN commits = 1 .. Len(commits)
  <1>1. CommitSound(commits[k], health)
    BY DEF Invariant
  <1>2. /\ commits[k] \in CommitRecord /\ commits[k].parents \in Seq(Nat)
        /\ commits[k].added \in Seq(Entry) /\ commits[k].modified \in Seq(Entry)
        /\ commits[k].removed \in Seq(Entry) /\ commits[k].tracked \in Seq(Entry)
        /\ commits[k].dir \in Dirs
    BY <1>1 DEF CommitSound, CommitRecord
  <1>3. Saved(commits[k]) \in Seq(Entry)
    BY <1>2, SavedFacts
  <1>4. Len(commits) \in Nat /\ DOMAIN commits = 1 .. Len(commits)
    BY LenProperties DEF Invariant
  <1>5. QED
    BY <1>1, <1>2, <1>3, <1>4 DEF CommitSound

\* The invariant is kept when one branch is replaced by a sound one and the commits are
\* sound and keep what they track.
LEMMA OneChanged ==
  ASSUME Invariant, health \in Sane, NEW i \in 1 .. Len(branches), NEW b,
         work' \in Works, health' \in Sane \cup {"confused"}, current' \in 1 .. Len(branches),
         commits' \in Seq(CommitRecord), Follows(commits', commits),
         \A k \in 1 .. Len(commits') : CommitSound(commits'[k], health'),
         health' = "sound" => health = "sound" /\ TracksOn(commits', commits),
         BranchSound(b, i, commits', health'), b.name = branches[i].name,
         branches[i].n > 0 => b.n > 0,
         branches' = [branches EXCEPT ![i] = b]
  PROVE  Invariant'
  <1>1. /\ branches \in Seq(BranchRecord) /\ b \in BranchRecord /\ commits \in Seq(CommitRecord)
        /\ Len(branches) \in Nat /\ DOMAIN branches = 1 .. Len(branches)
    BY LenProperties DEF Invariant, BranchSound
  <1>2. /\ branches' \in Seq(BranchRecord) /\ Len(branches') = Len(branches)
        /\ branches'[i] = b
        /\ \A j \in 1 .. Len(branches) : j # i => branches'[j] = branches[j]
    <2>1. branches' \in Seq(BranchRecord) /\ Len(branches') = Len(branches)
      BY <1>1, ExceptSeq
    <2>2. QED
      BY <1>1, <2>1
  <1>3. ASSUME NEW j \in 1 .. Len(branches) PROVE BranchSound(branches'[j], j, commits', health')
    <2>1. CASE j = i
      BY <1>2, <2>1
    <2>2. CASE j # i
      <3>1. BranchSound(branches[j], j, commits, health)
        BY DEF Invariant
      <3>2. BranchSound(branches[j], j, commits', health')
        BY <1>1, <3>1, BranchCarried
      <3>3. QED
        BY <1>2, <2>2, <3>2
    <2>3. QED
      BY <2>1, <2>2
  <1>4. ASSUME NEW j \in 1 .. Len(branches)
        PROVE  branches'[j].name = branches[j].name /\ (branches[j].n > 0 => branches'[j].n > 0)
    BY <1>2
  <1>5. \A j, k \in 1 .. Len(branches) : branches'[j].name = branches'[k].name => j = k
    BY <1>4 DEF Invariant
  <1>6. health # "undefined"
    BY DEF Sane
  <1>7. Len(branches) > 1 => \A j \in 1 .. Len(branches) : branches'[j].n > 0
    BY <1>4, <1>6 DEF Invariant
  <1>8. health' \in Sane \cup {"confused", "undefined", "exited"} /\ work' \in [Paths -> Contents \cup {Gone}]
    BY DEF Works
  <1>9. QED
    BY <1>2, <1>3, <1>5, <1>7, <1>8 DEF Invariant

\* So it is when a branch gets another list of files that agrees with its last commit.
LEMMA FilesReplaced ==
  ASSUME Invariant, health \in Sane, NEW i \in 1 .. Len(branches), NEW fs \in Seq(Entry),
         work' \in Works, health' \in Sane \cup {"confused"}, current' \in 1 .. Len(branches),
         commits' \in Seq(CommitRecord), Follows(commits', commits),
         \A k \in 1 .. Len(commits') : CommitSound(commits'[k], health'),
         health' = "sound" => health = "sound" /\ TracksOn(commits', commits),
         Settled(fs), Owned(fs, i), health' \in Sane => Distinct(fs),
         health' = "sound" =>
           \A k \in 1 .. Len(fs) : fs[k].added /\ ~fs[k].staged =>
             /\ branches[i].n > 0
             /\ fs[k].name \in Tracked(commits'[branches[i].hist[branches[i].n]]),
         branches' = [branches EXCEPT ![i].files = fs]
  PROVE  Invariant'
  <1>1. /\ branches[i] \in BranchRecord /\ branches[i].name \in Names
        /\ branches[i].hist \in Seq(Nat) /\ branches[i].n \in Nat
        /\ branches[i].n <= Len(branches[i].hist) /\ ChainOf(branches[i].hist, commits)
    BY BranchFacts
  <1>2. PICK b : b = [branches[i] EXCEPT !.files = fs]
    OBVIOUS
  <1>3. /\ b \in BranchRecord /\ b.files = fs /\ b.name = branches[i].name
        /\ b.hist = branches[i].hist /\ b.n = branches[i].n
    BY <1>1, <1>2 DEF BranchRecord
  <1>4. branches' = [branches EXCEPT ![i] = b]
    BY <1>2
  <1>5. commits \in Seq(CommitRecord)
    BY DEF Invariant
  <1>6. ChainOf(b.hist, commits')
    BY <1>1, <1>3, <1>5, ChainCarried
  <1>7. health' = "sound" => Agrees(b, commits')
    BY <1>3 DEF Agrees
  <1>8. BranchSound(b, i, commits', health')
    BY <1>1, <1>3, <1>6, <1>7 DEF BranchSound
  <1>9. b.name = branches[i].name /\ (branches[i].n > 0 => b.n > 0)
    BY <1>3
  <1>10. QED
    BY <1>4, <1>8, <1>9, OneChanged

\* A branch that gets a new commit behind its last one
LEMMA ExtendedSound ==
  ASSUME Invariant, health \in Sane, NEW i \in 1 .. Len(branches), NEW fs \in Seq(Entry),
         NEW ds \in Seq(CommitRecord), Follows(ds, commits), Len(ds) = Len(commits) + 1,
         branches[i].n > 0 => ds[Len(ds)].parents[1] = branches[i].hist[branches[i].n],
         Settled(fs), Owned(fs, i), NEW g, g \in Sane => Distinct(fs),
         g = "sound" => \A k \in 1 .. Len(fs) : fs[k].added => fs[k].name \in Tracked(ds[Len(ds)])
  PROVE  /\ BranchSound(Extended(branches[i], fs), i, ds, g)
         /\ Extended(branches[i], fs).name = branches[i].name
         /\ Extended(branches[i], fs).n > 0
  <1>1. /\ branches[i] \in BranchRecord /\ branches[i].name \in Names
        /\ branches[i].hist \in Seq(Nat) /\ branches[i].n \in Nat
        /\ branches[i].n <= Len(branches[i].hist) /\ ChainOf(branches[i].hist, commits)
        /\ Len(branches[i].hist) \in Nat
    BY BranchFacts
  <1>2. PICK n \in Nat : n = branches[i].n
    BY <1>1
  <1>3. PICK old : old = SubSeq(branches[i].hist, 1, n)
    OBVIOUS
  <1>4. /\ old \in Seq(Nat) /\ Len(old) = n
        /\ \A k \in 1 .. n : old[k] = branches[i].hist[k]
    <2>1. \A k \in 1 .. n : branches[i].hist[k] \in Nat
      BY <1>1, <1>2, LenProperties
    <2>2. Len(old) = n /\ \A k \in 1 .. n : old[k] = branches[i].hist[k]
      BY <1>1, <1>2, <1>3, SubSeqProperties
    <2>3. old \in Seq(Nat)
      BY <1>1, <1>2, <1>3, <2>1, SubSeqProperties
    <2>4. QED
      BY <2>2, <2>3
  <1>5. Len(commits) \in Nat /\ Len(ds) \in Nat
    BY LenProperties DEF Invariant
  <1>6. PICK new : new = Append(old, Len(ds))
    OBVIOUS
  <1>7. /\ new \in Seq(Nat) /\ Len(new) = n + 1 /\ new[n + 1] = Len(ds)
        /\ \A k \in 1 .. n : new[k] = branches[i].hist[k]
    BY <1>4, <1>5, <1>6, AppendProperties
  <1>8. PICK b : b = Extended(branches[i], fs)
    OBVIOUS
  <1>9. /\ b \in BranchRecord /\ b.name = branches[i].name /\ b.files = fs /\ b.n = n + 1
        /\ b.hist = new
    <2>1. b = [branches[i] EXCEPT !.files = fs, !.hist = new, !.n = n + 1]
      BY <1>2, <1>3, <1>6, <1>8 DEF Extended
    <2>2. PICK o : o = branches[i]
      OBVIOUS
    <2>3. o \in BranchRecord /\ b = [o EXCEPT !.files = fs, !.hist = new, !.n = n + 1]
      BY <1>1, <2>1, <2>2
    <2>4. /\ b \in BranchRecord /\ b.name = o.name /\ b.files = fs /\ b.n = n + 1
          /\ b.hist = new
      <3>1. o.name \in Names /\ DOMAIN o = {"name", "files", "hist", "n"} /\ n + 1 \in Nat
        BY <2>3 DEF BranchRecord
      <3>2. /\ b.name = o.name /\ b.files = fs /\ b.n = n + 1 /\ b.hist = new
            /\ b = [name |-> o.name, files |-> fs, hist |-> new, n |-> n + 1]
        BY <2>3, <3>1 DEF BranchRecord
      <3>3. QED
        BY <1>7, <3>1, <3>2 DEF BranchRecord
    <2>5. QED
      BY <2>2, <2>4
  <1>10. ChainOf(new, ds)
    <2>1. ChainOf(branches[i].hist, ds)
      <3>1. commits \in Seq(CommitRecord)
        BY DEF Invariant
      <3>2. QED
        BY <1>1, <3>1, ChainCarried
    <2>2. ASSUME NEW k \in 1 .. n
          PROVE  /\ branches[i].hist[k] \in 1 .. Len(ds)
                 /\ k # 1 => ds[branches[i].hist[k]].parents[1] = branches[i].hist[k - 1]
      <3>1. k \in 1 .. Len(branches[i].hist) /\ (k # 1 => k \in 2 .. Len(branches[i].hist))
        BY <1>1, <1>2
      <3>2. QED
        BY <2>1, <3>1 DEF ChainOf
    <2>3. ASSUME NEW k \in 1 .. n + 1 PROVE new[k] \in 1 .. Len(ds)
      <3>1. k \in 1 .. n \/ k = n + 1
        OBVIOUS
      <3>2. Len(ds) \in 1 .. Len(ds)
        BY <1>5
      <3>3. QED
        BY <1>7, <2>2, <3>1, <3>2
    <2>4. ASSUME NEW k \in 2 .. n + 1 PROVE ds[new[k]].parents[1] = new[k - 1]
      <3>1. k - 1 \in 1 .. n /\ (k \in 1 .. n \/ k = n + 1) /\ k # 1
        OBVIOUS
      <3>2. CASE k \in 1 .. n
        BY <1>7, <2>2, <3>1, <3>2
      <3>3. CASE k = n + 1
        <4>1. n > 0 /\ new[k - 1] = branches[i].hist[n]
          BY <1>7, <3>1, <3>3
        <4>2. QED
          BY <1>2, <1>7, <3>3, <4>1
      <3>4. QED
        BY <3>1, <3>2, <3>3
    <2>5. QED
      BY <1>7, <2>3, <2>4 DEF ChainOf
  <1>11. g = "sound" => Agrees(b, ds)
    <2> SUFFICES ASSUME g = "sound" PROVE Agrees(b, ds)
      OBVIOUS
    <2>1. b.n > 0 /\ b.hist[b.n] = Len(ds)
      BY <1>7, <1>9
    <2>2. QED
      BY <1>9, <2>1 DEF Agrees
  <1>12. BranchSound(b, i, ds, g) /\ b.n > 0
    BY <1>7, <1>9, <1>10, <1>11 DEF BranchSound
  <1>13. QED
    BY <1>8, <1>9, <1>12

\* There are no more branches than names, as they have different ones.
LEMMA BranchesFew ==
  ASSUME Invariant, health \in Sane
  PROVE  /\ Cardinality(Names) \in Nat /\ Len(branches) <= Cardinality(Names)
         /\ \A nm \in Names : ~Exists(nm) => Len(branches) + 1 <= Cardinality(Names)
  <1>1. /\ Len(branches) \in Nat /\ DOMAIN branches = 1 .. Len(branches)
        /\ \A i \in 1 .. Len(branches) : branches[i].name \in Names
        /\ \A i, j \in 1 .. Len(branches) : branches[i].name = branches[j].name => i = j
    <2>1. \A i \in 1 .. Len(branches) : branches[i].name \in Names
      BY BranchFacts
    <2>2. QED
      BY <2>1, LenProperties DEF Invariant
  <1>2. IsFiniteSet(Names) /\ Cardinality(Names) \in Nat
    BY NamesAssumption, FS_CardinalityType
  <1>3. Cardinality(1 .. Len(branches)) = Len(branches)
    BY <1>1, FS_Interval
  <1>4. PICK f : f = [i \in 1 .. Len(branches) |-> branches[i].name]
    OBVIOUS
  <1>5. Len(branches) <= Cardinality(Names)
    <2>1. f \in Injection(1 .. Len(branches), Names)
      BY <1>1, <1>4 DEF Injection, IsInjective
    <2>2. QED
      BY <1>2, <1>3, <2>1, FS_Injection
  <1>6. ASSUME NEW nm \in Names, ~Exists(nm) PROVE Len(branches) + 1 <= Cardinality(Names)
    <2>1. \A i \in 1 .. Len(branches) : branches[i].name # nm
      BY <1>1, <1>6 DEF Exists
    <2>2. f \in Injection(1 .. Len(branches), Names \ {nm})
      BY <1>1, <1>4, <2>1 DEF Injection, IsInjective
    <2>3. IsFiniteSet(Names \ {nm}) /\ Cardinality(Names \ {nm}) = Cardinality(Names) - 1
      BY <1>2, FS_RemoveElement
    <2>4. Len(branches) <= Cardinality(Names \ {nm})
      BY <1>3, <2>2, <2>3, FS_Injection
    <2>5. QED
      BY <1>1, <1>2, <2>3, <2>4
  <1>7. QED
    BY <1>2, <1>5, <1>6

\* The entry of a tracked file in a commit
LEMMA EntryOfFacts ==
  ASSUME NEW c, Saved(c) \in Seq(Entry), NEW p \in Tracked(c)
  PROVE  \E i \in 1 .. Len(Saved(c)) : /\ EntryOf(c, p) = Saved(c)[i] /\ Saved(c)[i].name = p
                                       /\ EntryOf(c, p) \in Entry
  <1>1. DOMAIN Saved(c) = 1 .. Len(Saved(c))
    BY LenProperties
  <1>2. \E i \in DOMAIN Saved(c) : Saved(c)[i].name = p
    BY DEF Tracked
  <1>3. PICK i : i = CHOOSE j \in DOMAIN Saved(c) : Saved(c)[j].name = p
    OBVIOUS
  <1>4. i \in DOMAIN Saved(c) /\ Saved(c)[i].name = p
    BY <1>2, <1>3
  <1>5. EntryOf(c, p) = Saved(c)[i]
    BY <1>3 DEF EntryOf
  <1>6. QED
    BY <1>1, <1>4, <1>5, LenProperties

\* Restoring a file gives it a content, and undoing its changes settles its entry: what
\* stays tracked and is not staged is tracked by the commit.
LEMMA RestoredFacts ==
  ASSUME NEW w \in Works, NEW p \in Paths, NEW f \in Entry, f.name = p,
         NEW c, c \in CommitRecord, Saved(c) \in Seq(Entry), Complete(c)
  PROVE  /\ Restored(w, f, c) \in Contents \cup {Gone}
         /\ p \in Tracked(c) /\ Differs(w, f, c) =>
              /\ Restored(w, f, c) \in Contents /\ Restored(w, f, c) = CopyOf[c.dir[Base[p]]]
  <1>1. w[p] \in Contents \cup {Gone}
    BY DEF Works
  <1>2. CASE ~(p \in Tracked(c) /\ Differs(w, f, c))
    BY <1>1, <1>2 DEF Restored
  <1>3. CASE p \in Tracked(c) /\ Differs(w, f, c)
    <2>1. PICK i \in 1 .. Len(Saved(c)) : Saved(c)[i].name = p
      BY <1>3, EntryOfFacts
    <2>2. Base[p] \in DOMAIN c.dir
      BY <2>1 DEF Complete
    <2>3. c.dir \in Dirs
      BY DEF CommitRecord
    <2>4. c.dir[Base[p]] \in Contents
      BY <2>2, <2>3 DEF Dirs
    <2>5. CopyOf[c.dir[Base[p]]] \in Contents
      BY <2>4, CopyAssumption
    <2>6. QED
      BY <1>3, <2>5 DEF Restored
  <1>4. QED
    BY <1>2, <1>3

LEMMA UndoneFacts ==
  ASSUME NEW w \in Works, NEW f \in Entry, ~(f.added /\ f.removed),
         NEW c, c \in CommitRecord, Saved(c) \in Seq(Entry), Settled(Saved(c)), Complete(c)
  PROVE  /\ Undone(w, f, c) \in Entry /\ Undone(w, f, c).name = f.name
         /\ Undone(w, f, c).own = f.own
         /\ ~(Undone(w, f, c).added /\ Undone(w, f, c).removed)
         /\ Undone(w, f, c).added => f.name \in Tracked(c)
  <1>1. f.name \in Paths /\ Restored(w, f, c) \in Contents \cup {Gone}
    <2>1. f.name \in Paths
      BY DEF Entry
    <2>2. QED
      BY <2>1, RestoredFacts
  <1>2. PICK x : x = Hash([w EXCEPT ![f.name] = Restored(w, f, c)], f.name)
    OBVIOUS
  <1>3. x \in Int
    <2>1. PICK u : u = [w EXCEPT ![f.name] = Restored(w, f, c)]
      OBVIOUS
    <2>2. u \in Works
      BY <1>1, <2>1 DEF Works
    <2>3. QED
      BY <1>1, <1>2, <2>1, <2>2, HashFacts
  <1>4. PICK g : g = IF f.name \notin Tracked(c) THEN Flags(f, FALSE, FALSE, TRUE)
                     ELSE IF Differs(w, f, c) THEN f
                     ELSE LET e == EntryOf(c, f.name) IN Flags(f, e.added, e.staged, e.removed)
    OBVIOUS
  <1>5. Undone(w, f, c) = [g EXCEPT !.hash = x]
    BY <1>2, <1>4 DEF Undone
  <1>6. /\ g \in Entry /\ g.name = f.name /\ g.own = f.own /\ ~(g.added /\ g.removed)
        /\ g.added => f.name \in Tracked(c)
    <2>1. CASE f.name \notin Tracked(c)
      <3>1. g = Flags(f, FALSE, FALSE, TRUE)
        BY <1>4, <2>1
      <3>2. QED
        BY <2>1, <3>1, FlagsFacts
    <2>2. CASE f.name \in Tracked(c) /\ Differs(w, f, c)
      BY <1>4, <2>2
    <2>3. CASE f.name \in Tracked(c) /\ ~Differs(w, f, c)
      <3>1. PICK e : e = EntryOf(c, f.name)
        OBVIOUS
      <3>2. e \in Entry /\ ~(e.added /\ e.removed)
        <4>1. PICK i \in 1 .. Len(Saved(c)) : e = Saved(c)[i] /\ e \in Entry
          BY <2>3, <3>1, EntryOfFacts
        <4>2. QED
          BY <4>1 DEF Settled
      <3>3. e.added \in BOOLEAN /\ e.staged \in BOOLEAN /\ e.removed \in BOOLEAN
        BY <3>2 DEF Entry
      <3>4. g = Flags(f, e.added, e.staged, e.removed)
        BY <1>4, <2>3, <3>1
      <3>5. QED
        BY <2>3, <3>2, <3>3, <3>4 DEF Flags, Entry
    <2>4. QED
      BY <2>1, <2>2, <2>3
  <1>7. QED
    BY <1>3, <1>5, <1>6 DEF Entry

-----------------------------------------------------------------------------
(* The invariant holds at first and is kept by every action                *)

LEMMA InitInvariant ==
  ASSUME Init PROVE Invariant
  <1>1. PICK b : b = [name |-> Master, files |-> <<>>, hist |-> <<>>, n |-> 0]
    OBVIOUS
  <1>2. /\ b \in BranchRecord /\ b.n = 0 /\ b.files = <<>> /\ b.hist = <<>>
    BY <1>1, NamesAssumption, EmptySeq DEF BranchRecord
  <1>3. branches = <<b>> /\ Len(branches) = 1 /\ branches[1] = b /\ branches \in Seq(BranchRecord)
    BY <1>1, <1>2 DEF Init
  <1>4. BranchSound(b, 1, commits, health)
    <2>1. Settled(b.files) /\ Owned(b.files, 1) /\ ChainOf(b.hist, commits) /\ Agrees(b, commits)
      BY <1>2 DEF Settled, Owned, ChainOf, Agrees
    <2>2. b.n <= Len(b.hist) /\ Distinct(b.files)
      BY <1>2 DEF Distinct
    <2>3. QED
      BY <1>2, <2>1, <2>2 DEF BranchSound
  <1>5. /\ work \in [Paths -> Contents \cup {Gone}] /\ current = 1 /\ commits = <<>>
        /\ commits \in Seq(CommitRecord) /\ health = "sound" /\ 1 .. Len(commits) = {}
    BY DEF Init
  <1>6. QED
    BY <1>3, <1>4, <1>5 DEF Invariant, Sane

\* Without a change the commits stay sound.
LEMMA CommitsKept ==
  ASSUME Invariant, health \in Sane, commits' = commits
  PROVE  /\ commits' \in Seq(CommitRecord) /\ Follows(commits', commits)
         /\ TracksOn(commits', commits)
         /\ \A g : \A k \in 1 .. Len(commits') : CommitSound(commits'[k], g)
  <1>1. commits \in Seq(CommitRecord) /\ Len(commits) \in Nat
    BY LenProperties DEF Invariant
  <1>2. \A g : \A k \in 1 .. Len(commits) : CommitSound(commits[k], g)
    BY DEF Invariant, CommitSound
  <1>3. QED
    BY <1>1, <1>2 DEF Follows, TracksOn

\* A list of files of a branch in which nothing new passes for committed
LEMMA ListChanged ==
  ASSUME Invariant, health \in Sane, NEW i \in 1 .. Len(branches), NEW fs \in Seq(Entry),
         work' \in Works, health' = health, current' \in 1 .. Len(branches), commits' = commits,
         Settled(fs), Owned(fs, i), Distinct(fs),
         health = "sound" =>
           \A k \in 1 .. Len(fs) : fs[k].added /\ ~fs[k].staged =>
             /\ branches[i].n > 0
             /\ fs[k].name \in Tracked(commits[branches[i].hist[branches[i].n]]),
         branches' = [branches EXCEPT ![i].files = fs]
  PROVE  Invariant'
  <1>1. /\ commits' \in Seq(CommitRecord) /\ Follows(commits', commits)
        /\ TracksOn(commits', commits)
        /\ \A k \in 1 .. Len(commits') : CommitSound(commits'[k], health')
    BY CommitsKept
  <1>2. health' \in Sane \cup {"confused"}
    OBVIOUS
  <1>3. health' = "sound" =>
           \A k \in 1 .. Len(fs) : fs[k].added /\ ~fs[k].staged =>
             /\ branches[i].n > 0
             /\ fs[k].name \in Tracked(commits'[branches[i].hist[branches[i].n]])
    OBVIOUS
  <1>4. health' = "sound" => health = "sound" /\ TracksOn(commits', commits)
    BY <1>1
  <1>5. QED
    BY <1>1, <1>2, <1>3, <1>4, FilesReplaced

\* The list of the current branch after an operation on its entries
LEMMA EntriesChanged ==
  ASSUME Invariant, health \in Sane, work' \in Works, health' = health, current' = current,
         commits' = commits, NEW gs \in [1 .. Len(Here.files) -> Entry],
         \A i \in 1 .. Len(Here.files) :
           /\ gs[i].name = Here.files[i].name
           /\ gs[i].own = Here.files[i].own /\ ~(gs[i].added /\ gs[i].removed)
           /\ gs[i].added /\ ~gs[i].staged => Here.files[i].added /\ ~Here.files[i].staged,
         SetFiles(gs)
  PROVE  Invariant'
  <1>1. current \in 1 .. Len(branches)
    BY DEF Invariant
  <1>2. PICK b : b = branches[current]
    OBVIOUS
  <1>3. /\ b.files \in Seq(Entry) /\ Settled(b.files) /\ Owned(b.files, current)
        /\ Distinct(b.files) /\ (health = "sound" => Agrees(b, commits))
    BY <1>1, <1>2, BranchFacts
  <1>4. /\ gs \in [1 .. Len(b.files) -> Entry]
        /\ \A i \in 1 .. Len(b.files) :
             /\ gs[i].name = b.files[i].name
             /\ gs[i].own = b.files[i].own /\ ~(gs[i].added /\ gs[i].removed)
             /\ gs[i].added /\ ~gs[i].staged => b.files[i].added /\ ~b.files[i].staged
    BY <1>2 DEF Here
  <1>5. /\ gs \in Seq(Entry) /\ Len(gs) = Len(b.files) /\ Settled(gs)
        /\ Distinct(b.files) => Distinct(gs)
        /\ \A x : (\A i \in 1 .. Len(b.files) : gs[i].own = x) => Owned(gs, x)
    BY <1>3, <1>4, MappedList
  <1>6. Owned(gs, current)
    BY <1>3, <1>4, <1>5 DEF Owned
  <1>7. health = "sound" =>
          \A k \in 1 .. Len(gs) : gs[k].added /\ ~gs[k].staged =>
            /\ branches[current].n > 0
            /\ gs[k].name \in Tracked(commits[branches[current].hist[branches[current].n]])
    BY <1>2, <1>3, <1>4, <1>5 DEF Agrees
  <1>8. branches' = [branches EXCEPT ![current].files = gs]
    BY DEF SetFiles
  <1>9. QED
    BY <1>1, <1>3, <1>5, <1>6, <1>7, <1>8, ListChanged

LEMMA EditKeeps ==
  ASSUME Invariant, health \in Sane, NEW p \in Paths, Edit(p)
  PROVE  Invariant'
  <1>1. work' \in [Paths -> Contents \cup {Gone}]
    BY DEF Edit, Invariant
  <1>2. branches' = branches /\ current' = current /\ commits' = commits /\ health' = health
    BY DEF Edit
  <1>3. QED
    BY <1>1, <1>2 DEF Invariant

LEMMA AddKeeps ==
  ASSUME Invariant, health \in Sane, NEW p \in Paths, Add(p)
  PROVE  Invariant'
  <1>1. /\ work' = work /\ current' = current /\ commits' = commits /\ health' = health
        /\ work \in Works /\ work[p] # Gone /\ current \in 1 .. Len(branches)
    BY DEF Add, Invariant, Works
  <1>2. PICK b : b = branches[current]
    OBVIOUS
  <1>3. /\ b.files \in Seq(Entry) /\ Settled(b.files) /\ Owned(b.files, current)
        /\ Distinct(b.files) /\ (health = "sound" => Agrees(b, commits))
        /\ Len(b.files) \in Nat /\ DOMAIN b.files = 1 .. Len(b.files)
    BY <1>1, <1>2, BranchFacts, LenProperties
  <1>4. CASE p \in Listed(Here)
    <2>1. PICK gs : gs = [i \in 1 .. Len(b.files) |->
            IF b.files[i].name = p THEN ReAdd(b.files[i]) ELSE b.files[i]]
      OBVIOUS
    <2>2. SetFiles(gs)
      BY <1>2, <1>3, <1>4, <2>1 DEF Add, Here
    <2>3. ASSUME NEW i \in 1 .. Len(b.files)
          PROVE  /\ gs[i] \in Entry /\ gs[i].name = b.files[i].name
                 /\ gs[i].own = b.files[i].own /\ ~(gs[i].added /\ gs[i].removed)
                 /\ gs[i].added /\ ~gs[i].staged => b.files[i].added /\ ~b.files[i].staged
      <3>1. b.files[i] \in Entry /\ ~(b.files[i].added /\ b.files[i].removed)
        BY <1>3, LenProperties DEF Settled
      <3>2. gs[i] = ReAdd(b.files[i]) \/ gs[i] = b.files[i]
        BY <2>1
      <3>3. QED
        BY <1>1, <3>1, <3>2, ReAddFacts
    <2>4. gs \in [1 .. Len(b.files) -> Entry]
      BY <2>1, <2>3
    <2>5. /\ gs \in [1 .. Len(Here.files) -> Entry]
          /\ \A i \in 1 .. Len(Here.files) :
               /\ gs[i].name = Here.files[i].name
               /\ gs[i].own = Here.files[i].own /\ ~(gs[i].added /\ gs[i].removed)
               /\ gs[i].added /\ ~gs[i].staged => Here.files[i].added /\ ~Here.files[i].staged
      BY <1>2, <2>3, <2>4 DEF Here
    <2>6. QED
      BY <1>1, <2>2, <2>5, EntriesChanged
  <1>5. CASE p \notin Listed(Here)
    <2>1. PICK f : f = NewFile(p, current)
      OBVIOUS
    <2>2. /\ f \in Entry /\ f.name = p /\ f.own = current /\ f.added = TRUE /\ f.staged = TRUE
          /\ f.removed = FALSE
      <3>1. current \in 0 .. Cardinality(Names)
        BY <1>1, BranchesFew
      <3>2. Hash(work, p) \in Int
        BY <1>1, HashFacts
      <3>3. QED
        BY <2>1, <3>1, <3>2 DEF NewFile, Entry
    <2>3. PICK gs : gs = Append(b.files, f)
      OBVIOUS
    <2>4. /\ gs \in Seq(Entry) /\ Len(gs) = Len(b.files) + 1 /\ DOMAIN gs = 1 .. Len(gs)
          /\ gs[Len(b.files) + 1] = f /\ \A i \in 1 .. Len(b.files) : gs[i] = b.files[i]
      BY <1>3, <2>2, <2>3, AppendProperties, LenProperties
    <2>5. ASSUME NEW i \in 1 .. Len(gs)
          PROVE  \/ i \in 1 .. Len(b.files) /\ gs[i] = b.files[i]
                 \/ i = Len(b.files) + 1 /\ gs[i] = f
      BY <1>3, <2>4
    <2>6. \A i \in 1 .. Len(b.files) : b.files[i].name # p
      BY <1>2, <1>3, <1>5 DEF Listed, Here
    <2>7. Settled(gs) /\ Owned(gs, current)
      BY <1>3, <2>2, <2>5 DEF Settled, Owned
    <2>8. Distinct(gs)
      <3> SUFFICES ASSUME NEW i \in 1 .. Len(gs), NEW j \in 1 .. Len(gs), i # j
                   PROVE  gs[i].name # gs[j].name
        BY <2>4 DEF Distinct
      <3>1. CASE i \in 1 .. Len(b.files) /\ j \in 1 .. Len(b.files)
        BY <1>3, <2>4, <3>1 DEF Distinct
      <3>2. QED
        BY <2>2, <2>5, <2>6, <3>1
    <2>9. health = "sound" =>
            \A k \in 1 .. Len(gs) : gs[k].added /\ ~gs[k].staged =>
              /\ branches[current].n > 0
              /\ gs[k].name \in Tracked(commits[branches[current].hist[branches[current].n]])
      BY <1>2, <1>3, <2>2, <2>5 DEF Agrees
    <2>10. branches' = [branches EXCEPT ![current].files = gs]
      BY <1>2, <1>5, <2>1, <2>3 DEF Add, SetFiles, Here
    <2>11. QED
      BY <1>1, <2>4, <2>7, <2>8, <2>9, <2>10, ListChanged
  <1>6. QED
    BY <1>4, <1>5

LEMMA RmKeeps ==
  ASSUME Invariant, health \in Sane, NEW p \in Paths, Rm(p)
  PROVE  Invariant'
  <1>1. /\ work' = work /\ current' = current /\ commits' = commits /\ health' = health
        /\ work \in Works /\ current \in 1 .. Len(branches)
    BY DEF Rm, Invariant, Works
  <1>2. PICK b : b = branches[current]
    OBVIOUS
  <1>3. b.files \in Seq(Entry) /\ Settled(b.files) /\ DOMAIN b.files = 1 .. Len(b.files)
    BY <1>1, <1>2, BranchFacts, LenProperties
  <1>4. PICK gs : gs = [i \in 1 .. Len(b.files) |->
          IF b.files[i].name = p THEN Untracked(b.files[i]) ELSE b.files[i]]
    OBVIOUS
  <1>5. SetFiles(gs)
    BY <1>2, <1>3, <1>4 DEF Rm, Here
  <1>6. ASSUME NEW i \in 1 .. Len(b.files)
        PROVE  /\ gs[i] \in Entry /\ gs[i].name = b.files[i].name
               /\ gs[i].own = b.files[i].own /\ ~(gs[i].added /\ gs[i].removed)
               /\ gs[i].added /\ ~gs[i].staged => b.files[i].added /\ ~b.files[i].staged
    <2>1. b.files[i] \in Entry /\ ~(b.files[i].added /\ b.files[i].removed)
      BY <1>3, LenProperties DEF Settled
    <2>2. gs[i] = Untracked(b.files[i]) \/ gs[i] = b.files[i]
      BY <1>4
    <2>3. QED
      BY <2>1, <2>2, UntrackedFacts
  <1>7. gs \in [1 .. Len(b.files) -> Entry]
    BY <1>4, <1>6
  <1>8. /\ gs \in [1 .. Len(Here.files) -> Entry]
        /\ \A i \in 1 .. Len(Here.files) :
             /\ gs[i].name = Here.files[i].name
             /\ gs[i].own = Here.files[i].own /\ ~(gs[i].added /\ gs[i].removed)
             /\ gs[i].added /\ ~gs[i].staged => Here.files[i].added /\ ~Here.files[i].staged
    BY <1>2, <1>6, <1>7 DEF Here
  <1>9. QED
    BY <1>1, <1>5, <1>8, EntriesChanged

\* A refused merge adds again some untracked files.
LEMMA RefuseMergeKeeps ==
  ASSUME Invariant, health \in Sane, NEW nm \in Names, RefuseMerge(nm)
  PROVE  Invariant'
  <1>1. /\ work' = work /\ current' = current /\ commits' = commits /\ health' = health
        /\ work \in Works /\ current \in 1 .. Len(branches)
    BY DEF RefuseMerge, Invariant, Works
  <1>2. PICK b : b = branches[current]
    OBVIOUS
  <1>3. b.files \in Seq(Entry) /\ Settled(b.files) /\ DOMAIN b.files = 1 .. Len(b.files)
    BY <1>1, <1>2, BranchFacts, LenProperties
  <1>4. PICK stop : stop = CHOOSE i \in DOMAIN b.files :
                      Missing(b.files[i]) /\ \A j \in 1 .. i - 1 : ~Missing(b.files[j])
    OBVIOUS
  <1>5. PICK gs : gs = [i \in 1 .. Len(b.files) |->
          IF i < stop THEN ReAdd(b.files[i]) ELSE b.files[i]]
    OBVIOUS
  <1>6. SetFiles(gs)
    BY <1>2, <1>3, <1>4, <1>5 DEF RefuseMerge, Here, Asked
  <1>7. ASSUME NEW i \in 1 .. Len(b.files)
        PROVE  /\ gs[i] \in Entry /\ gs[i].name = b.files[i].name
               /\ gs[i].own = b.files[i].own /\ ~(gs[i].added /\ gs[i].removed)
               /\ gs[i].added /\ ~gs[i].staged => b.files[i].added /\ ~b.files[i].staged
    <2>1. b.files[i] \in Entry /\ ~(b.files[i].added /\ b.files[i].removed)
      BY <1>3, LenProperties DEF Settled
    <2>2. gs[i] = ReAdd(b.files[i]) \/ gs[i] = b.files[i]
      BY <1>5
    <2>3. QED
      BY <1>1, <2>1, <2>2, ReAddFacts
  <1>8. gs \in [1 .. Len(b.files) -> Entry]
    BY <1>5, <1>7
  <1>9. /\ gs \in [1 .. Len(Here.files) -> Entry]
        /\ \A i \in 1 .. Len(Here.files) :
             /\ gs[i].name = Here.files[i].name
             /\ gs[i].own = Here.files[i].own /\ ~(gs[i].added /\ gs[i].removed)
             /\ gs[i].added /\ ~gs[i].staged => Here.files[i].added /\ ~Here.files[i].staged
    BY <1>2, <1>7, <1>8 DEF Here
  <1>10. QED
    BY <1>1, <1>6, <1>9, EntriesChanged

\* A list after a commit has looked at it
LEMMA RecordedAllFacts ==
  ASSUME NEW w \in Works, NEW fs \in Seq(Entry), Settled(fs)
  PROVE  /\ RecordedAll(w, fs) \in Seq(Entry) /\ Len(RecordedAll(w, fs)) = Len(fs)
         /\ Settled(RecordedAll(w, fs)) /\ (Distinct(fs) => Distinct(RecordedAll(w, fs)))
         /\ \A b : Owned(fs, b) => Owned(RecordedAll(w, fs), b)
         /\ \A i \in 1 .. Len(fs) : /\ RecordedAll(w, fs)[i] = Recorded(w, fs[i])
                                    /\ RecordedAll(w, fs)[i].name = fs[i].name
  <1>1. PICK gs : gs = [i \in 1 .. Len(fs) |-> Recorded(w, fs[i])]
    OBVIOUS
  <1>2. RecordedAll(w, fs) = gs
    BY <1>1, LenProperties DEF RecordedAll
  <1>3. ASSUME NEW i \in 1 .. Len(fs)
        PROVE  /\ gs[i] = Recorded(w, fs[i]) /\ gs[i] \in Entry /\ gs[i].name = fs[i].name
               /\ gs[i].own = fs[i].own /\ ~(gs[i].added /\ gs[i].removed)
    <2>1. fs[i] \in Entry /\ ~(fs[i].added /\ fs[i].removed)
      BY LenProperties DEF Settled
    <2>2. gs[i] = Recorded(w, fs[i])
      BY <1>1
    <2>3. QED
      BY <2>1, <2>2, RecordedFacts
  <1>4. gs \in [1 .. Len(fs) -> Entry]
    BY <1>1, <1>3
  <1>5. /\ gs \in Seq(Entry) /\ Len(gs) = Len(fs) /\ Settled(gs)
        /\ Distinct(fs) => Distinct(gs)
        /\ \A b : (\A i \in 1 .. Len(fs) : gs[i].own = b) => Owned(gs, b)
    BY <1>3, <1>4, MappedList
  <1>6. ASSUME NEW b, Owned(fs, b) PROVE Owned(gs, b)
    BY <1>3, <1>5, <1>6 DEF Owned
  <1>7. QED
    BY <1>2, <1>3, <1>5, <1>6

\* The commits xs with a new one behind them
LEMMA CommitAppended ==
  ASSUME NEW cs \in Seq(CommitRecord), NEW xs \in Seq(CommitRecord), Follows(xs, cs),
         NEW c \in CommitRecord
  PROVE  /\ Append(xs, c) \in Seq(CommitRecord) /\ Follows(Append(xs, c), cs)
         /\ Len(Append(xs, c)) = Len(xs) + 1 /\ Append(xs, c)[Len(xs) + 1] = c
         /\ \A k \in 1 .. Len(xs) : Append(xs, c)[k] = xs[k]
         /\ \A k \in 1 .. Len(Append(xs, c)) : k \in 1 .. Len(xs) \/ k = Len(xs) + 1
         /\ TracksOn(xs, cs) => TracksOn(Append(xs, c), cs)
  <1>1. PICK ds : ds = Append(xs, c)
    OBVIOUS
  <1>2. /\ ds \in Seq(CommitRecord) /\ Len(ds) = Len(xs) + 1 /\ ds[Len(xs) + 1] = c
        /\ \A k \in 1 .. Len(xs) : ds[k] = xs[k]
    BY <1>1, AppendProperties
  <1>3. Len(xs) \in Nat /\ Len(cs) \in Nat /\ Len(cs) <= Len(xs) /\ 1 .. Len(cs) \subseteq 1 .. Len(xs)
    BY LenProperties DEF Follows
  <1>4. Follows(ds, cs)
    BY <1>2, <1>3 DEF Follows
  <1>5. TracksOn(xs, cs) => TracksOn(ds, cs)
    BY <1>2, <1>3 DEF TracksOn
  <1>6. \A k \in 1 .. Len(ds) : k \in 1 .. Len(xs) \/ k = Len(xs) + 1
    BY <1>2, <1>3
  <1>7. QED
    BY <1>1, <1>2, <1>4, <1>5, <1>6

LEMMA CommitKeeps ==
  ASSUME Invariant, health \in Sane, NEW m \in Messages, Commit(m)
  PROVE  Invariant'
  <1>1. /\ work' = work /\ current' = current /\ health' = health
        /\ work \in Works /\ current \in 1 .. Len(branches) /\ commits \in Seq(CommitRecord)
    BY DEF Commit, Invariant, Works
  <1>2. PICK b : b = branches[current]
    OBVIOUS
  <1>3. /\ b.files \in Seq(Entry) /\ Settled(b.files) /\ Owned(b.files, current)
        /\ Distinct(b.files) /\ (health = "sound" => Agrees(b, commits))
        /\ DOMAIN b.files = 1 .. Len(b.files) /\ b.n \in Nat
        /\ \A k \in 1 .. b.n : b.hist[k] \in Nat
    BY <1>1, <1>2, BranchFacts, LenProperties
  <1>4. PICK gs : gs = RecordedAll(work, b.files)
    OBVIOUS
  <1>5. /\ gs \in Seq(Entry) /\ Len(gs) = Len(b.files) /\ Settled(gs) /\ Distinct(gs)
        /\ Owned(gs, current)
        /\ \A i \in 1 .. Len(b.files) : /\ gs[i] = Recorded(work, b.files[i])
                                        /\ gs[i].name = b.files[i].name
    BY <1>1, <1>3, <1>4, RecordedAllFacts
  <1>6. CASE Valid(work, Here.files)
    <2>1. PICK ps : ps = Parents(b)
      OBVIOUS
    <2>2. ps \in Seq(Nat) /\ (b.n > 0 => ps[1] = b.hist[b.n])
      <3>1. CASE b.n >= 1
        <4>1. ps = <<b.hist[b.n]>> /\ b.hist[b.n] \in Nat
          BY <1>3, <2>1, <3>1 DEF Parents
        <4>2. QED
          BY <4>1
      <3>2. CASE ~(b.n >= 1)
        <4>1. ps = <<0>> \/ ps = << >>
          BY <2>1, <3>2 DEF Parents
        <4>2. ps \in Seq(Nat)
          <5>1. CASE ps = <<0>>
            BY <5>1
          <5>2. CASE ps = << >>
            BY <5>2, EmptySeq
          <5>3. QED
            BY <4>1, <5>1, <5>2
        <4>3. QED
          BY <1>3, <3>2, <4>2
      <3>3. QED
        BY <3>1, <3>2
    <2>3. PICK c : c = NewCommit(m, work, b.files, ps)
      OBVIOUS
    <2>4. /\ CommitSound(c, health) /\ c.parents = ps /\ c \in CommitRecord
          /\ \A j \in 1 .. Len(b.files) :
               Recorded(work, b.files[j]).added => b.files[j].name \in Tracked(c)
      <3>1. m \in Messages \cup Names
        OBVIOUS
      <3>2. CommitSound(c, health) /\ c.parents = ps
        BY <1>1, <1>3, <2>2, <2>3, <3>1, NewCommitFacts
      <3>3. \A j \in 1 .. Len(b.files) :
               Recorded(work, b.files[j]).added => b.files[j].name \in Tracked(c)
        BY <1>1, <1>3, <2>2, <2>3, <3>1, NewCommitFacts
      <3>4. QED
        BY <3>2, <3>3 DEF CommitSound
    <2>5. commits' = Append(commits, c) /\ branches' = [branches EXCEPT ![current] = Extended(b, gs)]
      BY <1>2, <1>4, <1>6, <2>1, <2>3 DEF Commit, Here
    <2>6. /\ Follows(commits, commits) /\ TracksOn(commits, commits) /\ Len(commits) \in Nat
      BY <1>1, LenProperties DEF Follows, TracksOn
    <2>7. /\ commits' \in Seq(CommitRecord) /\ Follows(commits', commits)
          /\ Len(commits') = Len(commits) + 1 /\ commits'[Len(commits) + 1] = c
          /\ \A k \in 1 .. Len(commits) : commits'[k] = commits[k]
          /\ \A k \in 1 .. Len(commits') : k \in 1 .. Len(commits) \/ k = Len(commits) + 1
          /\ TracksOn(commits', commits)
      BY <1>1, <2>4, <2>5, <2>6, CommitAppended
    <2>8. \A k \in 1 .. Len(commits') : CommitSound(commits'[k], health')
      <3>1. \A k \in 1 .. Len(commits) : CommitSound(commits[k], health)
        BY DEF Invariant
      <3>2. QED
        BY <1>1, <2>4, <2>7, <3>1
    <2>9. b.n > 0 => commits'[Len(commits')].parents[1] = b.hist[b.n]
      BY <2>2, <2>4, <2>7
    <2>10. \A k \in 1 .. Len(gs) : gs[k].added => gs[k].name \in Tracked(commits'[Len(commits')])
      BY <1>5, <2>4, <2>7
    <2>11. /\ BranchSound(Extended(b, gs), current, commits', health')
           /\ Extended(b, gs).name = b.name /\ Extended(b, gs).n > 0
      BY <1>1, <1>2, <1>5, <2>7, <2>9, <2>10, ExtendedSound
    <2>12. health' \in Sane \cup {"confused"} /\ work' \in Works /\ current' \in 1 .. Len(branches)
      BY <1>1
    <2>13. QED
      BY <1>1, <1>2, <2>5, <2>7, <2>8, <2>11, <2>12, OneChanged
  <1>7. CASE ~Valid(work, Here.files)
    <2>1. commits' = commits /\ branches' = [branches EXCEPT ![current].files = gs]
      BY <1>2, <1>4, <1>7 DEF Commit, Here, SetFiles
    <2>2. ASSUME health = "sound", NEW k \in 1 .. Len(gs), gs[k].added, ~gs[k].staged
          PROVE  b.n > 0 /\ gs[k].name \in Tracked(commits[b.hist[b.n]])
      <3>1. PICK f : f = b.files[k]
        OBVIOUS
      <3>2. f \in Entry /\ ~(f.added /\ f.removed) /\ gs[k] = Recorded(work, f) /\ gs[k].name = f.name
        BY <1>3, <1>5, <3>1, LenProperties DEF Settled
      <3>3. Change(work, f) \notin {"added", "removed", "modified"}
        BY <1>2, <1>3, <1>5, <1>7, <3>1 DEF Valid, Here
      <3>4. Change(work, f) \in {"added", "modified", "tracked"}
        BY <1>1, <2>2, <3>2, RecordedFacts
      <3>5. f.added /\ ~f.staged
        BY <1>1, <3>2, <3>3, <3>4, RecordedFacts
      <3>6. QED
        BY <1>3, <1>5, <2>2, <3>1, <3>2, <3>5 DEF Agrees
    <2>3. QED
      BY <1>1, <1>2, <1>5, <2>1, <2>2, ListChanged
  <1>8. QED
    BY <1>6, <1>7

\* A call whose result nobody can tell, or that ends the program
LEMMA UndefinedKeeps ==
  ASSUME Invariant, health \in Sane, work' \in Works, current' \in 1 .. Len(branches),
         branches' = branches, commits' = commits,
         health' = "undefined" \/ health' = "exited"
  PROVE  Invariant'
  <1>1. /\ commits' \in Seq(CommitRecord) /\ Follows(commits', commits)
        /\ \A g : \A k \in 1 .. Len(commits') : CommitSound(commits'[k], g)
    BY CommitsKept
  <1>2. /\ branches' \in Seq(BranchRecord)
        /\ \A i, j \in 1 .. Len(branches') : branches'[i].name = branches'[j].name => i = j
    BY DEF Invariant
  <1>3. ASSUME NEW i \in 1 .. Len(branches) PROVE BranchSound(branches'[i], i, commits', health')
    <2>1. BranchSound(branches[i], i, commits, health) /\ commits \in Seq(CommitRecord)
      BY DEF Invariant
    <2>2. health' # "sound"
      OBVIOUS
    <2>3. BranchSound(branches[i], i, commits', health')
      BY <1>1, <2>1, <2>2, BranchCarried
    <2>4. QED
      BY <2>3
  <1>4. health # "undefined" /\ Len(branches') = Len(branches)
    BY DEF Sane
  <1>5. health' # "undefined" /\ Len(branches') > 1 =>
          \A i \in 1 .. Len(branches') : branches'[i].n > 0
    BY <1>4 DEF Invariant
  <1>6. QED
    BY <1>1, <1>2, <1>3, <1>5 DEF Invariant, Works

LEMMA BranchKeeps ==
  ASSUME Invariant, health \in Sane, NEW nm \in Names, Branch(nm)
  PROVE  Invariant'
  <1>1. /\ work' = work /\ current' = current /\ commits' = commits
        /\ work \in Works /\ current \in 1 .. Len(branches) /\ commits \in Seq(CommitRecord)
        /\ branches \in Seq(BranchRecord) /\ ~Exists(nm)
    BY DEF Branch, Invariant, Works
  <1>2. PICK b : b = branches[current]
    OBVIOUS
  <1>3. /\ b.files \in Seq(Entry) /\ Settled(b.files) /\ Owned(b.files, current)
        /\ Distinct(b.files) /\ (health = "sound" => Agrees(b, commits))
        /\ DOMAIN b.files = 1 .. Len(b.files) /\ b.n \in Nat
        /\ \A k \in 1 .. b.n : b.hist[k] \in 1 .. Len(commits) /\ b.hist[k] \in Nat
        /\ Len(branches) \in Nat /\ DOMAIN branches = 1 .. Len(branches)
    BY <1>1, <1>2, BranchFacts, LenProperties
  <1>4. CASE Here.n = 0
    <2>1. health' = "undefined" /\ branches' = branches
      BY <1>4 DEF Branch
    <2>2. QED
      BY <1>1, <2>1, UndefinedKeeps
  <1>5. CASE Here.n # 0
    <2>1. PICK x : x = Copied(nm)
      OBVIOUS
    <2>2. branches' = Append(branches, x) /\ health' = health
      BY <1>5, <2>1 DEF Branch
    <2>3. PICK n \in Nat : n = Len(branches) + 1
      BY <1>3
    <2>4. PICK gs : gs = [i \in 1 .. Len(b.files) |-> [b.files[i] EXCEPT !.own = n]]
      OBVIOUS
    <2>5. PICK head : head = b.hist[b.n]
      OBVIOUS
    <2>6. b.n > 0 /\ head \in 1 .. Len(commits) /\ head \in Nat
      BY <1>2, <1>3, <1>5, <2>5 DEF Here
    <2>7. x = [name |-> nm, n |-> 1, hist |-> <<head>>, files |-> gs]
      BY <1>2, <1>3, <2>1, <2>3, <2>4, <2>5 DEF Copied, Here
    <2>8. n \in 0 .. Cardinality(Names)
      BY <1>1, <1>3, <2>3, BranchesFew
    <2>9. ASSUME NEW i \in 1 .. Len(b.files)
          PROVE  /\ gs[i] \in Entry /\ gs[i].name = b.files[i].name /\ gs[i].own = n
                 /\ ~(gs[i].added /\ gs[i].removed)
                 /\ gs[i].added = b.files[i].added /\ gs[i].staged = b.files[i].staged
      <3>1. b.files[i] \in Entry /\ ~(b.files[i].added /\ b.files[i].removed)
        BY <1>3, LenProperties DEF Settled
      <3>2. gs[i] = [b.files[i] EXCEPT !.own = n]
        BY <2>4
      <3>3. QED
        BY <2>8, <3>1, <3>2 DEF Entry
    <2>10. gs \in [1 .. Len(b.files) -> Entry]
      BY <2>4, <2>9
    <2>11. /\ gs \in Seq(Entry) /\ Len(gs) = Len(b.files) /\ Settled(gs) /\ Distinct(gs)
           /\ Owned(gs, n)
      BY <1>3, <2>9, <2>10, MappedList
    <2>12. /\ x \in BranchRecord /\ x.files = gs /\ x.name = nm /\ x.n = 1
           /\ Len(x.hist) = 1 /\ x.hist[1] = head
      BY <2>6, <2>7, <2>11 DEF BranchRecord
    <2>13. ChainOf(x.hist, commits)
      BY <2>6, <2>12 DEF ChainOf
    <2>14. health = "sound" => Agrees(x, commits)
      <3> SUFFICES ASSUME health = "sound", NEW i \in 1 .. Len(gs), gs[i].added, ~gs[i].staged
                   PROVE  gs[i].name \in Tracked(commits[head])
        BY <2>12 DEF Agrees
      <3>1. b.files[i].added /\ ~b.files[i].staged /\ i \in 1 .. Len(b.files)
        BY <2>9, <2>11
      <3>2. b.files[i].name \in Tracked(commits[head])
        BY <1>3, <2>5, <3>1 DEF Agrees
      <3>3. QED
        BY <2>9, <3>1, <3>2
    <2>15. BranchSound(x, n, commits, health)
      BY <2>11, <2>12, <2>13, <2>14 DEF BranchSound
    <2>16. /\ branches' \in Seq(BranchRecord) /\ Len(branches') = n /\ branches'[n] = x
           /\ \A i \in 1 .. Len(branches) : branches'[i] = branches[i]
      BY <1>1, <2>2, <2>3, <2>12, AppendProperties
    <2>17. ASSUME NEW i \in 1 .. n
           PROVE  (i \in 1 .. Len(branches) /\ branches'[i] = branches[i]) \/ i = n
      BY <1>3, <2>3, <2>16
    <2>18. ASSUME NEW i \in 1 .. n PROVE BranchSound(branches'[i], i, commits', health')
      <3>1. CASE i \in 1 .. Len(branches) /\ branches'[i] = branches[i]
        BY <1>1, <2>2, <3>1 DEF Invariant
      <3>2. CASE i = n
        BY <1>1, <2>2, <2>15, <2>16, <3>2
      <3>3. QED
        BY <2>17, <3>1, <3>2
    <2>19. \A i \in 1 .. Len(branches) : branches[i].name # nm
      BY <1>1, <1>3 DEF Exists
    <2>20. ASSUME NEW i \in 1 .. n, NEW j \in 1 .. n, branches'[i].name = branches'[j].name
           PROVE  i = j
      <3>1. CASE i \in 1 .. Len(branches) /\ j \in 1 .. Len(branches)
        <4>1. branches[i].name = branches[j].name
          BY <2>16, <2>20, <3>1
        <4>2. QED
          BY <3>1, <4>1 DEF Invariant
      <3>2. CASE i = n /\ j \in 1 .. Len(branches)
        BY <2>12, <2>16, <2>19, <2>20, <3>2
      <3>3. CASE j = n /\ i \in 1 .. Len(branches)
        BY <2>12, <2>16, <2>19, <2>20, <3>3
      <3>4. QED
        BY <2>17, <3>1, <3>2, <3>3
    <2>21. ASSUME NEW i \in 1 .. n PROVE branches'[i].n > 0
      <3>1. CASE i \in 1 .. Len(branches)
        <4>1. health # "undefined"
          BY DEF Sane
        <4>2. branches[i].n > 0
          <5>1. CASE Len(branches) > 1
            BY <3>1, <4>1, <5>1 DEF Invariant
          <5>2. CASE Len(branches) <= 1
            <6>1. i = current
              BY <1>1, <1>3, <3>1, <5>2
            <6>2. QED
              BY <1>2, <2>6, <6>1
          <5>3. QED
            BY <1>3, <5>1, <5>2
        <4>3. QED
          BY <2>16, <3>1, <4>2
      <3>2. CASE i = n
        BY <2>12, <2>16, <3>2
      <3>3. QED
        BY <2>17, <3>1, <3>2
    <2>22. \A k \in 1 .. Len(commits') : CommitSound(commits'[k], health')
      BY CommitsKept, <1>1
    <2>23. current' \in 1 .. Len(branches') /\ health' \in Sane
      BY <1>1, <1>3, <2>2, <2>3, <2>16
    <2>24. QED
      BY <1>1, <2>16, <2>18, <2>20, <2>21, <2>22, <2>23 DEF Invariant, Works
  <1>6. QED
    BY <1>4, <1>5

\* What undoing the changes of the listed files comes to: each gets a content, which
\* depends on its name only.
LEMMA UndoFacts ==
  ASSUME work \in Works, NEW fs \in Seq(Entry), NEW c, c \in CommitRecord,
         Saved(c) \in Seq(Entry), Complete(c), Undo(fs, c)
  PROVE  /\ work' \in Works
         /\ \A k \in 1 .. Len(fs) : work'[fs[k].name] = Restored(work, fs[k], c)
  <1>1. DOMAIN fs = 1 .. Len(fs) /\ \A k \in 1 .. Len(fs) : fs[k] \in Entry /\ fs[k].name \in Paths
    <2>1. \A k \in 1 .. Len(fs) : fs[k] \in Entry
      BY LenProperties
    <2>2. QED
      BY <2>1, LenProperties DEF Entry
  <1> DEFINE place(p) == CHOOSE i \in DOMAIN fs : fs[i].name = p
  <1>2. work' = [p \in Paths |-> IF \E i \in DOMAIN fs : fs[i].name = p
                                 THEN Restored(work, fs[place(p)], c) ELSE work[p]]
    BY DEF Undo
  <1>3. ASSUME NEW p \in Paths, \E i \in DOMAIN fs : fs[i].name = p
        PROVE  /\ place(p) \in 1 .. Len(fs) /\ fs[place(p)].name = p
               /\ Restored(work, fs[place(p)], c) \in Contents \cup {Gone}
    <2>1. PICK j : j = place(p)
      OBVIOUS
    <2>2. j \in 1 .. Len(fs) /\ fs[j].name = p
      BY <1>1, <1>3, <2>1
    <2>3. Restored(work, fs[j], c) \in Contents \cup {Gone}
      BY <1>1, <2>2, RestoredFacts
    <2>4. QED
      BY <2>1, <2>2, <2>3
  <1> HIDE DEF place
  <1>4. \A p \in Paths : work[p] \in Contents \cup {Gone}
    BY DEF Works
  <1>5. work' \in Works
    BY <1>2, <1>3, <1>4 DEF Works
  <1>6. ASSUME NEW k \in 1 .. Len(fs) PROVE work'[fs[k].name] = Restored(work, fs[k], c)
    <2>1. PICK p \in Paths : p = fs[k].name
      BY <1>1
    <2>2. \E i \in DOMAIN fs : fs[i].name = p
      BY <1>1, <2>1
    <2>3. PICK j \in 1 .. Len(fs) : j = place(p) /\ fs[j].name = p
      BY <1>3, <2>2
    <2>4. work'[p] = Restored(work, fs[j], c)
      BY <1>2, <2>2, <2>3
    <2>5. Restored(work, fs[j], c) = Restored(work, fs[k], c)
      BY <2>1, <2>3 DEF Restored, Differs
    <2>6. QED
      BY <2>1, <2>4, <2>5
  <1>7. QED
    BY <1>5, <1>6

\* So it is with the files before one that cannot be written.
LEMMA UndoFailsFacts ==
  ASSUME work \in Works, NEW fs \in Seq(Entry), NEW c, c \in CommitRecord,
         Saved(c) \in Seq(Entry), Complete(c), UndoFails(fs, c)
  PROVE  work' \in Works /\ branches' = branches /\ health' = "exited"
  <1>1. PICK k \in DOMAIN fs : /\ Undo(SubSeq(fs, 1, k - 1), c)
                              /\ health' = "exited" /\ branches' = branches
    BY DEF UndoFails
  <1>2. PICK gs : gs = SubSeq(fs, 1, k - 1)
    OBVIOUS
  <1>3. gs \in Seq(Entry)
    <2>1. k \in 1 .. Len(fs) /\ Len(fs) \in Nat
      BY LenProperties
    <2>2. k - 1 \in 0 .. Len(fs)
      BY <2>1
    <2>3. QED
      BY <1>2, <2>1, <2>2, SubSeqProperties
  <1>4. Undo(gs, c)
    BY <1>1, <1>2
  <1>5. work' \in Works
    BY <1>3, <1>4, UndoFacts
  <1>6. QED
    BY <1>1, <1>5

LEMMA UndoneAllFacts ==
  ASSUME work \in Works, NEW fs \in Seq(Entry), Settled(fs),
         NEW c, c \in CommitRecord, Saved(c) \in Seq(Entry), Settled(Saved(c)), Complete(c)
  PROVE  /\ UndoneAll(fs, c) \in Seq(Entry) /\ Settled(UndoneAll(fs, c))
         /\ Distinct(fs) => Distinct(UndoneAll(fs, c))
         /\ \A b : Owned(fs, b) => Owned(UndoneAll(fs, c), b)
         /\ \A k \in 1 .. Len(UndoneAll(fs, c)) :
              UndoneAll(fs, c)[k].added => UndoneAll(fs, c)[k].name \in Tracked(c)
  <1>1. PICK gs : gs = [i \in 1 .. Len(fs) |-> Undone(work, fs[i], c)]
    OBVIOUS
  <1>2. UndoneAll(fs, c) = gs
    BY <1>1, LenProperties DEF UndoneAll
  <1>3. ASSUME NEW i \in 1 .. Len(fs)
        PROVE  /\ gs[i] \in Entry /\ gs[i].name = fs[i].name
               /\ gs[i].own = fs[i].own /\ ~(gs[i].added /\ gs[i].removed)
               /\ gs[i].added => gs[i].name \in Tracked(c)
    <2>1. fs[i] \in Entry /\ ~(fs[i].added /\ fs[i].removed)
      BY LenProperties DEF Settled
    <2>2. gs[i] = Undone(work, fs[i], c)
      BY <1>1
    <2>3. QED
      BY <2>1, <2>2, UndoneFacts
  <1>4. gs \in [1 .. Len(fs) -> Entry]
    BY <1>1, <1>3
  <1>5. /\ gs \in Seq(Entry) /\ Len(gs) = Len(fs) /\ Settled(gs)
        /\ Distinct(fs) => Distinct(gs)
        /\ \A b : (\A i \in 1 .. Len(fs) : gs[i].own = b) => Owned(gs, b)
    BY <1>3, <1>4, MappedList
  <1>6. ASSUME NEW b, Owned(fs, b) PROVE Owned(gs, b)
    BY <1>3, <1>5, <1>6 DEF Owned
  <1>7. QED
    BY <1>2, <1>3, <1>5, <1>6

LEMMA BranchOfFacts ==
  ASSUME Invariant, NEW nm, Exists(nm)
  PROVE  BranchOf(nm) \in 1 .. Len(branches) /\ branches[BranchOf(nm)].name = nm
  <1>1. DOMAIN branches = 1 .. Len(branches)
    BY LenProperties DEF Invariant
  <1>2. \E i \in 1 .. Len(branches) : branches[i].name = nm
    BY <1>1 DEF Exists
  <1>3. QED
    BY <1>1, <1>2 DEF BranchOf

LEMMA CheckoutKeeps ==
  ASSUME Invariant, health \in Sane, NEW nm \in Names, Checkout(nm)
  PROVE  Invariant'
  <1>1. /\ commits' = commits /\ work \in Works /\ current \in 1 .. Len(branches)
        /\ current' = BranchOf(nm) /\ current' \in 1 .. Len(branches)
    BY BranchOfFacts DEF Checkout, Invariant, Works
  <1>2. PICK i \in 1 .. Len(branches) : i = current'
    BY <1>1
  <1>3. PICK b : b = branches[i]
    OBVIOUS
  <1>4. /\ b.files \in Seq(Entry) /\ Settled(b.files) /\ Owned(b.files, i)
        /\ Distinct(b.files) /\ b.n \in Nat
        /\ \A k \in 1 .. b.n : b.hist[k] \in 1 .. Len(commits) /\ b.hist[k] \in Nat
    BY <1>3, BranchFacts
  <1>5. CASE b.files = <<>>
    <2>1. work' = work /\ branches' = branches /\ health' = health
      BY <1>2, <1>3, <1>5 DEF Checkout
    <2>2. QED
      BY <1>1, <2>1 DEF Invariant
  <1>6. CASE b.files # <<>> /\ (b.n = 0 \/ Dangling(Saved(HeadOf(b))))
    <2>1. work' = work /\ branches' = branches /\ health' = "undefined"
      BY <1>2, <1>3, <1>6 DEF Checkout
    <2>2. QED
      BY <1>1, <2>1, UndefinedKeeps
  <1>7. CASE b.files # <<>> /\ ~(b.n = 0 \/ Dangling(Saved(HeadOf(b))))
    <2>1. PICK c : c = HeadOf(b)
      OBVIOUS
    <2>2. PICK gs : gs = UndoneAll(b.files, c)
      OBVIOUS
    <2>3. \/ Undo(b.files, c) /\ branches' = [branches EXCEPT ![i].files = gs] /\ health' = health
          \/ UndoFails(b.files, c)
      BY <1>2, <1>3, <1>7, <2>1, <2>2 DEF Checkout
    <2>4. PICK head \in 1 .. Len(commits) : head = b.hist[b.n] /\ b.n > 0 /\ c = commits[head]
      BY <1>4, <1>7, <2>1 DEF HeadOf
    <2>5. c \in CommitRecord /\ Saved(c) \in Seq(Entry) /\ Settled(Saved(c)) /\ Complete(c)
      BY <2>4, CommitFacts
    <2>6. CASE UndoFails(b.files, c)
      <3>1. work' \in Works /\ branches' = branches /\ health' = "exited"
        BY <1>1, <1>4, <2>5, <2>6, UndoFailsFacts
      <3>2. QED
        BY <1>1, <3>1, UndefinedKeeps
    <2>7. /\ gs \in Seq(Entry) /\ Settled(gs) /\ Distinct(gs) /\ Owned(gs, i)
          /\ \A k \in 1 .. Len(gs) : gs[k].added => gs[k].name \in Tracked(c)
      BY <1>1, <1>4, <2>2, <2>5, UndoneAllFacts
    <2>8. health = "sound" =>
            \A k \in 1 .. Len(gs) : gs[k].added /\ ~gs[k].staged =>
              /\ branches[i].n > 0
              /\ gs[k].name \in Tracked(commits[branches[i].hist[branches[i].n]])
      BY <1>3, <2>4, <2>7
    <2>9. CASE /\ Undo(b.files, c) /\ health' = health
               /\ branches' = [branches EXCEPT ![i].files = gs]
      <3>1. work' \in Works
        BY <1>1, <1>4, <2>5, <2>9, UndoFacts
      <3>2. QED
        BY <1>1, <2>7, <2>8, <2>9, <3>1, ListChanged
    <2>10. QED
      BY <2>3, <2>6, <2>9
  <1>8. QED
    BY <1>5, <1>6, <1>7

\* svc_reset finds the first place of the id.
LEMMA FirstFacts ==
  ASSUME NEW ps, ps \subseteq Nat \X Nat, ps # {}
  PROVE  First(ps) \in ps
  <1> DEFINE I == { x[1] : x \in ps }
  <1>1. I \subseteq Nat /\ I # {}
    OBVIOUS
  <1>2. PICK i \in I : \A k \in I : i <= k
    <2> HIDE DEF I
    <2>1. QED
      BY <1>1, LeastOf
  <1> DEFINE J == { x[2] : x \in { y \in ps : y[1] = i } }
  <1>3. J \subseteq Nat /\ J # {}
    OBVIOUS
  <1>4. PICK j \in J : \A k \in J : j <= k
    <2> HIDE DEF J
    <2>1. QED
      BY <1>3, LeastOf
  <1>5. PICK x \in ps : x[1] = i /\ x[2] = j
    BY <1>4
  <1>6. ASSUME NEW y \in ps PROVE x[1] < y[1] \/ (x[1] = y[1] /\ x[2] <= y[2])
    <2>1. y[1] \in I /\ y[1] \in Nat /\ i \in Nat /\ i <= y[1]
      BY <1>1, <1>2
    <2>2. CASE i = y[1]
      <3>1. y[2] \in J
        BY <2>2
      <3>2. j <= y[2]
        BY <1>4, <3>1
      <3>3. QED
        BY <1>5, <2>2, <3>2
    <2>3. QED
      BY <1>5, <2>1, <2>2
  <1>7. QED
    BY <1>5, <1>6 DEF First

LEMMA ResetKeeps ==
  ASSUME Invariant, health \in Sane, NEW id, Reset(id)
  PROVE  Invariant'
  <1>1. /\ commits' = commits /\ work \in Works /\ current \in 1 .. Len(branches)
        /\ current' = current /\ branches \in Seq(BranchRecord)
        /\ commits \in Seq(CommitRecord)
        /\ Len(branches) \in Nat /\ DOMAIN branches = 1 .. Len(branches)
    BY LenProperties DEF Reset, Invariant, Works
  <1>2. PICK x : x = First(Places(id))
    OBVIOUS
  <1>3. PICK i \in 1 .. Len(branches), j \in Nat :
          i = x[1] /\ j = x[2] /\ 1 <= j /\ j <= branches[i].n
    <2>1. Places(id) # {}
      BY DEF Reset
    <2>2. Places(id) \subseteq Nat \X Nat
      BY <1>1 DEF Places
    <2>3. x \in Places(id)
      BY <1>2, <2>1, <2>2, FirstFacts
    <2>4. QED
      BY <1>1, <2>3, BoundAssumption DEF Places
  <1>4. PICK b : b = branches[current]
    OBVIOUS
  <1>5. /\ b.files \in Seq(Entry) /\ Settled(b.files) /\ Owned(b.files, current)
        /\ Distinct(b.files) /\ b.n \in Nat /\ b.n <= Len(b.hist) /\ Len(b.hist) \in Nat
        /\ b \in BranchRecord /\ b.name \in Names /\ b.hist \in Seq(Nat)
        /\ ChainOf(b.hist, commits)
    BY <1>1, <1>4, BranchFacts
  <1>6. PICK o : o = branches[i]
    OBVIOUS
  <1>7. /\ o.files \in Seq(Entry) /\ Settled(o.files) /\ Owned(o.files, i)
        /\ Distinct(o.files) /\ o.n \in Nat /\ o.n <= Len(o.hist) /\ Len(o.hist) \in Nat
        /\ o \in BranchRecord /\ o.name \in Names /\ o.hist \in Seq(Nat)
        /\ ChainOf(o.hist, commits) /\ j <= o.n
        /\ \A k \in 1 .. o.n : o.hist[k] \in 1 .. Len(commits)
    BY <1>3, <1>6, BranchFacts
  <1>8. PICK head \in 1 .. Len(commits) : head = o.hist[j]
    BY <1>3, <1>7
  <1>9. PICK c : c = commits[head]
    OBVIOUS
  <1>10. c \in CommitRecord /\ Saved(c) \in Seq(Entry) /\ Settled(Saved(c)) /\ Complete(c)
    BY <1>9, CommitFacts
  <1>11. CASE Dangling(Saved(c)) /\ b.files # <<>>
    <2>1. health' = "undefined" /\ work' = work /\ branches' = branches
      BY <1>2, <1>3, <1>4, <1>6, <1>8, <1>9, <1>11 DEF Reset, Here
    <2>2. QED
      BY <1>1, <2>1, UndefinedKeeps
  <1>12. CASE UndoFails(b.files, c)
    <2>1. work' \in Works /\ branches' = branches /\ health' = "exited"
      BY <1>1, <1>5, <1>10, <1>12, UndoFailsFacts
    <2>2. QED
      BY <1>1, <2>1, UndefinedKeeps
  <1>13. CASE ~(Dangling(Saved(c)) /\ b.files # <<>>) /\ ~UndoFails(b.files, c)
    <2>1. PICK gs : gs = UndoneAll(b.files, c)
      OBVIOUS
    <2>2. PICK cut : cut = Cut(i, j)
      OBVIOUS
    <2>3. /\ Undo(b.files, c) /\ branches' = [cut EXCEPT ![current].files = gs]
          /\ health' = HealthAfter(i, j)
      BY <1>2, <1>3, <1>4, <1>6, <1>8, <1>9, <1>13, <2>1, <2>2 DEF Reset, Here
    <2>4. work' \in Works
      BY <1>1, <1>5, <1>10, <2>3, UndoFacts
    <2>5. /\ gs \in Seq(Entry) /\ Settled(gs) /\ Distinct(gs) /\ Owned(gs, current)
          /\ \A k \in 1 .. Len(gs) : gs[k].added => gs[k].name \in Tracked(c)
      BY <1>1, <1>5, <1>10, <2>1, UndoneAllFacts
    <2>6. /\ health' \in {"sound", "strayed", "undefined"}
          /\ health' = "sound" => i = current /\ health = "sound"
          /\ health' # "undefined" => j <= Len(b.hist)
      <3>1. CASE j > Len(b.hist)
        BY <1>4, <2>3, <3>1 DEF HealthAfter, Here
      <3>2. CASE ~(j > Len(b.hist)) /\ i # current /\ health = "sound"
        BY <1>4, <1>3, <1>5, <2>3, <3>2 DEF HealthAfter, Here
      <3>3. CASE ~(j > Len(b.hist)) /\ ~(i # current /\ health = "sound")
        BY <1>4, <1>3, <1>5, <2>3, <3>3 DEF HealthAfter, Here, Sane
      <3>4. QED
        BY <3>1, <3>2, <3>3
    <2>7. cut = [k \in 1 .. Len(branches) |->
                   IF k \in {i, current} THEN [branches[k] EXCEPT !.n = j] ELSE branches[k]]
      BY <1>1, <2>2 DEF Cut
    <2>8. PICK y : y = [[b EXCEPT !.n = j] EXCEPT !.files = gs]
      OBVIOUS
    <2>9. PICK z : z = [o EXCEPT !.n = j]
      OBVIOUS
    <2>10. /\ y \in BranchRecord /\ y.n = j /\ y.files = gs /\ y.hist = b.hist /\ y.name = b.name
      BY <1>5, <2>5, <2>8 DEF BranchRecord
    <2>11. /\ z \in BranchRecord /\ z.n = j /\ z.files = o.files /\ z.hist = o.hist
           /\ z.name = o.name
      BY <1>7, <2>9 DEF BranchRecord
    <2>12. /\ DOMAIN branches' = 1 .. Len(branches) /\ branches'[current] = y
           /\ i # current => branches'[i] = z
           /\ \A k \in 1 .. Len(branches) : k \notin {i, current} => branches'[k] = branches[k]
           /\ branches' = [k \in 1 .. Len(branches) |-> branches'[k]]
      BY <1>1, <1>4, <1>6, <2>3, <2>7, <2>8, <2>9
    <2>13. BranchSound(y, current, commits, health')
      <3>1. ASSUME health' = "sound" PROVE Agrees(y, commits)
        <4>1. b = o /\ y.hist[y.n] = head
          BY <1>4, <1>6, <1>8, <2>6, <2>10, <3>1
        <4>2. QED
          BY <1>3, <1>9, <2>5, <2>10, <4>1 DEF Agrees
      <3>2. QED
        BY <1>5, <2>5, <2>6, <2>10, <3>1 DEF BranchSound
    <2>14. i # current => BranchSound(z, i, commits, health')
      BY <1>3, <1>7, <2>6, <2>11 DEF BranchSound
    <2>15. ASSUME NEW k \in 1 .. Len(branches)
           PROVE  /\ BranchSound(branches'[k], k, commits, health')
                  /\ branches'[k] \in BranchRecord /\ branches'[k].name = branches[k].name
                  /\ branches[k].n > 0 => branches'[k].n > 0
      <3>1. CASE k = current
        BY <1>3, <1>4, <2>10, <2>12, <2>13, <3>1
      <3>2. CASE k = i /\ i # current
        BY <1>3, <1>6, <2>11, <2>12, <2>14, <3>2
      <3>3. CASE k \notin {i, current}
        <4>1. BranchSound(branches[k], k, commits, health) /\ branches[k] \in BranchRecord
          BY DEF Invariant, BranchSound
        <4>2. Follows(commits, commits) /\ TracksOn(commits, commits)
          BY <1>1, LenProperties DEF Follows, TracksOn
        <4>3. BranchSound(branches[k], k, commits, health')
          BY <1>1, <2>6, <4>1, <4>2, BranchCarried
        <4>4. QED
          BY <2>12, <3>3, <4>1, <4>3
      <3>4. QED
        BY <3>1, <3>2, <3>3
    <2>16. branches' \in Seq(BranchRecord) /\ Len(branches') = Len(branches)
      <3>1. branches' \in [1 .. Len(branches) -> BranchRecord]
        BY <2>12, <2>15
      <3>2. QED
        BY <1>1, <3>1, SeqDef, LenProperties
    <2>17. \A k, l \in 1 .. Len(branches) : branches'[k].name = branches'[l].name => k = l
      BY <2>15 DEF Invariant
    <2>18. Len(branches) > 1 => \A k \in 1 .. Len(branches) : branches'[k].n > 0
      <3>1. health # "undefined"
        BY DEF Sane
      <3>2. QED
        BY <2>15, <3>1 DEF Invariant
    <2>19. \A k \in 1 .. Len(commits') : CommitSound(commits'[k], health')
      BY <1>1, CommitsKept
    <2>20. QED
      BY <1>1, <2>4, <2>6, <2>15, <2>16, <2>17, <2>18, <2>19 DEF Invariant, Works, Sane
  <1>14. QED
    BY <1>11, <1>12, <1>13

-----------------------------------------------------------------------------
(* What a merge makes of the entries of commits                            *)

Paired(s, t, R) == Len(s) = Len(t) /\ \A i \in 1 .. Len(s) : <<s[i], t[i]>> \in R

LEMMA PairedConcat ==
  ASSUME NEW s \in Seq(Entry), NEW s2 \in Seq(Entry), NEW t \in Seq(Entry), NEW t2 \in Seq(Entry),
         NEW R, Paired(s, s2, R), Paired(t, t2, R)
  PROVE  Paired(s \o t, s2 \o t2, R)
  <1>1. /\ Len(s) \in Nat /\ Len(t) \in Nat /\ Len(s2) = Len(s) /\ Len(t2) = Len(t)
        /\ \A i \in 1 .. Len(s) : <<s[i], s2[i]>> \in R
        /\ \A i \in 1 .. Len(t) : <<t[i], t2[i]>> \in R
    BY LenProperties DEF Paired
  <1>2. PICK u : u = s \o t
    OBVIOUS
  <1>3. PICK u2 : u2 = s2 \o t2
    OBVIOUS
  <1>4. /\ Len(u) = Len(s) + Len(t)
        /\ \A i \in 1 .. Len(s) : u[i] = s[i]
        /\ \A i \in 1 .. Len(t) : u[Len(s) + i] = t[i]
    BY <1>2, ConcatMembers
  <1>5. /\ Len(u2) = Len(s2) + Len(t2)
        /\ \A i \in 1 .. Len(s2) : u2[i] = s2[i]
        /\ \A i \in 1 .. Len(t2) : u2[Len(s2) + i] = t2[i]
    BY <1>3, ConcatMembers
  <1>6. ASSUME NEW i \in 1 .. Len(u) PROVE <<u[i], u2[i]>> \in R
    <2>1. CASE i \in 1 .. Len(s)
      BY <1>1, <1>4, <1>5, <2>1
    <2>2. CASE i \notin 1 .. Len(s)
      <3>1. PICK j \in 1 .. Len(t) : i = Len(s) + j
        <4>1. i - Len(s) \in 1 .. Len(t) /\ i = Len(s) + (i - Len(s))
          BY <1>1, <1>4, <2>2
        <4>2. QED
          BY <4>1
      <3>2. u[i] = t[j] /\ u2[i] = t2[j]
        BY <1>1, <1>4, <1>5, <3>1
      <3>3. QED
        BY <1>1, <3>2
    <2>3. QED
      BY <2>1, <2>2
  <1>7. QED
    BY <1>1, <1>2, <1>3, <1>4, <1>5, <1>6 DEF Paired

\* The commit d has the entries of c up to R and the rest of it as it is.
Derived(d, c, R) ==
  /\ d \in CommitRecord /\ d.parents = c.parents /\ d.dir = c.dir
  /\ Paired(c.added, d.added, R) /\ Paired(c.modified, d.modified, R)
  /\ Paired(c.removed, d.removed, R) /\ Paired(c.tracked, d.tracked, R)

\* What a merge may do to an entry at all, what a resolution may do, and what a new name may
Kin == { x \in Entry \X Entry :
           /\ x[2].hash = x[1].hash /\ (x[2].added => x[1].added)
           /\ x[2].added /\ x[2].removed => x[1].added /\ x[1].removed }
Weaker == { x \in Kin : x[2].name = x[1].name /\ x[2].own = x[1].own }
Alike == { x \in Kin : /\ x[2].added = x[1].added
                       /\ x[2].own = 0 => x[2].name = x[1].name }

LEMMA DerivedLists ==
  ASSUME NEW c \in CommitRecord, NEW d, NEW R, Derived(d, c, R)
  PROVE  /\ Paired(Saved(c), Saved(d), R) /\ Paired(Entries(c), Entries(d), R)
         /\ Saved(c) \in Seq(Entry) /\ Saved(d) \in Seq(Entry)
         /\ Entries(c) \in Seq(Entry) /\ Entries(d) \in Seq(Entry)
         /\ \A i \in 1 .. Len(Saved(c)) :
              /\ i \in DOMAIN Entries(c)
              /\ Entries(c)[i] = Saved(c)[i] /\ Entries(d)[i] = Saved(d)[i]
  <1>1. /\ c.added \in Seq(Entry) /\ c.modified \in Seq(Entry)
        /\ c.removed \in Seq(Entry) /\ c.tracked \in Seq(Entry)
        /\ d.added \in Seq(Entry) /\ d.modified \in Seq(Entry)
        /\ d.removed \in Seq(Entry) /\ d.tracked \in Seq(Entry)
    BY DEF Derived, CommitRecord
  <1>2. PICK s \in Seq(Entry) : s = c.added \o c.modified
    BY <1>1, ConcatMembers
  <1>3. PICK s2 \in Seq(Entry) : s2 = d.added \o d.modified
    BY <1>1, ConcatMembers
  <1>4. Paired(s, s2, R)
    BY <1>1, <1>2, <1>3, PairedConcat DEF Derived
  <1>5. PICK t \in Seq(Entry) : t = s \o c.tracked
    BY <1>1, ConcatMembers
  <1>6. PICK t2 \in Seq(Entry) : t2 = s2 \o d.tracked
    BY <1>1, ConcatMembers
  <1>7. Paired(t, t2, R)
    BY <1>1, <1>4, <1>5, <1>6, PairedConcat DEF Derived
  <1>8. Saved(c) = t /\ Saved(d) = t2
    BY <1>2, <1>3, <1>5, <1>6 DEF Saved
  <1>9. PICK u \in Seq(Entry) : u = t \o c.removed
    BY <1>1, ConcatMembers
  <1>10. PICK u2 \in Seq(Entry) : u2 = t2 \o d.removed
    BY <1>1, ConcatMembers
  <1>11. Paired(u, u2, R)
    BY <1>1, <1>7, <1>9, <1>10, PairedConcat DEF Derived
  <1>12. Entries(c) = u /\ Entries(d) = u2
    BY <1>8, <1>9, <1>10 DEF Entries
  <1>13. /\ \A i \in 1 .. Len(t) : u[i] = t[i]
         /\ \A i \in 1 .. Len(t2) : u2[i] = t2[i]
         /\ Len(u) = Len(t) + Len(c.removed)
    BY <1>1, <1>9, <1>10, ConcatMembers
  <1>14. /\ Len(t2) = Len(t) /\ Len(t) \in Nat /\ Len(c.removed) \in Nat
         /\ DOMAIN u = 1 .. Len(u)
    BY <1>1, <1>7, LenProperties DEF Paired
  <1>15. \A i \in 1 .. Len(t) : i \in DOMAIN u /\ u[i] = t[i] /\ u2[i] = t2[i]
    BY <1>13, <1>14
  <1>16. QED
    BY <1>7, <1>8, <1>11, <1>12, <1>15

LEMMA DerivedWider ==
  ASSUME NEW c, NEW d, NEW R, NEW S, R \subseteq S, Derived(d, c, R)
  PROVE  Derived(d, c, S)
  BY DEF Derived, Paired

\* A commit stays sound when its entries change within Kin, if they keep their names.
LEMMA DerivedSound ==
  ASSUME NEW h \in Sane, NEW c, CommitSound(c, h), NEW d, Derived(d, c, Kin), NEW g,
         g \in Sane => \A i \in 1 .. Len(Saved(c)) : Saved(d)[i].name = Saved(c)[i].name
  PROVE  CommitSound(d, g) /\ (g \in Sane => Tracked(d) = Tracked(c))
  <1>1. c \in CommitRecord /\ Complete(c) /\ Settled(Saved(c)) /\ d \in CommitRecord
    BY DEF CommitSound, Derived
  <1>2. /\ Paired(Saved(c), Saved(d), Kin)
        /\ Saved(c) \in Seq(Entry) /\ Saved(d) \in Seq(Entry)
    BY <1>1, DerivedLists
  <1>3. PICK s \in Seq(Entry) : s = Saved(c)
    BY <1>2
  <1>4. PICK t \in Seq(Entry) : t = Saved(d)
    BY <1>2
  <1>5. /\ Len(t) = Len(s) /\ DOMAIN t = 1 .. Len(s) /\ DOMAIN s = 1 .. Len(s)
        /\ \A i \in 1 .. Len(s) : <<s[i], t[i]>> \in Kin
    BY <1>2, <1>3, <1>4, LenProperties DEF Paired
  <1>6. \A i \in 1 .. Len(s) :
          t[i].hash = s[i].hash /\ (t[i].added /\ t[i].removed => s[i].added /\ s[i].removed)
    BY <1>5 DEF Kin
  <1>7. Settled(t)
    BY <1>1, <1>3, <1>5, <1>6 DEF Settled
  <1>8. ASSUME NEW i \in 1 .. Len(d.removed) PROVE ~d.removed[i].added
    <2>1. Paired(c.removed, d.removed, Kin)
      BY DEF Derived
    <2>2. <<c.removed[i], d.removed[i]>> \in Kin /\ i \in 1 .. Len(c.removed)
      BY <2>1 DEF Paired
    <2>3. ~c.removed[i].added
      BY <2>2 DEF CommitSound
    <2>4. QED
      BY <2>2, <2>3 DEF Kin
  <1>9. ASSUME g \in Sane PROVE Complete(d) /\ Tracked(d) = Tracked(c)
    <2>1. \A i \in 1 .. Len(s) : t[i].name = s[i].name
      BY <1>3, <1>4, <1>9
    <2>2. Tracked(d) = Tracked(c)
      <3>1. \A p : p \in Tracked(d) <=> p \in Tracked(c)
        BY <1>3, <1>4, <1>5, <2>1 DEF Tracked
      <3>2. QED
        BY <3>1
    <2>3. ASSUME NEW i \in 1 .. Len(s)
          PROVE  /\ Base[t[i].name] \in DOMAIN d.dir
                 /\ Alone(d, t[i]) => \E x \in Meant(t[i]) : d.dir[Base[t[i].name]] = CopyOf[x]
      <3>1. t[i].name = s[i].name /\ t[i].hash = s[i].hash /\ d.dir = c.dir
        BY <1>6, <2>1 DEF Derived
      <3>2. Alone(d, t[i]) => Alone(c, s[i])
        BY <1>3, <1>4, <1>5, <2>1, <3>1 DEF Alone
      <3>3. /\ Base[s[i].name] \in DOMAIN c.dir
            /\ Alone(c, s[i]) => \E x \in Meant(s[i]) : c.dir[Base[s[i].name]] = CopyOf[x]
        BY <1>1, <1>3 DEF Complete
      <3>4. Meant(t[i]) = Meant(s[i])
        BY <3>1 DEF Meant
      <3>5. QED
        BY <3>1, <3>2, <3>3, <3>4
    <2>4. Complete(d)
      BY <1>4, <1>5, <2>3 DEF Complete
    <2>5. QED
      BY <2>2, <2>4
  <1>10. QED
    BY <1>1, <1>4, <1>7, <1>8, <1>9 DEF CommitSound

\* A resolution keeps name and hash of each entry.
LEMMA ResolvedFacts ==
  ASSUME NEW c \in CommitRecord, NEW res
  PROVE  Derived(Resolved(c, res), c, Weaker)
  <1>1. ASSUME NEW es \in Seq(Entry)
        PROVE  ResolveAll(es, res) \in Seq(Entry) /\ Paired(es, ResolveAll(es, res), Weaker)
    <2>1. PICK gs : gs = [i \in 1 .. Len(es) |-> Resolve(es[i], res)]
      OBVIOUS
    <2>2. ResolveAll(es, res) = gs
      BY <2>1, LenProperties DEF ResolveAll
    <2>3. ASSUME NEW i \in 1 .. Len(es) PROVE gs[i] \in Entry /\ <<es[i], gs[i]>> \in Weaker
      <3>1. PICK e \in Entry : e = es[i]
        BY LenProperties
      <3>2. PICK g : g = Resolve(e, res)
        OBVIOUS
      <3>3. \/ g = e
            \/ g = [e EXCEPT !.added = FALSE, !.removed = TRUE]
        BY <3>2 DEF Resolve
      <3>4. /\ g \in Entry /\ g.hash = e.hash /\ g.name = e.name /\ g.own = e.own
            /\ g.added => e.added
            /\ g.added /\ g.removed => e.added /\ e.removed
        <4>1. CASE g = e
          BY <4>1
        <4>2. CASE g = [e EXCEPT !.added = FALSE, !.removed = TRUE]
          BY <4>2 DEF Entry
        <4>3. QED
          BY <3>3, <4>1, <4>2
      <3>5. <<e, g>> \in Weaker
        BY <3>4 DEF Weaker, Kin
      <3>6. QED
        BY <2>1, <3>1, <3>2, <3>4, <3>5
    <2>4. gs \in Seq(Entry) /\ Len(gs) = Len(es)
      <3>1. gs \in [1 .. Len(es) -> Entry] /\ Len(es) \in Nat
        BY <2>1, <2>3, LenProperties
      <3>2. QED
        BY <3>1, SeqDef, LenProperties
    <2>5. QED
      BY <2>2, <2>3, <2>4 DEF Paired
  <1>2. /\ c.added \in Seq(Entry) /\ c.modified \in Seq(Entry)
        /\ c.removed \in Seq(Entry) /\ c.tracked \in Seq(Entry)
    BY DEF CommitRecord
  <1>3. PICK d : d = Resolved(c, res)
    OBVIOUS
  <1>4. /\ d.added = ResolveAll(c.added, res) /\ d.modified = ResolveAll(c.modified, res)
        /\ d.removed = ResolveAll(c.removed, res) /\ d.tracked = ResolveAll(c.tracked, res)
        /\ d.parents = c.parents /\ d.dir = c.dir /\ d.id = c.id
        /\ d = [id |-> d.id, dir |-> d.dir, parents |-> d.parents, added |-> d.added,
                removed |-> d.removed, modified |-> d.modified, tracked |-> d.tracked]
    BY <1>3 DEF Resolved, CommitRecord
  <1>5. d \in CommitRecord
    BY <1>1, <1>2, <1>4 DEF CommitRecord
  <1>6. QED
    BY <1>1, <1>2, <1>3, <1>4, <1>5 DEF Derived

\* A new name is the only thing a merge gives to an entry of a history; the names it frees
\* stay as they were read.
LEMMA RenamedFacts ==
  ASSUME NEW e \in Entry, NEW mine, NEW fs \in Seq(Entry), current \in 1 .. Cardinality(Names)
  PROVE  Renamed(e, mine, fs) \in Entry /\ <<e, Renamed(e, mine, fs)>> \in Alike
  <1> DEFINE same == {k \in DOMAIN fs : fs[k].hash = e.hash}
             last == CHOOSE k \in same : \A l \in same : l <= k
  <1>1. Len(fs) \in Nat /\ DOMAIN fs = 1 .. Len(fs) /\ \A k \in 1 .. Len(fs) : fs[k] \in Entry
    BY LenProperties
  <1>2. PICK g : g = Renamed(e, mine, fs)
    OBVIOUS
  <1>3. g = IF mine /\ same # {} THEN [e EXCEPT !.name = fs[last].name, !.own = current]
            ELSE IF e.own = current THEN [e EXCEPT !.own = 0] ELSE e
    BY <1>2 DEF Renamed
  <1>4. Cardinality(Names) \in Nat
    BY NamesAssumption, FS_CardinalityType
  <1>5. ASSUME same # {} PROVE fs[last].name \in Paths
    <2>1. same \subseteq 0 .. Len(fs)
      BY <1>1
    <2> HIDE DEF same
    <2>2. Max(same) \in same /\ \A l \in same : l <= Max(same)
      BY <1>1, <1>5, <2>1, GreatestOf
    <2>3. last \in same
      BY <2>2
    <2>4. last \in 1 .. Len(fs)
      BY <1>1, <2>3 DEF same
    <2> HIDE DEF last
    <2>5. QED
      BY <1>1, <2>4 DEF Entry
  <1> HIDE DEF same, last
  <1>6. CASE mine /\ same # {}
    <2>1. PICK p \in Paths : p = fs[last].name
      BY <1>5, <1>6
    <2>2. g = [e EXCEPT !.name = p, !.own = current]
      BY <1>3, <1>6, <2>1
    <2>3. g \in Entry /\ g.own # 0 /\ g.hash = e.hash /\ g.added = e.added /\ g.removed = e.removed
      <3>1. current \in 0 .. Cardinality(Names) /\ current # 0
        BY <1>4
      <3>2. g \in Entry
        BY <2>2, <3>1 DEF Entry
      <3>3. g.own = current
        BY <2>2 DEF Entry
      <3>4. g.hash = e.hash /\ g.added = e.added /\ g.removed = e.removed
        BY <2>2 DEF Entry
      <3>5. QED
        BY <3>1, <3>2, <3>3, <3>4
    <2>4. <<e, g>> \in Alike
      BY <2>3 DEF Alike, Kin
    <2>5. QED
      BY <1>2, <2>3, <2>4
  <1>7. CASE ~(mine /\ same # {}) /\ e.own = current
    <2>1. g = [e EXCEPT !.own = 0]
      BY <1>3, <1>7
    <2>2. g \in Entry /\ g.name = e.name /\ g.hash = e.hash /\ g.added = e.added /\ g.removed = e.removed
      <3>1. 0 \in 0 .. Cardinality(Names)
        BY <1>4
      <3>2. g \in Entry
        BY <2>1, <3>1 DEF Entry
      <3>3. g.name = e.name /\ g.hash = e.hash /\ g.added = e.added /\ g.removed = e.removed
        BY <2>1 DEF Entry
      <3>4. QED
        BY <3>2, <3>3
    <2>3. <<e, g>> \in Alike
      BY <2>2 DEF Alike, Kin
    <2>4. QED
      BY <1>2, <2>2, <2>3
  <1>8. CASE ~(mine /\ same # {}) /\ e.own # current
    <2>1. g = e
      BY <1>3, <1>8
    <2>2. <<e, e>> \in Alike
      BY DEF Alike, Kin
    <2>3. QED
      BY <1>2, <2>1, <2>2
  <1>9. QED
    BY <1>6, <1>7, <1>8

LEMMA RepointedFacts ==
  ASSUME NEW cs \in Seq(CommitRecord), NEW fs \in Seq(Entry), current \in 1 .. Cardinality(Names)
  PROVE  /\ Repointed(cs, fs) \in Seq(CommitRecord) /\ Len(Repointed(cs, fs)) = Len(cs)
         /\ \A k \in 1 .. Len(cs) : Derived(Repointed(cs, fs)[k], cs[k], Alike)
  <1>1. ASSUME NEW es \in Seq(Entry), NEW mine
        PROVE  RenamedAll(es, mine, fs) \in Seq(Entry) /\ Paired(es, RenamedAll(es, mine, fs), Alike)
    <2>1. PICK gs : gs = [i \in 1 .. Len(es) |-> Renamed(es[i], mine, fs)]
      OBVIOUS
    <2>2. RenamedAll(es, mine, fs) = gs
      BY <2>1, LenProperties DEF RenamedAll
    <2>3. ASSUME NEW i \in 1 .. Len(es) PROVE gs[i] \in Entry /\ <<es[i], gs[i]>> \in Alike
      <3>1. PICK e \in Entry : e = es[i]
        BY LenProperties
      <3>2. Renamed(e, mine, fs) \in Entry /\ <<e, Renamed(e, mine, fs)>> \in Alike
        BY RenamedFacts
      <3>3. QED
        BY <2>1, <3>1, <3>2
    <2>4. gs \in Seq(Entry) /\ Len(gs) = Len(es)
      <3>1. gs \in [1 .. Len(es) -> Entry] /\ Len(es) \in Nat
        BY <2>1, <2>3, LenProperties
      <3>2. QED
        BY <3>1, SeqDef, LenProperties
    <2>5. QED
      BY <2>2, <2>3, <2>4 DEF Paired
  <1>2. Len(cs) \in Nat /\ DOMAIN cs = 1 .. Len(cs)
    BY LenProperties
  <1>3. PICK ds : ds = [k \in 1 .. Len(cs) |->
          [cs[k] EXCEPT !.added = RenamedAll(@, k \in Mine, fs),
                        !.modified = RenamedAll(@, k \in Mine, fs),
                        !.removed = RenamedAll(@, k \in Mine, fs),
                        !.tracked = RenamedAll(@, k \in Mine, fs)]]
    OBVIOUS
  <1>4. Repointed(cs, fs) = ds
    BY <1>2, <1>3 DEF Repointed
  <1>5. ASSUME NEW k \in 1 .. Len(cs) PROVE ds[k] \in CommitRecord /\ Derived(ds[k], cs[k], Alike)
    <2>1. PICK c \in CommitRecord : c = cs[k]
      BY LenProperties
    <2>2. PICK mine : mine = (k \in Mine)
      OBVIOUS
    <2>3. PICK d : d = ds[k]
      OBVIOUS
    <2>4. d = [c EXCEPT !.added = RenamedAll(@, mine, fs), !.modified = RenamedAll(@, mine, fs),
                        !.removed = RenamedAll(@, mine, fs), !.tracked = RenamedAll(@, mine, fs)]
      BY <1>3, <2>1, <2>2, <2>3
    <2>5. /\ c.added \in Seq(Entry) /\ c.modified \in Seq(Entry)
          /\ c.removed \in Seq(Entry) /\ c.tracked \in Seq(Entry)
      BY DEF CommitRecord
    <2>6. /\ d.added = RenamedAll(c.added, mine, fs) /\ d.modified = RenamedAll(c.modified, mine, fs)
          /\ d.removed = RenamedAll(c.removed, mine, fs)
          /\ d.tracked = RenamedAll(c.tracked, mine, fs)
          /\ d.parents = c.parents /\ d.dir = c.dir /\ d.id = c.id
          /\ d = [id |-> d.id, dir |-> d.dir, parents |-> d.parents, added |-> d.added,
                  removed |-> d.removed, modified |-> d.modified, tracked |-> d.tracked]
      BY <2>4 DEF CommitRecord
    <2>7. d \in CommitRecord
      <3>1. /\ d.added \in Seq(Entry) /\ d.modified \in Seq(Entry)
            /\ d.removed \in Seq(Entry) /\ d.tracked \in Seq(Entry)
        BY <1>1, <2>5, <2>6
      <3>2. /\ c.id \in (Messages \cup Names) \X SUBSET ({"added", "removed", "modified"} \X Paths)
            /\ c.dir \in Dirs /\ c.parents \in Seq(Nat)
        BY DEF CommitRecord
      <3>3. QED
        BY <2>6, <3>1, <3>2 DEF CommitRecord
    <2>8. Derived(d, c, Alike)
      BY <1>1, <2>5, <2>6, <2>7 DEF Derived
    <2>9. QED
      BY <2>1, <2>3, <2>7, <2>8
  <1>6. ds \in Seq(CommitRecord) /\ Len(ds) = Len(cs)
    <2>1. ds \in [1 .. Len(cs) -> CommitRecord]
      BY <1>3, <1>5
    <2>2. QED
      BY <1>2, <2>1, SeqDef, LenProperties
  <1>7. QED
    BY <1>4, <1>5, <1>6

\* The entries taken over from the other head
LEMMA ForeignFacts ==
  ASSUME NEW es \in Seq(Entry), NEW st
  PROVE  /\ Foreign(es, st) \in Seq(Entry)
         /\ \A x : Has(Foreign(es, st), x) =>
              /\ x \in Entry /\ (st => x.staged)
              /\ \E e : /\ Has(es, e) /\ e \in Entry
                        /\ x.added = e.added /\ x.removed = e.removed
         /\ \A e : Has(es, e) /\ e.name \notin Listed(Here) =>
              \E x : Has(Foreign(es, st), x) /\ x.name = e.name /\ x.added = e.added
  <1>0. PICK K : K = {e \in ToSet(es) : e.name \notin Listed(Here)}
    OBVIOUS
  <1>1. PICK new : new = Picked(es, K)
    OBVIOUS
  <1>2. DOMAIN es = 1 .. Len(es) /\ \A j \in 1 .. Len(es) : es[j] \in Entry /\ es[j] \in ToSet(es)
    BY LenProperties DEF ToSet
  <1>3. /\ new \in Seq(Entry)
        /\ \A i \in 1 .. Len(new) : \E j \in 1 .. Len(es) : es[j] = new[i]
        /\ \A j \in 1 .. Len(es) : es[j] \in K => \E i \in 1 .. Len(new) : new[i] = es[j]
    <2>1. new \in Seq(Entry)
      BY <1>1, PickedFacts
    <2>2. \A i \in 1 .. Len(new) : new[i] \in K /\ \E j \in 1 .. Len(es) : es[j] = new[i]
      BY <1>1, PickedFacts
    <2>3. \A j \in 1 .. Len(es) : es[j] \in K => \E i \in 1 .. Len(new) : new[i] = es[j]
      BY <1>1, PickedFacts
    <2>4. QED
      BY <2>1, <2>2, <2>3
  <1>4. PICK out : out = [i \in 1 .. Len(new) |-> IF st THEN [new[i] EXCEPT !.staged = TRUE] ELSE new[i]]
    OBVIOUS
  <1>5. Foreign(es, st) = out
    <2>1. DOMAIN new = 1 .. Len(new)
      BY <1>3, LenProperties
    <2>2. QED
      BY <1>0, <1>1, <1>4, <2>1 DEF Foreign
  <1>6. ASSUME NEW i \in 1 .. Len(new)
        PROVE  /\ out[i] \in Entry /\ (st => out[i].staged) /\ out[i].name = new[i].name
               /\ out[i].added = new[i].added /\ out[i].removed = new[i].removed
               /\ new[i] \in Entry
    <2>1. PICK e \in Entry : e = new[i]
      BY <1>3, LenProperties
    <2>2. CASE st
      <3>1. out[i] = [e EXCEPT !.staged = TRUE]
        BY <1>4, <2>1, <2>2
      <3>2. QED
        BY <2>1, <3>1 DEF Entry
    <2>3. CASE ~st
      <3>1. out[i] = e
        BY <1>4, <2>1, <2>3
      <3>2. QED
        BY <2>1, <2>3, <3>1
    <2>4. QED
      BY <2>2, <2>3
  <1>7. out \in Seq(Entry) /\ Len(out) = Len(new)
    <2>1. out \in [1 .. Len(new) -> Entry] /\ Len(new) \in Nat
      BY <1>3, <1>4, <1>6, LenProperties
    <2>2. QED
      BY <2>1, SeqDef, LenProperties
  <1>8. ASSUME NEW x, Has(out, x)
        PROVE  /\ x \in Entry /\ (st => x.staged)
               /\ \E e : Has(es, e) /\ e \in Entry /\ x.added = e.added /\ x.removed = e.removed
    <2>1. PICK i \in 1 .. Len(new) : out[i] = x
      BY <1>7, <1>8 DEF Has
    <2>2. Has(es, new[i])
      BY <1>3 DEF Has
    <2>3. QED
      BY <1>6, <2>1, <2>2
  <1>9. ASSUME NEW e, Has(es, e), e.name \notin Listed(Here)
        PROVE  \E x : Has(out, x) /\ x.name = e.name /\ x.added = e.added
    <2>1. PICK j \in 1 .. Len(es) : es[j] = e
      BY <1>9 DEF Has
    <2>2. es[j] \in K
      BY <1>0, <1>2, <1>9, <2>1
    <2>3. PICK i \in 1 .. Len(new) : new[i] = e
      BY <1>3, <2>1, <2>2
    <2>4. Has(out, out[i])
      BY <1>7 DEF Has
    <2>5. QED
      BY <1>6, <2>3, <2>4
  <1>10. QED
    BY <1>5, <1>7, <1>8, <1>9

\* The two ways a merge takes them over: as new files, or as they are.
LEMMA ForeignStaged ==
  ASSUME NEW es \in Seq(Entry)
  PROVE  \E fs \in Seq(Entry) :
           /\ fs = Foreign(es, TRUE)
           /\ \A x : Has(fs, x) =>
                /\ x \in Entry /\ x.staged
                /\ \E e : /\ Has(es, e) /\ e \in Entry
                          /\ x.added = e.added /\ x.removed = e.removed
           /\ \A e : Has(es, e) /\ e.name \notin Listed(Here) =>
                \E x : Has(fs, x) /\ x.name = e.name /\ x.added = e.added
  <1>1. PICK st : st = TRUE
    OBVIOUS
  <1>2. Foreign(es, TRUE) = Foreign(es, st)
    BY <1>1, Zenon
  <1>3. PICK fs : fs = Foreign(es, st)
    OBVIOUS
  <1>4. /\ fs \in Seq(Entry)
        /\ \A x : Has(fs, x) =>
              /\ x \in Entry /\ (st => x.staged)
              /\ \E e : /\ Has(es, e) /\ e \in Entry
                        /\ x.added = e.added /\ x.removed = e.removed
        /\ \A e : Has(es, e) /\ e.name \notin Listed(Here) =>
              \E x : Has(fs, x) /\ x.name = e.name /\ x.added = e.added
    BY <1>3, ForeignFacts
  <1>5. st
    BY <1>1
  <1>6. fs = Foreign(es, TRUE)
    BY <1>2, <1>3, Zenon
  <1>7. QED
    BY <1>4, <1>5, <1>6, Zenon

LEMMA ForeignKept ==
  ASSUME NEW es \in Seq(Entry)
  PROVE  \E fs \in Seq(Entry) :
           /\ fs = Foreign(es, FALSE)
           /\ \A x : Has(fs, x) => x \in Entry /\ \E e : Has(es, e) /\ x.added = e.added
  <1>1. PICK st : st = FALSE
    OBVIOUS
  <1>2. Foreign(es, FALSE) = Foreign(es, st)
    BY <1>1, Zenon
  <1>3. PICK fs : fs = Foreign(es, st)
    OBVIOUS
  <1>4. /\ fs \in Seq(Entry)
        /\ \A x : Has(fs, x) => x \in Entry /\ \E e : Has(es, e) /\ x.added = e.added
    BY <1>3, ForeignFacts
  <1>5. fs = Foreign(es, FALSE)
    BY <1>2, <1>3, Zenon
  <1>6. QED
    BY <1>4, <1>5, Zenon

\* The merged list holds what the two heads track, and nothing of it passes for committed
\* that the active head does not track.
LEMMA MergedFacts ==
  ASSUME Invariant, health \in Sane,
         NEW active \in CommitRecord, Settled(Saved(active)),
         \A i \in 1 .. Len(active.removed) : ~active.removed[i].added,
         NEW other \in CommitRecord, Settled(Saved(other)),
         \A i \in 1 .. Len(other.removed) : ~other.removed[i].added
  PROVE  /\ Merged(active, other) \in Seq(Entry) /\ Settled(Merged(active, other))
         /\ Owned(Merged(active, other), current)
         /\ \A i \in 1 .. Len(Merged(active, other)) :
              Merged(active, other)[i].added /\ ~Merged(active, other)[i].staged =>
                Merged(active, other)[i].name \in Tracked(active)
         /\ \A e : /\ e.added
                   /\ Has(Saved(active), e) \/ (Has(Saved(other), e) /\ e.name \notin Listed(Here))
                => \E i \in 1 .. Len(Merged(active, other)) :
                      Merged(active, other)[i].name = e.name /\ Merged(active, other)[i].added
  <1>1. /\ active.added \in Seq(Entry) /\ active.modified \in Seq(Entry)
        /\ active.removed \in Seq(Entry) /\ active.tracked \in Seq(Entry)
        /\ other.added \in Seq(Entry) /\ other.modified \in Seq(Entry)
        /\ other.removed \in Seq(Entry) /\ other.tracked \in Seq(Entry)
    BY DEF CommitRecord
  <1>2. current \in 0 .. Cardinality(Names)
    <2>1. current \in 1 .. Len(branches) /\ Len(branches) \in Nat
      BY LenProperties DEF Invariant
    <2>2. QED
      BY <2>1, BranchesFew
  <1>3. PICK s2 \in Seq(Entry) : s2 = active.added \o active.modified
    BY <1>1, ConcatMembers
  <1>4. PICK s3 \in Seq(Entry) : s3 = s2 \o active.removed
    BY <1>1, ConcatMembers
  <1>5. PICK s4 \in Seq(Entry) : s4 = s3 \o active.tracked
    BY <1>1, ConcatMembers
  <1>6. PICK f1 \in Seq(Entry) :
          /\ f1 = Foreign(other.added, TRUE)
          /\ \A x : Has(f1, x) =>
               /\ x \in Entry /\ x.staged
               /\ \E e : /\ Has(other.added, e) /\ e \in Entry
                         /\ x.added = e.added /\ x.removed = e.removed
          /\ \A e : Has(other.added, e) /\ e.name \notin Listed(Here) =>
               \E x : Has(f1, x) /\ x.name = e.name /\ x.added = e.added
    BY <1>1, ForeignStaged
  <1>7. PICK f2 \in Seq(Entry) :
          /\ f2 = Foreign(other.modified, TRUE)
          /\ \A x : Has(f2, x) =>
               /\ x \in Entry /\ x.staged
               /\ \E e : /\ Has(other.modified, e) /\ e \in Entry
                         /\ x.added = e.added /\ x.removed = e.removed
          /\ \A e : Has(other.modified, e) /\ e.name \notin Listed(Here) =>
               \E x : Has(f2, x) /\ x.name = e.name /\ x.added = e.added
    BY <1>1, ForeignStaged
  <1>8. PICK f3 \in Seq(Entry) :
          /\ f3 = Foreign(other.removed, FALSE)
          /\ \A x : Has(f3, x) => x \in Entry /\ \E e : Has(other.removed, e) /\ x.added = e.added
    BY <1>1, ForeignKept
  <1>9. PICK f4 \in Seq(Entry) :
          /\ f4 = Foreign(other.tracked, TRUE)
          /\ \A x : Has(f4, x) =>
               /\ x \in Entry /\ x.staged
               /\ \E e : /\ Has(other.tracked, e) /\ e \in Entry
                         /\ x.added = e.added /\ x.removed = e.removed
          /\ \A e : Has(other.tracked, e) /\ e.name \notin Listed(Here) =>
               \E x : Has(f4, x) /\ x.name = e.name /\ x.added = e.added
    BY <1>1, ForeignStaged
  <1>10. PICK s5 \in Seq(Entry) : s5 = s4 \o f1
    BY ConcatMembers
  <1>11. PICK s6 \in Seq(Entry) : s6 = s5 \o f2
    BY ConcatMembers
  <1>12. PICK s7 \in Seq(Entry) : s7 = s6 \o f3
    BY ConcatMembers
  <1>13. PICK s8 \in Seq(Entry) : s8 = s7 \o f4
    BY ConcatMembers
  <1>14. ASSUME NEW x
         PROVE  Has(s8, x) <=> \/ Has(active.added, x) \/ Has(active.modified, x)
                               \/ Has(active.removed, x) \/ Has(active.tracked, x)
                               \/ Has(f1, x) \/ Has(f2, x) \/ Has(f3, x) \/ Has(f4, x)
    <2>1. Has(s2, x) <=> Has(active.added, x) \/ Has(active.modified, x)
      BY <1>1, <1>3, HasConcat
    <2>2. Has(s3, x) <=> Has(s2, x) \/ Has(active.removed, x)
      BY <1>1, <1>4, HasConcat
    <2>3. Has(s4, x) <=> Has(s3, x) \/ Has(active.tracked, x)
      BY <1>1, <1>5, HasConcat
    <2>4. Has(s5, x) <=> Has(s4, x) \/ Has(f1, x)
      BY <1>10, HasConcat
    <2>5. Has(s6, x) <=> Has(s5, x) \/ Has(f2, x)
      BY <1>11, HasConcat
    <2>6. Has(s7, x) <=> Has(s6, x) \/ Has(f3, x)
      BY <1>12, HasConcat
    <2>7. Has(s8, x) <=> Has(s7, x) \/ Has(f4, x)
      BY <1>13, HasConcat
    <2>8. QED
      BY <2>1, <2>2, <2>3, <2>4, <2>5, <2>6, <2>7
  <1>15. ASSUME NEW es \in Seq(Entry), NEW e, Has(es, e) PROVE e \in Entry
    BY <1>15, LenProperties DEF Has
  <1>16. ASSUME NEW x, Has(s8, x)
         PROVE  /\ x \in Entry /\ ~(x.added /\ x.removed)
                /\ x.added /\ ~x.staged => x.name \in Tracked(active)
    <2>1. CASE Has(active.added, x) \/ Has(active.modified, x) \/ Has(active.tracked, x)
      <3>1. Has(Saved(active), x) /\ x.name \in Tracked(active) /\ Saved(active) \in Seq(Entry)
        BY <1>1, <2>1, SavedFacts
      <3>2. ~(x.added /\ x.removed)
        BY <3>1 DEF Settled, Has
      <3>3. QED
        BY <1>15, <3>1, <3>2
    <2>2. CASE Has(active.removed, x)
      <3>1. ~x.added
        BY <2>2 DEF Has
      <3>2. QED
        BY <1>1, <1>15, <2>2, <3>1
    <2>3. CASE Has(f3, x)
      <3>1. PICK e : Has(other.removed, e) /\ x \in Entry /\ x.added = e.added
        BY <1>8, <2>3
      <3>2. ~e.added
        BY <3>1 DEF Has
      <3>3. QED
        BY <3>1, <3>2
    <2>4. CASE Has(f1, x) \/ Has(f2, x) \/ Has(f4, x)
      <3>1. \E e : /\ x \in Entry /\ x.staged /\ x.added = e.added /\ x.removed = e.removed
                   /\ Has(other.added, e) \/ Has(other.modified, e) \/ Has(other.tracked, e)
        <4>1. CASE Has(f1, x)
          BY <1>6, <4>1
        <4>2. CASE Has(f2, x)
          BY <1>7, <4>2
        <4>3. CASE Has(f4, x)
          BY <1>9, <4>3
        <4>4. QED
          BY <2>4, <4>1, <4>2, <4>3
      <3>2. PICK e : /\ x \in Entry /\ x.staged /\ x.added = e.added /\ x.removed = e.removed
                     /\ Has(other.added, e) \/ Has(other.modified, e) \/ Has(other.tracked, e)
        BY <3>1
      <3>3. Has(Saved(other), e)
        BY <1>1, <3>2, SavedFacts
      <3>4. ~(e.added /\ e.removed)
        BY <3>3 DEF Settled, Has
      <3>5. QED
        BY <3>2, <3>4
    <2>5. QED
      BY <1>14, <1>16, <2>1, <2>2, <2>3, <2>4
  <1>17. ASSUME NEW e, e.added,
                Has(Saved(active), e) \/ (Has(Saved(other), e) /\ e.name \notin Listed(Here))
         PROVE  \E x : Has(s8, x) /\ x.name = e.name /\ x.added
    <2>1. CASE Has(Saved(active), e)
      <3>1. Has(active.added, e) \/ Has(active.modified, e) \/ Has(active.tracked, e)
        BY <1>1, <2>1, SavedFacts
      <3>2. QED
        BY <1>14, <1>17, <3>1
    <2>2. CASE Has(Saved(other), e) /\ e.name \notin Listed(Here)
      <3>1. Has(other.added, e) \/ Has(other.modified, e) \/ Has(other.tracked, e)
        BY <1>1, <2>2, SavedFacts
      <3>2. \E x : /\ Has(f1, x) \/ Has(f2, x) \/ Has(f4, x)
                   /\ x.name = e.name /\ x.added
        <4>1. CASE Has(other.added, e)
          BY <1>6, <1>17, <2>2, <4>1
        <4>2. CASE Has(other.modified, e)
          BY <1>7, <1>17, <2>2, <4>2
        <4>3. CASE Has(other.tracked, e)
          BY <1>9, <1>17, <2>2, <4>3
        <4>4. QED
          BY <3>1, <4>1, <4>2, <4>3
      <3>3. QED
        BY <1>14, <3>2
    <2>3. QED
      BY <1>17, <2>1, <2>2
  <1>18. PICK out : out = [i \in 1 .. Len(s8) |-> [s8[i] EXCEPT !.own = current]]
    OBVIOUS
  <1>19. Merged(active, other) = out
    <2>1. DOMAIN s8 = 1 .. Len(s8)
      BY LenProperties
    <2>2. s8 = active.added \o active.modified \o active.removed \o active.tracked
               \o Foreign(other.added, TRUE) \o Foreign(other.modified, TRUE)
               \o Foreign(other.removed, FALSE) \o Foreign(other.tracked, TRUE)
      BY <1>3, <1>4, <1>5, <1>6, <1>7, <1>8, <1>9, <1>10, <1>11, <1>12, <1>13
    <2>3. QED
      BY <1>18, <2>1, <2>2 DEF Merged
  <1>20. ASSUME NEW i \in 1 .. Len(s8)
         PROVE  /\ out[i] \in Entry /\ out[i].name = s8[i].name /\ out[i].own = current
                /\ out[i].added = s8[i].added /\ ~(out[i].added /\ out[i].removed)
                /\ out[i].added /\ ~out[i].staged => out[i].name \in Tracked(active)
    <2>1. PICK x : x = s8[i]
      OBVIOUS
    <2>2. Has(s8, x)
      BY <2>1 DEF Has
    <2>3. /\ x \in Entry /\ ~(x.added /\ x.removed)
          /\ x.added /\ ~x.staged => x.name \in Tracked(active)
      BY <1>16, <2>2
    <2>4. out[i] = [x EXCEPT !.own = current]
      BY <1>18, <2>1
    <2>5. QED
      BY <1>2, <2>1, <2>3, <2>4 DEF Entry
  <1>21. out \in [1 .. Len(s8) -> Entry] /\ Len(s8) \in Nat
    BY <1>18, <1>20, LenProperties
  <1>22. out \in Seq(Entry) /\ Len(out) = Len(s8)
    <2>1. PICK n \in Nat : n = Len(s8)
      BY <1>21
    <2>2. out \in [1 .. n -> Entry]
      BY <1>21, <2>1
    <2>3. out \in Seq(Entry)
      BY <2>2, SeqDef
    <2>4. DOMAIN out = 1 .. n /\ DOMAIN out = 1 .. Len(out) /\ Len(out) \in Nat
      BY <2>2, <2>3, LenProperties
    <2>5. QED
      BY <2>1, <2>3, <2>4
  <1>23. Settled(out) /\ Owned(out, current)
    BY <1>20, <1>22 DEF Settled, Owned
  <1>24. ASSUME NEW e, e.added,
                Has(Saved(active), e) \/ (Has(Saved(other), e) /\ e.name \notin Listed(Here))
         PROVE  \E i \in 1 .. Len(out) : out[i].name = e.name /\ out[i].added
    <2>1. PICK x : Has(s8, x) /\ x.name = e.name /\ x.added
      BY <1>17, <1>24
    <2>2. PICK i \in 1 .. Len(s8) : s8[i] = x
      BY <2>1 DEF Has
    <2>3. out[i].name = e.name /\ out[i].added /\ i \in 1 .. Len(out)
      BY <1>20, <1>22, <1>24, <2>1, <2>2
    <2>4. QED
      BY <2>3
  <1>25. QED
    BY <1>19, <1>20, <1>22, <1>23, <1>24

\* The commits once the resolutions have changed the head of the active branch, commit k
AtHead(k, res) == [commits EXCEPT ![k] = Resolved(commits[k], res)]

LEMMA AtHeadFacts ==
  ASSUME Invariant, health \in Sane, NEW k \in 1 .. Len(commits), NEW res
  PROVE  /\ AtHead(k, res) \in Seq(CommitRecord) /\ Len(AtHead(k, res)) = Len(commits)
         /\ AtHead(k, res)[k] = Resolved(commits[k], res)
         /\ \A l \in 1 .. Len(commits) : Derived(AtHead(k, res)[l], commits[l], Weaker)
  <1>1. /\ commits \in Seq(CommitRecord) /\ Len(commits) \in Nat
        /\ DOMAIN commits = 1 .. Len(commits) /\ commits[k] \in CommitRecord
    BY LenProperties DEF Invariant
  <1>2. PICK d : d = Resolved(commits[k], res)
    OBVIOUS
  <1>3. Derived(d, commits[k], Weaker) /\ d \in CommitRecord
    BY <1>1, <1>2, ResolvedFacts DEF Derived
  <1>4. PICK ds : ds = [commits EXCEPT ![k] = d]
    OBVIOUS
  <1>5. ds \in Seq(CommitRecord) /\ Len(ds) = Len(commits)
    BY <1>1, <1>3, <1>4, ExceptSeq
  <1>6. ds[k] = d /\ \A l \in 1 .. Len(commits) : l # k => ds[l] = commits[l]
    BY <1>1, <1>4
  <1>7. ASSUME NEW l \in 1 .. Len(commits) PROVE Derived(ds[l], commits[l], Weaker)
    <2>1. CASE l = k
      BY <1>3, <1>6, <2>1
    <2>2. CASE l # k
      <3>1. PICK c \in CommitRecord : c = commits[l]
        BY <1>1, LenProperties
      <3>2. /\ c.added \in Seq(Entry) /\ c.modified \in Seq(Entry)
            /\ c.removed \in Seq(Entry) /\ c.tracked \in Seq(Entry)
        BY DEF CommitRecord
      <3>3. \A e \in Entry : <<e, e>> \in Weaker
        BY DEF Weaker, Kin
      <3>4. ASSUME NEW es \in Seq(Entry) PROVE Paired(es, es, Weaker)
        BY <3>3, LenProperties DEF Paired
      <3>5. Derived(c, c, Weaker)
        BY <3>2, <3>4 DEF Derived
      <3>6. QED
        BY <1>6, <2>2, <3>1, <3>5
    <2>3. QED
      BY <2>1, <2>2
  <1>8. AtHead(k, res) = ds
    BY <1>2, <1>4 DEF AtHead
  <1>9. QED
    BY <1>2, <1>5, <1>6, <1>7, <1>8

\* A commit of the history after a merge, that is neither confused nor undefined if g is
\* not: it tracks what it tracked, and its entries are those the resolutions left.
LEMMA RepointedCommit ==
  ASSUME Invariant, health \in Sane, NEW l \in 1 .. Len(commits),
         NEW r, Derived(r, commits[l], Weaker), NEW d, Derived(d, r, Alike),
         NEW g,
         g \in Sane => \A i \in DOMAIN Entries(commits[l]) :
           Entries(d)[i].own # 0 => Entries(d)[i].name = Entries(commits[l])[i].name
  PROVE  /\ CommitSound(r, health) /\ CommitSound(d, g) /\ d.parents = commits[l].parents
         /\ Tracked(r) = Tracked(commits[l])
         /\ g \in Sane =>
              /\ Tracked(d) = Tracked(commits[l])
              /\ \A e : Has(Saved(d), e) =>
                   \E x : Has(Saved(r), x) /\ x.name = e.name /\ x.added = e.added
  <1>1. PICK c \in CommitRecord : c = commits[l] /\ CommitSound(c, health)
    BY CommitFacts DEF Invariant
  <1>2. Weaker \subseteq Kin /\ Alike \subseteq Kin
    BY DEF Weaker, Alike
  <1>3. Derived(r, c, Weaker) /\ Derived(r, c, Kin) /\ Derived(d, r, Kin)
    <2>1. Derived(r, c, Weaker)
      BY <1>1
    <2>2. Derived(r, c, Kin)
      BY <1>2, <2>1, DerivedWider
    <2>3. Derived(d, r, Kin)
      BY <1>2, DerivedWider
    <2>4. QED
      BY <2>1, <2>2, <2>3
  <1>4. r \in CommitRecord /\ d \in CommitRecord /\ d.parents = c.parents
    BY <1>3 DEF Derived
  <1>5. /\ Paired(Saved(c), Saved(r), Weaker) /\ Saved(c) \in Seq(Entry) /\ Saved(r) \in Seq(Entry)
        /\ \A i \in 1 .. Len(Saved(c)) :
             /\ i \in DOMAIN Entries(c)
             /\ Entries(c)[i] = Saved(c)[i] /\ Entries(r)[i] = Saved(r)[i]
    BY <1>3, DerivedLists
  <1>6. /\ Paired(Saved(r), Saved(d), Alike) /\ Saved(d) \in Seq(Entry)
        /\ \A i \in 1 .. Len(Saved(r)) : Entries(d)[i] = Saved(d)[i]
    BY <1>4, DerivedLists
  <1>7. Len(Saved(r)) = Len(Saved(c)) /\ Len(Saved(d)) = Len(Saved(r))
    BY <1>5, <1>6 DEF Paired
  <1>8. \A i \in 1 .. Len(Saved(c)) : Saved(r)[i].name = Saved(c)[i].name
    BY <1>5 DEF Paired, Weaker
  <1>9. CommitSound(r, health) /\ Tracked(r) = Tracked(c)
    BY <1>1, <1>3, <1>8, DerivedSound
  <1>10. ASSUME g \in Sane, NEW i \in 1 .. Len(Saved(r))
         PROVE  Saved(d)[i].name = Saved(r)[i].name
    <2>1. PICK x : x = Saved(r)[i]
      OBVIOUS
    <2>2. PICK y : y = Saved(d)[i]
      OBVIOUS
    <2>3. y.own = 0 => y.name = x.name
      BY <1>6, <2>1, <2>2 DEF Paired, Alike
    <2>4. /\ i \in 1 .. Len(Saved(c)) /\ i \in DOMAIN Entries(c)
          /\ Entries(c)[i].name = x.name /\ Entries(d)[i] = y
      BY <1>5, <1>6, <1>7, <1>8, <2>1, <2>2
    <2>5. y.own # 0 => y.name = Entries(c)[i].name
      BY <1>1, <1>10, <2>4
    <2>6. QED
      BY <2>1, <2>2, <2>3, <2>4, <2>5
  <1>11. CommitSound(d, g) /\ (g \in Sane => Tracked(d) = Tracked(r))
    BY <1>3, <1>9, <1>10, DerivedSound
  <1>12. ASSUME g \in Sane, NEW e, Has(Saved(d), e)
         PROVE  \E x : Has(Saved(r), x) /\ x.name = e.name /\ x.added = e.added
    <2>1. PICK i \in 1 .. Len(Saved(r)) : Saved(d)[i] = e
      BY <1>7, <1>12 DEF Has
    <2>2. Has(Saved(r), Saved(r)[i])
      BY DEF Has
    <2>3. Saved(r)[i].name = e.name
      BY <1>10, <1>12, <2>1
    <2>4. e.added = Saved(r)[i].added
      BY <1>6, <2>1 DEF Paired, Alike
    <2>5. QED
      BY <2>2, <2>3, <2>4
  <1>13. QED
    BY <1>1, <1>4, <1>9, <1>11, <1>12

\* The heads of two branches
LEMMA HeadsOfTwo ==
  ASSUME Invariant, health \in Sane, NEW nm, Exists(nm), Here.name # nm
  PROVE  /\ Here.n > 0 /\ Here.hist[Here.n] \in 1 .. Len(commits)
         /\ branches[BranchOf(nm)].n > 0
         /\ branches[BranchOf(nm)].hist[branches[BranchOf(nm)].n] \in 1 .. Len(commits)
  <1>1. PICK j \in 1 .. Len(branches) : j = BranchOf(nm) /\ branches[j].name = nm
    BY BranchOfFacts
  <1>2. current \in 1 .. Len(branches) /\ Len(branches) \in Nat /\ j # current
    BY <1>1, LenProperties DEF Invariant, Here
  <1>3. Len(branches) > 1 /\ health # "undefined"
    BY <1>1, <1>2 DEF Sane
  <1>4. branches[current].n > 0 /\ branches[j].n > 0
    BY <1>1, <1>2, <1>3 DEF Invariant
  <1>5. ASSUME NEW i \in 1 .. Len(branches), branches[i].n > 0
        PROVE  branches[i].hist[branches[i].n] \in 1 .. Len(commits)
    <2>1. /\ branches[i].n \in Nat
          /\ \A k \in 1 .. branches[i].n : branches[i].hist[k] \in 1 .. Len(commits)
      BY BranchFacts
    <2>2. QED
      BY <1>5, <2>1
  <1>6. QED
    BY <1>1, <1>2, <1>4, <1>5 DEF Here

\* A merge that is not undefined: w is the working directory it leaves, cs the commits with
\* the changes to their entries, fs the merged list.
MergesTo(nm, w, cs, fs) ==
  /\ work' = w /\ current' = current /\ health' \in Sane \cup {"confused"}
  /\ health' \in Sane => health' = health /\ SameNames(commits, cs) /\ Distinct(fs)
  /\ Valid(w, fs) =>
       /\ commits' = Append(cs, MergeCommit(nm, w, fs))
       /\ branches' = [branches EXCEPT ![current] = Extended(Here, RecordedAll(w, fs))]
  /\ ~Valid(w, fs) => commits' = cs /\ SetFiles(RecordedAll(w, fs))

LEMMA WorkAfterFacts ==
  ASSUME work \in Works, NEW es, NEW res \in Resolutions
  PROVE  WorkAfter(es, res) \in Works
  <1>1. PICK w : w = WorkAfter(es, res)
    OBVIOUS
  <1>2. ASSUME NEW p \in Paths PROVE w[p] \in Contents \cup {Gone}
    <2>1. work[p] \in Contents \cup {Gone}
      BY DEF Works
    <2>2. ASSUME p \in DOMAIN res, res[p] # Delete PROVE CopyOf[res[p]] \in Contents
      <3>1. res[p] \in Contents
        BY <2>2, ResolutionsAssumption
      <3>2. QED
        BY <3>1, CopyAssumption
    <2>3. QED
      BY <1>1, <2>1, <2>2 DEF WorkAfter
  <1>3. w = [p \in Paths |-> w[p]]
    BY <1>1 DEF WorkAfter
  <1>4. QED
    BY <1>1, <1>2, <1>3 DEF Works

LEMMA MergeParts ==
  ASSUME Invariant, health \in Sane, NEW nm \in Names, NEW res \in Resolutions,
         Merge(nm, res), health' # "undefined", health' # "exited"
  PROVE  \E w \in Works, fs \in Seq(Entry), cs \in Seq(CommitRecord),
            k1 \in 1 .. Len(commits), k2 \in 1 .. Len(commits) :
           /\ Here.n > 0 /\ k1 = Here.hist[Here.n]
           /\ k2 = branches[BranchOf(nm)].hist[branches[BranchOf(nm)].n]
           /\ MergesTo(nm, w, cs, fs) /\ Settled(fs) /\ Owned(fs, current)
           /\ Len(cs) = Len(commits)
           /\ \A l \in 1 .. Len(commits) :
                CommitSound(cs[l], health') /\ cs[l].parents = commits[l].parents
           /\ health' \in Sane =>
                /\ \A l \in 1 .. Len(commits) : Tracked(cs[l]) = Tracked(commits[l])
                /\ \A i \in 1 .. Len(fs) :
                     fs[i].added /\ ~fs[i].staged => fs[i].name \in Tracked(cs[k1])
                /\ \A e : /\ e.added
                          /\ \/ Has(Saved(cs[k1]), e)
                             \/ Has(Saved(cs[k2]), e) /\ e.name \notin Listed(Here)
                       => \E i \in 1 .. Len(fs) : fs[i].name = e.name /\ fs[i].added
  <1>1. Exists(nm) /\ Here.name # nm /\ current' = current
    BY DEF Merge
  <1>2. PICK k1 \in 1 .. Len(commits) : Here.n > 0 /\ k1 = Here.hist[Here.n]
    BY <1>1, HeadsOfTwo
  <1>3. PICK k2 \in 1 .. Len(commits) :
          k2 = branches[BranchOf(nm)].hist[branches[BranchOf(nm)].n]
    BY <1>1, HeadsOfTwo
  <1>4. PICK rs \in Seq(CommitRecord) : rs = AtHead(k1, res)
    BY AtHeadFacts
  <1>5. /\ Len(rs) = Len(commits) /\ rs[k1] = Resolved(commits[k1], res)
        /\ \A l \in 1 .. Len(commits) : Derived(rs[l], commits[l], Weaker)
    BY <1>4, AtHeadFacts
  <1>6. PICK active : active = rs[k1]
    OBVIOUS
  <1>7. PICK other : other = rs[k2]
    OBVIOUS
  <1>8. ASSUME NEW l \in 1 .. Len(commits)
        PROVE  /\ rs[l] \in CommitRecord /\ Settled(Saved(rs[l]))
               /\ \A i \in 1 .. Len(rs[l].removed) : ~rs[l].removed[i].added
    <2>1. CommitSound(commits[l], health)
      BY DEF Invariant
    <2>2. Weaker \subseteq Kin
      BY DEF Weaker
    <2>3. Derived(rs[l], commits[l], Kin)
      BY <1>5, <2>2, DerivedWider
    <2>4. commits[l] \in CommitRecord
      BY <2>1 DEF CommitSound
    <2>5. Paired(Saved(commits[l]), Saved(rs[l]), Weaker)
      BY <1>5, <2>4, DerivedLists
    <2>6. \A i \in 1 .. Len(Saved(commits[l])) :
            Saved(rs[l])[i].name = Saved(commits[l])[i].name
      BY <2>5 DEF Paired, Weaker
    <2>7. CommitSound(rs[l], health)
      BY <2>1, <2>3, <2>6, DerivedSound
    <2>8. QED
      BY <2>7 DEF CommitSound
  <1>9. PICK fs : fs = Merged(active, other)
    OBVIOUS
  <1>10. /\ fs \in Seq(Entry) /\ Settled(fs) /\ Owned(fs, current)
         /\ \A i \in 1 .. Len(fs) :
              fs[i].added /\ ~fs[i].staged => fs[i].name \in Tracked(active)
         /\ \A e : /\ e.added
                   /\ Has(Saved(active), e) \/ (Has(Saved(other), e) /\ e.name \notin Listed(Here))
                => \E i \in 1 .. Len(fs) : fs[i].name = e.name /\ fs[i].added
    <2>1. /\ active \in CommitRecord /\ Settled(Saved(active))
          /\ \A i \in 1 .. Len(active.removed) : ~active.removed[i].added
      BY <1>6, <1>8
    <2>2. /\ other \in CommitRecord /\ Settled(Saved(other))
          /\ \A i \in 1 .. Len(other.removed) : ~other.removed[i].added
      BY <1>7, <1>8
    <2>3. fs \in Seq(Entry) /\ Settled(fs) /\ Owned(fs, current)
      BY <1>9, <2>1, <2>2, MergedFacts
    <2>4. \A i \in 1 .. Len(fs) :
            fs[i].added /\ ~fs[i].staged => fs[i].name \in Tracked(active)
      BY <1>9, <2>1, <2>2, MergedFacts
    <2>5. \A e : /\ e.added
                 /\ Has(Saved(active), e) \/ (Has(Saved(other), e) /\ e.name \notin Listed(Here))
              => \E i \in 1 .. Len(fs) : fs[i].name = e.name /\ fs[i].added
      BY <1>9, <2>1, <2>2, MergedFacts
    <2>6. QED
      BY <2>3, <2>4, <2>5
  <1>11. current \in 1 .. Cardinality(Names)
    <2>1. current \in 1 .. Len(branches) /\ Len(branches) \in Nat
      BY LenProperties DEF Invariant
    <2>2. Cardinality(Names) \in Nat /\ Len(branches) <= Cardinality(Names)
      BY BranchesFew
    <2>3. QED
      BY <2>1, <2>2
  <1>12. PICK cs \in Seq(CommitRecord) : cs = Repointed(rs, fs)
    BY <1>10, <1>11, RepointedFacts
  <1>13. Len(cs) = Len(commits) /\ \A l \in 1 .. Len(commits) : Derived(cs[l], rs[l], Alike)
    BY <1>5, <1>10, <1>11, <1>12, RepointedFacts
  <1>14. PICK w : w = WorkAfter(InOrder(active), res)
    OBVIOUS
  <1>15. w \in Works
    <2>1. work \in Works
      BY DEF Invariant, Works
    <2>2. QED
      BY <1>14, <2>1, WorkAfterFacts
  <1>16. MergesTo(nm, w, cs, fs)
    <2>1. HeadOf(Here) = commits[k1]
      BY <1>2 DEF HeadOf
    <2>2. active = Resolved(HeadOf(Here), res)
      BY <1>5, <1>6, <2>1
    <2>3. rs = [commits EXCEPT ![Here.hist[Here.n]] = active]
      BY <1>2, <1>4, <1>5, <1>6 DEF AtHead
    <2>4. fs = Merged(active, rs[branches[BranchOf(nm)].hist[branches[BranchOf(nm)].n]])
      BY <1>3, <1>7, <1>9
    <2>5. /\ work' = w
          /\ health' = IF SameNames(commits, cs) /\ Distinct(fs) THEN health ELSE "confused"
          /\ IF Valid(w, fs)
             THEN /\ commits' = Append(cs, MergeCommit(nm, w, fs))
                  /\ branches' = [branches EXCEPT ![current] = Extended(Here, RecordedAll(w, fs))]
             ELSE commits' = cs /\ SetFiles(RecordedAll(w, fs))
      <3>1. ~MergeFails(active, res)
        BY DEF MergeFails
      <3>2. QED
        BY <1>12, <1>14, <2>2, <2>3, <2>4, <3>1 DEF Merge
    <2>6. health' \in Sane => health' = health /\ SameNames(commits, cs) /\ Distinct(fs)
      BY <2>5 DEF Sane
    <2>7. health' \in Sane \cup {"confused"}
      BY <2>5
    <2>8. QED
      BY <1>1, <2>5, <2>6, <2>7 DEF MergesTo
  <1>17. ASSUME NEW l \in 1 .. Len(commits)
         PROVE  /\ CommitSound(cs[l], health') /\ cs[l].parents = commits[l].parents
                /\ Tracked(rs[l]) = Tracked(commits[l])
                /\ health' \in Sane =>
                     /\ Tracked(cs[l]) = Tracked(commits[l])
                     /\ \A e : Has(Saved(cs[l]), e) =>
                          \E x : Has(Saved(rs[l]), x) /\ x.name = e.name /\ x.added = e.added
    <2>1. DOMAIN commits = 1 .. Len(commits)
      BY LenProperties DEF Invariant
    <2>2. health' \in Sane => \A i \in DOMAIN Entries(commits[l]) :
            Entries(cs[l])[i].own # 0 => Entries(cs[l])[i].name = Entries(commits[l])[i].name
      BY <1>16, <2>1 DEF MergesTo, SameNames
    <2>3. PICK r : r = rs[l]
      OBVIOUS
    <2>4. PICK d : d = cs[l]
      OBVIOUS
    <2>5. PICK g : g = health'
      OBVIOUS
    <2>6. Derived(r, commits[l], Weaker) /\ Derived(d, r, Alike)
      BY <1>5, <1>13, <2>3, <2>4
    <2>7. g \in Sane => \A i \in DOMAIN Entries(commits[l]) :
            Entries(d)[i].own # 0 => Entries(d)[i].name = Entries(commits[l])[i].name
      BY <2>2, <2>4, <2>5
    <2>8. /\ CommitSound(d, g) /\ d.parents = commits[l].parents
          /\ Tracked(r) = Tracked(commits[l])
          /\ g \in Sane => Tracked(d) = Tracked(commits[l])
      BY <2>6, <2>7, RepointedCommit
    <2>9. g \in Sane => \A e : Has(Saved(d), e) =>
            \E x : Has(Saved(r), x) /\ x.name = e.name /\ x.added = e.added
      BY <2>6, <2>7, RepointedCommit
    <2>10. QED
      BY <2>3, <2>4, <2>5, <2>8, <2>9
  <1>18. ASSUME health' \in Sane
         PROVE  /\ \A i \in 1 .. Len(fs) :
                     fs[i].added /\ ~fs[i].staged => fs[i].name \in Tracked(cs[k1])
                /\ \A e : /\ e.added
                          /\ \/ Has(Saved(cs[k1]), e)
                             \/ Has(Saved(cs[k2]), e) /\ e.name \notin Listed(Here)
                       => \E i \in 1 .. Len(fs) : fs[i].name = e.name /\ fs[i].added
    <2>1. Tracked(cs[k1]) = Tracked(active)
      BY <1>6, <1>17, <1>18
    <2>2. \A i \in 1 .. Len(fs) :
            fs[i].added /\ ~fs[i].staged => fs[i].name \in Tracked(cs[k1])
      BY <1>10, <2>1
    <2>3. ASSUME NEW e, e.added,
                 \/ Has(Saved(cs[k1]), e)
                 \/ Has(Saved(cs[k2]), e) /\ e.name \notin Listed(Here)
          PROVE  \E i \in 1 .. Len(fs) : fs[i].name = e.name /\ fs[i].added
      <3>1. \E x : /\ x.name = e.name /\ x.added = e.added
                   /\ \/ Has(Saved(active), x)
                      \/ Has(Saved(other), x) /\ x.name \notin Listed(Here)
        <4>1. CASE Has(Saved(cs[k1]), e)
          BY <1>6, <1>17, <1>18, <4>1
        <4>2. CASE Has(Saved(cs[k2]), e) /\ e.name \notin Listed(Here)
          BY <1>7, <1>17, <1>18, <4>2
        <4>3. QED
          BY <2>3, <4>1, <4>2
      <3>2. QED
        BY <1>10, <2>3, <3>1
    <2>4. QED
      BY <2>2, <2>3
  <1>19. /\ fs \in Seq(Entry) /\ Settled(fs) /\ Owned(fs, current)
         /\ Len(cs) = Len(commits)
    BY <1>10, <1>13
  <1>20. \A l \in 1 .. Len(commits) :
           CommitSound(cs[l], health') /\ cs[l].parents = commits[l].parents
    BY <1>17
  <1>21. health' \in Sane => \A l \in 1 .. Len(commits) : Tracked(cs[l]) = Tracked(commits[l])
    BY <1>17
  <1>22. QED
    BY <1>2, <1>3, <1>15, <1>16, <1>18, <1>19, <1>20, <1>21, ZenonT(60)

\* The ends of a merge that do not replace the list of files
LEMMA MergeStops ==
  ASSUME health \in Sane, NEW nm, NEW res, Merge(nm, res),
         NEW active, active = Resolved(HeadOf(Here), res)
  PROVE  /\ health' = "undefined" => work' = work /\ branches' = branches /\ commits' = commits
         /\ health' = "exited" => MergeFails(active, res)
  <1>1. PICK there : there = branches[BranchOf(nm)]
    OBVIOUS
  <1>2. PICK resolved : resolved = [commits EXCEPT ![Here.hist[Here.n]] = active]
    OBVIOUS
  <1>3. PICK fs : fs = Merged(active, resolved[there.hist[there.n]])
    OBVIOUS
  <1>4. PICK cs : cs = Repointed(resolved, fs)
    OBVIOUS
  <1>5. PICK h : h = IF SameNames(commits, cs) /\ Distinct(fs) THEN health ELSE "confused"
    OBVIOUS
  <1>6. h \in Sane \cup {"confused"}
    BY <1>5
  <1>7. \/ health' = "undefined" /\ work' = work /\ branches' = branches /\ commits' = commits
        \/ health' = h
        \/ MergeFails(active, res)
    BY <1>1, <1>2, <1>3, <1>4, <1>5 DEF Merge
  <1>8. MergeFails(active, res) => health' = "exited"
    BY DEF MergeFails
  <1>9. QED
    BY <1>6, <1>7, <1>8 DEF Sane

LEMMA MergeKeeps ==
  ASSUME Invariant, health \in Sane, NEW nm \in Names, NEW res \in Resolutions, Merge(nm, res)
  PROVE  Invariant'
  <1>1. work \in Works /\ current \in 1 .. Len(branches) /\ commits \in Seq(CommitRecord)
    BY DEF Invariant, Works
  <1>2. CASE health' = "undefined"
    <2>1. health # "undefined" /\ current' = current
      BY DEF Sane, Merge
    <2>2. work' = work /\ branches' = branches /\ commits' = commits
      BY <1>2, MergeStops
    <2>3. QED
      BY <1>1, <1>2, <2>1, <2>2, UndefinedKeeps
  <1>3. CASE health' = "exited"
    <2>1. PICK active : active = Resolved(HeadOf(Here), res)
      OBVIOUS
    <2>2. current' = current
      BY DEF Merge
    <2>3. MergeFails(active, res)
      BY <1>3, <2>1, MergeStops
    <2>4. PICK k \in DOMAIN InOrder(active) :
            /\ work' = WorkAfter(SubSeq(InOrder(active), 1, k - 1), res)
            /\ branches' = branches /\ commits' = commits
      BY <2>3 DEF MergeFails
    <2>5. work' \in Works
      BY <1>1, <2>4, WorkAfterFacts
    <2>6. QED
      BY <1>1, <1>3, <2>2, <2>4, <2>5, UndefinedKeeps
  <1>4. CASE health' # "undefined" /\ health' # "exited"
    <2>1. PICK w \in Works, fs \in Seq(Entry), cs \in Seq(CommitRecord),
               k1 \in 1 .. Len(commits), k2 \in 1 .. Len(commits) :
            /\ Here.n > 0 /\ k1 = Here.hist[Here.n]
            /\ k2 = branches[BranchOf(nm)].hist[branches[BranchOf(nm)].n]
            /\ MergesTo(nm, w, cs, fs) /\ Settled(fs) /\ Owned(fs, current)
            /\ Len(cs) = Len(commits)
            /\ \A l \in 1 .. Len(commits) :
                 CommitSound(cs[l], health') /\ cs[l].parents = commits[l].parents
            /\ health' \in Sane =>
                 /\ \A l \in 1 .. Len(commits) : Tracked(cs[l]) = Tracked(commits[l])
                 /\ \A i \in 1 .. Len(fs) :
                      fs[i].added /\ ~fs[i].staged => fs[i].name \in Tracked(cs[k1])
                 /\ \A e : /\ e.added
                           /\ \/ Has(Saved(cs[k1]), e)
                              \/ Has(Saved(cs[k2]), e) /\ e.name \notin Listed(Here)
                        => \E i \in 1 .. Len(fs) : fs[i].name = e.name /\ fs[i].added
      BY <1>4, MergeParts
    <2>2. PICK b : b = branches[current] /\ b = Here /\ b.n > 0 /\ k1 = b.hist[b.n]
      BY <2>1 DEF Here
    <2>3. PICK gs : gs = RecordedAll(w, fs)
      OBVIOUS
    <2>4. /\ gs \in Seq(Entry) /\ Len(gs) = Len(fs) /\ Settled(gs) /\ Owned(gs, current)
          /\ Distinct(fs) => Distinct(gs)
          /\ \A i \in 1 .. Len(fs) : gs[i] = Recorded(w, fs[i]) /\ gs[i].name = fs[i].name
      BY <2>1, <2>3, RecordedAllFacts
    <2>5. /\ work' \in Works /\ current' \in 1 .. Len(branches)
          /\ health' \in Sane \cup {"confused"}
          /\ health' \in Sane => health' = health /\ Distinct(gs)
      BY <1>1, <2>1, <2>4 DEF MergesTo
    <2>6. Follows(cs, commits) /\ (health' \in Sane => TracksOn(cs, commits)) /\ Len(cs) \in Nat
      <3>1. Len(cs) \in Nat
        BY LenProperties
      <3>2. Follows(cs, commits)
        BY <2>1, <3>1 DEF Follows
      <3>3. health' \in Sane => TracksOn(cs, commits)
        BY <2>1 DEF TracksOn
      <3>4. QED
        BY <3>1, <3>2, <3>3
    <2>7. CASE Valid(w, fs)
      <3>1. PICK ps : ps = TwoParents(branches[BranchOf(nm)])
        OBVIOUS
      <3>2. ps \in Seq(Nat) /\ ps[1] = k1
        <4>1. ps = <<k1, k2>>
          BY <2>1, <3>1 DEF TwoParents
        <4>2. k1 \in Nat /\ k2 \in Nat
          OBVIOUS
        <4>3. QED
          BY <4>1, <4>2
      <3>3. PICK c : c = NewCommit(nm, w, fs, ps)
        OBVIOUS
      <3>4. /\ CommitSound(c, health') /\ c.parents = ps /\ c \in CommitRecord
            /\ \A j \in 1 .. Len(fs) : Recorded(w, fs[j]).added => fs[j].name \in Tracked(c)
        <4>1. nm \in Messages \cup Names
          OBVIOUS
        <4>2. CommitSound(c, health') /\ c.parents = ps
          BY <2>1, <3>2, <3>3, <4>1, NewCommitFacts
        <4>3. \A j \in 1 .. Len(fs) : Recorded(w, fs[j]).added => fs[j].name \in Tracked(c)
          BY <2>1, <3>2, <3>3, <4>1, NewCommitFacts
        <4>4. QED
          BY <4>2, <4>3 DEF CommitSound
      <3>5. commits' = Append(cs, c) /\ branches' = [branches EXCEPT ![current] = Extended(b, gs)]
        BY <2>1, <2>2, <2>3, <2>7, <3>1, <3>3 DEF MergesTo, MergeCommit
      <3>6. /\ commits' \in Seq(CommitRecord) /\ Follows(commits', commits)
            /\ Len(commits') = Len(cs) + 1 /\ commits'[Len(cs) + 1] = c
            /\ \A k \in 1 .. Len(cs) : commits'[k] = cs[k]
            /\ \A k \in 1 .. Len(commits') : k \in 1 .. Len(cs) \/ k = Len(cs) + 1
            /\ TracksOn(cs, commits) => TracksOn(commits', commits)
        BY <1>1, <2>6, <3>4, <3>5, CommitAppended
      <3>7. \A k \in 1 .. Len(commits') : CommitSound(commits'[k], health')
        BY <2>1, <3>4, <3>6
      <3>8. Len(commits') = Len(commits) + 1 /\ commits'[Len(commits')] = c
        BY <2>1, <3>6
      <3>9. b.n > 0 => commits'[Len(commits')].parents[1] = b.hist[b.n]
        BY <2>2, <3>2, <3>4, <3>8
      <3>10. \A k \in 1 .. Len(gs) : gs[k].added => gs[k].name \in Tracked(commits'[Len(commits')])
        BY <2>4, <3>4, <3>8
      <3>11. /\ BranchSound(Extended(b, gs), current, commits', health')
             /\ Extended(b, gs).name = b.name /\ Extended(b, gs).n > 0
        BY <1>1, <2>2, <2>4, <2>5, <3>6, <3>8, <3>9, <3>10, ExtendedSound
      <3>12. health' = "sound" => health = "sound" /\ TracksOn(commits', commits)
        BY <2>5, <2>6, <3>6 DEF Sane
      <3>13. QED
        BY <1>1, <2>2, <2>5, <3>5, <3>6, <3>7, <3>11, <3>12, OneChanged
    <2>8. CASE ~Valid(w, fs)
      <3>1. commits' = cs /\ branches' = [branches EXCEPT ![current].files = gs]
        BY <2>1, <2>3, <2>8 DEF MergesTo, SetFiles
      <3>2. ASSUME health' = "sound", NEW k \in 1 .. Len(gs), gs[k].added, ~gs[k].staged
            PROVE  b.n > 0 /\ gs[k].name \in Tracked(cs[k1])
        <4>1. PICK f : f = fs[k]
          OBVIOUS
        <4>2. f \in Entry /\ ~(f.added /\ f.removed) /\ gs[k] = Recorded(w, f) /\ gs[k].name = f.name
          BY <2>1, <2>4, <4>1, LenProperties DEF Settled
        <4>3. Change(w, f) \notin {"added", "removed", "modified"}
          <5>1. DOMAIN fs = 1 .. Len(fs) /\ k \in DOMAIN fs
            BY <2>4, LenProperties
          <5>2. QED
            BY <2>8, <4>1, <5>1 DEF Valid
        <4>4. Change(w, f) \in {"added", "modified", "tracked"}
          BY <3>2, <4>2, RecordedFacts
        <4>5. f.added /\ ~f.staged
          BY <4>2, <4>3, <4>4, RecordedFacts
        <4>6. f.name \in Tracked(cs[k1])
          BY <2>1, <2>4, <3>2, <4>1, <4>5 DEF Sane
        <4>7. QED
          BY <2>2, <4>2, <4>6
      <3>3. health' = "sound" =>
              \A k \in 1 .. Len(gs) : gs[k].added /\ ~gs[k].staged =>
                /\ branches[current].n > 0
                /\ gs[k].name \in Tracked(commits'[branches[current].hist[branches[current].n]])
        BY <2>2, <3>1, <3>2
      <3>4. /\ commits' \in Seq(CommitRecord) /\ Follows(commits', commits)
            /\ \A k \in 1 .. Len(commits') : CommitSound(commits'[k], health')
            /\ health' = "sound" => health = "sound" /\ TracksOn(commits', commits)
        BY <2>1, <2>5, <2>6, <3>1 DEF Sane
      <3>5. QED
        BY <1>1, <2>4, <2>5, <3>1, <3>3, <3>4, FilesReplaced
    <2>9. QED
      BY <2>7, <2>8
  <1>5. QED
    BY <1>2, <1>3, <1>4

-----------------------------------------------------------------------------
(* The invariant holds                                                     *)

LEMMA NextKeeps ==
  ASSUME Invariant, [Next]_vars
  PROVE  Invariant'
  <1>1. CASE UNCHANGED vars
    BY <1>1 DEF vars, Invariant
  <1>2. CASE Next
    <2>1. health \in Sane /\ Step
      BY <1>2 DEF Next, Sane
    <2>2. CASE \E p \in Paths : Edit(p) \/ Add(p) \/ Rm(p)
      BY <2>1, <2>2, EditKeeps, AddKeeps, RmKeeps
    <2>3. CASE \E m \in Messages : Commit(m)
      BY <2>1, <2>3, CommitKeeps
    <2>4. CASE \E nm \in Names : Branch(nm) \/ Checkout(nm) \/ RefuseMerge(nm)
      BY <2>1, <2>4, BranchKeeps, CheckoutKeeps, RefuseMergeKeeps
    <2>5. CASE \E nm \in Names, res \in Resolutions : Merge(nm, res)
      BY <2>1, <2>5, MergeKeeps
    <2>6. CASE \E k \in DOMAIN commits : Reset(commits[k].id)
      BY <2>1, <2>6, ResetKeeps
    <2>7. QED
      BY <2>1, <2>2, <2>3, <2>4, <2>5, <2>6 DEF Step
  <1>3. QED
    BY <1>1, <1>2

\* The inductive invariant holds in every state of every run.
THEOREM InvariantHolds == Spec => []Invariant
  <1>1. Init => Invariant
    BY InitInvariant
  <1>2. Invariant /\ [Next]_vars => Invariant'
    BY NextKeeps
  <1>3. QED
    BY <1>1, <1>2, PTL DEF Spec

-----------------------------------------------------------------------------
(* The properties of the run                                               *)

\* Files and commits stay well formed, no two entries of a branch have one path, and the
\* first parent of each commit of a branch is the commit in front of it (add_parent,
\* add_two_parents), whatever was reset or merged: for any paths, contents and branches.
THEOREM HistoriesHold == Spec => []HistoriesAreSound
  <1>1. Invariant => HistoriesAreSound
    <2> SUFFICES ASSUME Invariant PROVE HistoriesAreSound
      OBVIOUS
    <2>1. /\ DOMAIN branches = 1 .. Len(branches) /\ DOMAIN commits = 1 .. Len(commits)
          /\ work \in [Paths -> Contents \cup {Gone}] /\ current \in DOMAIN branches
          /\ health \in {"sound", "strayed", "confused", "undefined", "exited"}
      BY LenProperties DEF Invariant, Sane
    <2>2. ASSUME NEW i \in DOMAIN branches
          PROVE  /\ health \in {"sound", "strayed"} => Distinct(branches[i].files)
                 /\ \A k \in DOMAIN branches[i].files :
                      branches[i].files[k] \in Entry /\ branches[i].files[k].own = i
      <3>1. BranchSound(branches[i], i, commits, health) /\ branches[i] \in BranchRecord
        BY <2>1 DEF Invariant, BranchSound
      <3>2. branches[i].files \in Seq(Entry)
        BY <3>1 DEF BranchRecord
      <3>3. QED
        BY <3>1, <3>2, LenProperties DEF BranchSound, Owned, Sane
    <2>3. ASSUME NEW k \in DOMAIN commits, NEW i \in DOMAIN Entries(commits[k])
          PROVE  Entries(commits[k])[i] \in Entry
      <3>1. commits[k] \in CommitRecord
        BY <2>1 DEF Invariant, CommitSound
      <3>2. /\ commits[k].added \in Seq(Entry) /\ commits[k].modified \in Seq(Entry)
            /\ commits[k].removed \in Seq(Entry) /\ commits[k].tracked \in Seq(Entry)
        BY <3>1 DEF CommitRecord
      <3>3. Saved(commits[k]) \in Seq(Entry)
        BY <3>2, SavedFacts
      <3>4. Entries(commits[k]) \in Seq(Entry)
        BY <3>2, <3>3, ConcatMembers DEF Entries
      <3>5. QED
        BY <3>4, LenProperties
    <2>4. ASSUME health # "undefined", NEW i \in DOMAIN branches, NEW k \in 2 .. branches[i].n
          PROVE  commits[branches[i].hist[k]].parents[1] = branches[i].hist[k - 1]
      <3>1. BranchSound(branches[i], i, commits, health) /\ branches[i] \in BranchRecord
        BY <2>1 DEF Invariant, BranchSound
      <3>2. /\ ChainOf(branches[i].hist, commits) /\ branches[i].n <= Len(branches[i].hist)
            /\ branches[i].n \in Nat /\ Len(branches[i].hist) \in Nat
        BY <2>4, <3>1, LenProperties DEF BranchSound, BranchRecord
      <3>3. k \in 2 .. Len(branches[i].hist)
        BY <3>2
      <3>4. QED
        BY <3>2, <3>3 DEF ChainOf
    <2>5. TypeOK
      BY <2>1, <2>2, <2>3 DEF TypeOK
    <2>6. HistoryIsChain
      BY <2>4 DEF HistoryIsChain
    <2>7. QED
      BY <2>5, <2>6 DEF HistoriesAreSound
  <1>2. QED
    BY <1>1, InvariantHolds, PTL

\* The last commit of a branch tracks what the branch takes for committed, and every commit
\* has a copy of each file it tracks, but for files with the same base name: what copy_file
\* makes of a content with the recorded hash, so short of what follows a byte 0xFF
\* (store_tracked_f), for any paths, contents, hashes and copies.
THEOREM HeadsHold == Spec => []HeadsAreComplete
  <1>1. Invariant => HeadsAreComplete
    <2> SUFFICES ASSUME Invariant PROVE HeadsAreComplete
      OBVIOUS
    <2>1. DOMAIN branches = 1 .. Len(branches) /\ DOMAIN commits = 1 .. Len(commits)
      BY LenProperties DEF Invariant
    <2>2. ASSUME health = "sound", NEW i \in DOMAIN branches, NEW k \in DOMAIN branches[i].files,
                 branches[i].files[k].added, ~branches[i].files[k].staged
          PROVE  /\ branches[i].n > 0
                 /\ branches[i].files[k].name \in Tracked(HeadOf(branches[i]))
      <3>1. BranchSound(branches[i], i, commits, health) /\ branches[i] \in BranchRecord
        BY <2>1 DEF Invariant, BranchSound
      <3>2. Agrees(branches[i], commits) /\ k \in 1 .. Len(branches[i].files)
        BY <2>2, <3>1, LenProperties DEF BranchSound, BranchRecord
      <3>3. QED
        BY <2>2, <3>2 DEF Agrees, HeadOf
    <2>3. FilesAgreeWithHead
      BY <2>2 DEF FilesAgreeWithHead
    <2>4. CopiesMatch
      <3>1. ASSUME health \in {"sound", "strayed"}, NEW k \in DOMAIN commits,
                   NEW i \in DOMAIN Saved(commits[k])
            PROVE  /\ Base[Saved(commits[k])[i].name] \in DOMAIN commits[k].dir
                   /\ Alone(commits[k], Saved(commits[k])[i]) =>
                        \E x \in Meant(Saved(commits[k])[i]) :
                          commits[k].dir[Base[Saved(commits[k])[i].name]] = CopyOf[x]
        <4>1. health \in Sane
          BY <3>1 DEF Sane
        <4>2. Complete(commits[k]) /\ Saved(commits[k]) \in Seq(Entry)
          BY <2>1, <4>1, CommitFacts
        <4>3. i \in 1 .. Len(Saved(commits[k]))
          BY <4>2, LenProperties
        <4>4. QED
          BY <4>2, <4>3 DEF Complete
      <3>2. QED
        BY <3>1 DEF CopiesMatch
    <2>5. QED
      BY <2>3, <2>4 DEF HeadsAreComplete
  <1>2. QED
    BY <1>1, InvariantHolds, PTL

\* Undoing the changes of the listed files brings them back to the commit, as far as its
\* copies go.
LEMMA UndoRestores ==
  ASSUME work \in Works, NEW fs \in Seq(Entry), NEW c, c \in CommitRecord,
         Saved(c) \in Seq(Entry), Complete(c), Undo(fs, c), NEW gs, gs = UndoneAll(fs, c)
  PROVE  RestoresCommit(fs, gs, c)
  <1>1. SUFFICES ASSUME NEW i \in DOMAIN fs
                 PROVE  IF fs[i].name \in Tracked(c)
                        THEN LET e == EntryOf(c, fs[i].name)
                             IN  /\ Alone(c, e) => \E x \in Meant(e) : work'[e.name] \in {x, CopyOf[x]}
                                 /\ gs[i].added = IF Differs(work, fs[i], c)
                                                  THEN fs[i].added ELSE e.added
                        ELSE ~gs[i].added
    BY DEF RestoresCommit
  <1>2. PICK p : p = fs[i].name
    OBVIOUS
  <1>3. PICK f : f = fs[i]
    OBVIOUS
  <1>4. f \in Entry /\ p \in Paths /\ f.name = p /\ i \in 1 .. Len(fs)
    <2>1. i \in 1 .. Len(fs) /\ f \in Entry
      BY <1>3, LenProperties
    <2>2. QED
      BY <1>2, <1>3, <2>1 DEF Entry
  <1>5. work'[p] = Restored(work, f, c)
    BY <1>2, <1>3, <1>4, UndoFacts
  <1>6. gs[i] = Undone(work, f, c)
    BY <1>3 DEF UndoneAll
  <1>7. PICK g : g = IF f.name \notin Tracked(c) THEN Flags(f, FALSE, FALSE, TRUE)
                     ELSE IF Differs(work, f, c) THEN f
                     ELSE LET e == EntryOf(c, f.name) IN Flags(f, e.added, e.staged, e.removed)
    OBVIOUS
  <1>8. PICK x : gs[i] = [g EXCEPT !.hash = x]
    BY <1>6, <1>7 DEF Undone
  <1>9. CASE p \notin Tracked(c)
    <2>1. g = Flags(f, FALSE, FALSE, TRUE)
      BY <1>4, <1>7, <1>9
    <2>2. g \in Entry /\ ~g.added
      BY <1>4, <2>1 DEF Flags, Entry
    <2>3. ~gs[i].added
      BY <1>8, <2>2 DEF Entry
    <2>4. QED
      BY <1>2, <1>9, <2>3
  <1>10. CASE p \in Tracked(c)
    <2>1. PICK k \in 1 .. Len(Saved(c)) : EntryOf(c, p) = Saved(c)[k] /\ Saved(c)[k].name = p
      BY <1>10, EntryOfFacts
    <2>2. PICK e : e = Saved(c)[k] /\ e = EntryOf(c, p) /\ e.name = p
      BY <2>1
    <2>3. e \in Entry
      BY <1>10, <2>2, EntryOfFacts
    <2>4. Alone(c, e) => \E y \in Meant(e) : c.dir[Base[p]] = CopyOf[y]
      BY <2>1, <2>2 DEF Complete
    <2>5. CASE Differs(work, f, c)
      <3>1. work'[p] = CopyOf[c.dir[Base[p]]]
        BY <1>4, <1>5, <1>10, <2>5, RestoredFacts
      <3>2. ASSUME Alone(c, e) PROVE \E y \in Meant(e) : work'[p] \in {y, CopyOf[y]}
        <4>1. PICK y \in Meant(e) : c.dir[Base[p]] = CopyOf[y]
          BY <2>4, <3>2
        <4>2. y \in Contents
          BY DEF Meant
        <4>3. work'[p] = CopyOf[y]
          BY <3>1, <4>1, <4>2, CopyAssumption
        <4>4. QED
          BY <4>3
      <3>3. g = f /\ gs[i].added = f.added
        BY <1>4, <1>7, <1>8, <1>10, <2>5 DEF Entry
      <3>4. QED
        BY <1>2, <1>3, <1>10, <2>2, <2>5, <3>2, <3>3
    <2>6. CASE ~Differs(work, f, c)
      <3>1. work'[p] = work[p]
        BY <1>4, <1>5, <2>6 DEF Restored
      <3>2. Hash(work, p) = e.hash
        BY <1>4, <2>2, <2>6 DEF Differs
      <3>3. ASSUME Alone(c, e) PROVE \E y \in Meant(e) : work'[p] \in {y, CopyOf[y]}
        <4>1. PICK y \in Meant(e) : c.dir[Base[p]] = CopyOf[y]
          BY <2>4, <3>3
        <4>2. NameSum[p] + ContentSum[y] = e.hash /\ NameSum[p] \in Nat /\ ContentSum[y] \in Nat
          BY <1>4, <2>2, SumsAssumption DEF Meant
        <4>3. work[p] # Gone
          BY <3>2, <4>2 DEF Hash
        <4>4. work[p] \in Contents /\ Hash(work, p) = NameSum[p] + ContentSum[work[p]]
          BY <1>4, <4>3, HashFacts
        <4>5. work[p] \in Meant(e)
          BY <2>2, <3>2, <4>4 DEF Meant
        <4>6. QED
          BY <3>1, <4>5
      <3>4. gs[i].added = e.added
        <4>1. e.added \in BOOLEAN /\ e.staged \in BOOLEAN /\ e.removed \in BOOLEAN
          BY <2>3 DEF Entry
        <4>2. g = Flags(f, e.added, e.staged, e.removed)
          BY <1>4, <1>7, <1>10, <2>2, <2>6
        <4>3. g \in Entry /\ g.added = e.added
          BY <1>4, <4>1, <4>2 DEF Flags, Entry
        <4>4. QED
          BY <1>8, <4>3 DEF Entry
      <3>5. QED
        BY <1>2, <1>3, <1>10, <2>2, <2>6, <3>3, <3>4
    <2>7. QED
      BY <2>5, <2>6
  <1>11. QED
    BY <1>9, <1>10

\* A call that goes to another branch restores the last commit of that branch.
LEMMA CheckoutStep ==
  ASSUME Invariant, health \in Sane, Step, current' # current, health' \in Sane,
         branches[current'].files # <<>>
  PROVE  RestoresCommit(branches[current'].files, branches'[current'].files,
                        HeadOf(branches[current']))
  <1>1. work \in Works
    BY DEF Invariant, Works
  <1>2. PICK nm \in Names : Checkout(nm)
    <2>1. ASSUME NEW q \in Paths, Edit(q) \/ Add(q) \/ Rm(q) PROVE FALSE
      BY <2>1 DEF Edit, Add, Rm
    <2>2. ASSUME NEW m \in Messages, Commit(m) PROVE FALSE
      BY <2>2 DEF Commit
    <2>3. ASSUME NEW nm \in Names, Branch(nm) \/ RefuseMerge(nm) PROVE FALSE
      BY <2>3 DEF Branch, RefuseMerge
    <2>4. ASSUME NEW nm \in Names, NEW res \in Resolutions, Merge(nm, res) PROVE FALSE
      BY <2>4 DEF Merge
    <2>5. ASSUME NEW k \in DOMAIN commits, Reset(commits[k].id) PROVE FALSE
      BY <2>5 DEF Reset
    <2>6. QED
      BY <2>1, <2>2, <2>3, <2>4, <2>5 DEF Step
  <1>3. PICK i \in 1 .. Len(branches) : i = current'
    BY <1>2, BranchOfFacts DEF Checkout
  <1>4. PICK b : b = branches[i]
    OBVIOUS
  <1>5. /\ b.files \in Seq(Entry) /\ b.n \in Nat
        /\ \A k \in 1 .. b.n : b.hist[k] \in 1 .. Len(commits)
    BY <1>3, <1>4, BranchFacts
  <1>6. PICK c : c = HeadOf(b)
    OBVIOUS
  <1>7. PICK gs : gs = UndoneAll(b.files, c)
    OBVIOUS
  <1>8. b.n # 0 /\ Undo(b.files, c) /\ branches' = [branches EXCEPT ![i].files = gs]
    <2>1. health' # "undefined" /\ health' # "exited" /\ b.files # <<>>
      BY <1>3, <1>4 DEF Sane
    <2>2. ~UndoFails(b.files, c)
      BY <2>1 DEF UndoFails
    <2>3. QED
      BY <1>2, <1>3, <1>4, <1>6, <1>7, <2>1, <2>2 DEF Checkout
  <1>9. PICK head \in 1 .. Len(commits) : head = b.hist[b.n] /\ c = commits[head]
    BY <1>5, <1>6, <1>8 DEF HeadOf
  <1>10. c \in CommitRecord /\ Saved(c) \in Seq(Entry) /\ Complete(c)
    BY <1>9, CommitFacts
  <1>11. RestoresCommit(b.files, gs, c)
    BY <1>1, <1>5, <1>7, <1>8, <1>10, UndoRestores
  <1>12. branches'[i].files = gs
    <2>1. b \in BranchRecord /\ DOMAIN branches = 1 .. Len(branches)
      BY <1>3, <1>4, LenProperties DEF Invariant
    <2>2. branches'[i] = [b EXCEPT !.files = gs]
      BY <1>4, <1>8, <2>1
    <2>3. QED
      BY <2>1, <2>2 DEF BranchRecord
  <1>13. QED
    BY <1>3, <1>4, <1>6, <1>11, <1>12

\* A reset restores the commit it has found.
LEMMA ResetStep ==
  ASSUME Invariant, health \in Sane, NEW id, Reset(id), health' \in Sane
  PROVE  RestoresCommit(branches[current'].files, branches'[current'].files,
           commits[branches[First(Places(id))[1]].hist[First(Places(id))[2]]])
  <1>1. /\ work \in Works /\ current \in 1 .. Len(branches) /\ current' = current
        /\ branches \in Seq(BranchRecord)
        /\ Len(branches) \in Nat /\ DOMAIN branches = 1 .. Len(branches)
    BY LenProperties DEF Reset, Invariant, Works
  <1>2. PICK x : x = First(Places(id))
    OBVIOUS
  <1>3. PICK i \in 1 .. Len(branches), j \in Nat :
          i = x[1] /\ j = x[2] /\ 1 <= j /\ j <= branches[i].n
    <2>1. Places(id) # {}
      BY DEF Reset
    <2>2. Places(id) \subseteq Nat \X Nat
      BY <1>1 DEF Places
    <2>3. x \in Places(id)
      BY <1>2, <2>1, <2>2, FirstFacts
    <2>4. QED
      BY <1>1, <2>3, BoundAssumption DEF Places
  <1>4. PICK b : b = branches[current]
    OBVIOUS
  <1>5. b.files \in Seq(Entry) /\ b \in BranchRecord
    BY <1>1, <1>4, BranchFacts
  <1>6. PICK head \in 1 .. Len(commits) : head = branches[i].hist[j]
    <2>1. /\ branches[i].n \in Nat
          /\ \A k \in 1 .. branches[i].n : branches[i].hist[k] \in 1 .. Len(commits)
      BY BranchFacts
    <2>2. j \in 1 .. branches[i].n
      BY <1>3, <2>1
    <2>3. QED
      BY <2>1, <2>2
  <1>7. PICK c : c = commits[head]
    OBVIOUS
  <1>8. c \in CommitRecord /\ Saved(c) \in Seq(Entry) /\ Complete(c)
    BY <1>7, CommitFacts
  <1>9. PICK gs : gs = UndoneAll(b.files, c)
    OBVIOUS
  <1>10. PICK cut : cut = Cut(i, j)
    OBVIOUS
  <1>11. Undo(b.files, c) /\ branches' = [cut EXCEPT ![current].files = gs]
    <2>1. health' # "undefined" /\ health' # "exited"
      BY DEF Sane
    <2>2. ~UndoFails(b.files, c)
      BY <2>1 DEF UndoFails
    <2>3. QED
      BY <1>2, <1>3, <1>4, <1>6, <1>7, <1>9, <1>10, <2>1, <2>2 DEF Reset, Here
  <1>12. RestoresCommit(b.files, gs, c)
    BY <1>1, <1>5, <1>8, <1>9, <1>11, UndoRestores
  <1>13. branches'[current].files = gs
    <2>1. cut = [k \in 1 .. Len(branches) |->
                   IF k \in {i, current} THEN [branches[k] EXCEPT !.n = j] ELSE branches[k]]
      BY <1>1, <1>10 DEF Cut
    <2>2. cut[current] = [b EXCEPT !.n = j] /\ current \in DOMAIN cut
      BY <1>1, <1>4, <2>1
    <2>3. branches'[current] = [cut[current] EXCEPT !.files = gs]
      BY <1>11, <2>2
    <2>4. cut[current] \in BranchRecord
      BY <1>3, <1>5, <2>2 DEF BranchRecord
    <2>5. QED
      BY <2>3, <2>4 DEF BranchRecord
  <1>14. QED
    BY <1>1, <1>2, <1>3, <1>4, <1>6, <1>7, <1>12, <1>13

\* Checking a branch out brings its listed files back to its last commit, and a reset those
\* of the current branch to the commit it finds, as far as copies and hashes tell and with
\* the flags that undo_file_changes gives (svc_checkout, svc_reset), for any number of
\* branches, files and earlier calls.
THEOREM CheckoutHolds == Spec => CheckoutRestores
  <1>1. ASSUME Invariant, [Next]_vars, vars' # vars, health' \in {"sound", "strayed"}
        PROVE  /\ current' # current /\ branches[current'].files # <<>> =>
                    RestoresCommit(branches[current'].files, branches'[current'].files,
                                   HeadOf(branches[current']))
               /\ \A id : Reset(id) =>
                    RestoresCommit(branches[current'].files, branches'[current'].files,
                      commits[branches[First(Places(id))[1]].hist[First(Places(id))[2]]])
    <2>1. health \in Sane /\ Step /\ health' \in Sane
      BY <1>1 DEF Next, Sane
    <2>2. ASSUME NEW id, Reset(id)
          PROVE  RestoresCommit(branches[current'].files, branches'[current'].files,
                   commits[branches[First(Places(id))[1]].hist[First(Places(id))[2]]])
      BY <1>1, <2>1, <2>2, ResetStep
    <2>3. QED
      BY <1>1, <2>1, <2>2, CheckoutStep
  <1>2. Invariant /\ [Next]_vars =>
          [health' \in {"sound", "strayed"} =>
             LET b == branches[current']
                 gs == branches'[current'].files
             IN  /\ current' # current /\ b.files # <<>> => RestoresCommit(b.files, gs, HeadOf(b))
                 /\ \A id \in {commits[k].id : k \in DOMAIN commits} :
                      commits' = commits /\ Reset(id) =>
                        LET x == First(Places(id))
                        IN  RestoresCommit(b.files, gs, commits[branches[x[1]].hist[x[2]]])]_vars
    BY <1>1
  <1>3. QED
    BY <1>2, InvariantHolds, PTL DEF Spec, CheckoutRestores

\* A commit has one parent at most.
LEMMA CommitParents ==
  ASSUME Invariant, health \in Sane, NEW m \in Messages, Commit(m), Len(commits') > Len(commits)
  PROVE  Len(commits'[Len(commits')].parents) \in {0, 1}
  <1>1. commits \in Seq(CommitRecord) /\ Len(commits) \in Nat
    BY LenProperties DEF Invariant
  <1>2. Valid(work, Here.files)
    BY <1>1 DEF Commit
  <1>3. PICK c : c = NewCommit(m, work, Here.files, Parents(Here))
    OBVIOUS
  <1>4. commits' = Append(commits, c)
    BY <1>2, <1>3 DEF Commit
  <1>5. PICK E : E = CommitRecord \cup {c}
    OBVIOUS
  <1>6. commits \in Seq(E) /\ c \in E
    <2>1. commits \in [1 .. Len(commits) -> CommitRecord]
      BY <1>1, LenProperties
    <2>2. commits \in [1 .. Len(commits) -> E]
      BY <1>5, <2>1
    <2>3. QED
      BY <1>1, <1>5, <2>2, SeqDef
  <1>7. Len(commits') = Len(commits) + 1 /\ commits'[Len(commits) + 1] = c
    BY <1>4, <1>6, AppendProperties
  <1>8. c.parents = Parents(Here)
    BY <1>3 DEF NewCommit
  <1>9. Len(Parents(Here)) \in {0, 1}
    BY DEF Parents
  <1>10. QED
    BY <1>7, <1>8, <1>9

\* The files that a commit tracks by an entry that says so
KeptFiles(d) == {p \in Tracked(d) : EntryOf(d, p).added}

\* A merge commit tracks the files that either head keeps, if they are there and those of
\* the other head are new to the active branch.
LEMMA MergeStep ==
  ASSUME Invariant, health \in Sane, NEW nm \in Names, NEW res \in Resolutions, Merge(nm, res),
         health' = "sound", Len(commits') > Len(commits),
         NEW p, work'[p] # Gone,
         \/ p \in KeptFiles(commits'[Here.hist[Here.n]])
         \/ /\ p \in KeptFiles(commits'[commits'[Len(commits')].parents[2]])
            /\ p \notin Listed(Here)
  PROVE  p \in Tracked(commits'[Len(commits')])
  <1>1. health' # "undefined" /\ health' # "exited" /\ health' \in Sane
    BY DEF Sane
  <1>2. PICK w \in Works, fs \in Seq(Entry), cs \in Seq(CommitRecord),
             k1 \in 1 .. Len(commits), k2 \in 1 .. Len(commits) :
          /\ Here.n > 0 /\ k1 = Here.hist[Here.n]
          /\ k2 = branches[BranchOf(nm)].hist[branches[BranchOf(nm)].n]
          /\ MergesTo(nm, w, cs, fs) /\ Settled(fs) /\ Owned(fs, current)
          /\ Len(cs) = Len(commits)
          /\ \A l \in 1 .. Len(commits) :
               CommitSound(cs[l], health') /\ cs[l].parents = commits[l].parents
          /\ health' \in Sane =>
               /\ \A l \in 1 .. Len(commits) : Tracked(cs[l]) = Tracked(commits[l])
               /\ \A i \in 1 .. Len(fs) :
                    fs[i].added /\ ~fs[i].staged => fs[i].name \in Tracked(cs[k1])
               /\ \A e : /\ e.added
                         /\ \/ Has(Saved(cs[k1]), e)
                            \/ Has(Saved(cs[k2]), e) /\ e.name \notin Listed(Here)
                      => \E i \in 1 .. Len(fs) : fs[i].name = e.name /\ fs[i].added
    BY <1>1, MergeParts
  <1>3. Valid(w, fs) /\ Len(commits) \in Nat
    <2>1. Len(commits) \in Nat
      BY LenProperties DEF Invariant
    <2>2. QED
      BY <1>2, <2>1 DEF MergesTo
  <1>4. PICK ps : ps = TwoParents(branches[BranchOf(nm)]) /\ ps \in Seq(Nat) /\ ps[2] = k2
    <2>1. TwoParents(branches[BranchOf(nm)]) = <<k1, k2>>
      BY <1>2 DEF TwoParents
    <2>2. k1 \in Nat /\ k2 \in Nat
      OBVIOUS
    <2>3. <<k1, k2>> \in Seq(Nat) /\ <<k1, k2>>[2] = k2
      BY <2>2
    <2>4. QED
      BY <2>1, <2>3, Zenon
  <1>5. PICK c : c = NewCommit(nm, w, fs, ps)
    OBVIOUS
  <1>6. CommitSound(c, health') /\ c \in CommitRecord /\ c.parents = ps
    <2>1. nm \in Messages \cup Names
      OBVIOUS
    <2>2. CommitSound(c, health') /\ c.parents = ps
      BY <1>2, <1>4, <1>5, <2>1, NewCommitFacts
    <2>3. QED
      BY <2>2 DEF CommitSound
  <1>7. \A j \in 1 .. Len(fs) : Recorded(w, fs[j]).added => fs[j].name \in Tracked(c)
    <2>1. nm \in Messages \cup Names
      OBVIOUS
    <2>2. QED
      BY <1>2, <1>4, <1>5, <2>1, NewCommitFacts
  <1>8. commits' = Append(cs, c) /\ work' = w
    BY <1>2, <1>3, <1>4, <1>5 DEF MergesTo, MergeCommit
  <1>9. /\ Len(commits') = Len(cs) + 1 /\ commits'[Len(cs) + 1] = c
        /\ \A k \in 1 .. Len(cs) : commits'[k] = cs[k]
    BY <1>6, <1>8, AppendProperties
  <1>10. /\ commits'[Len(commits')] = c /\ commits'[k1] = cs[k1]
         /\ commits'[k2] = cs[k2] /\ commits'[Len(commits')].parents[2] = k2
    BY <1>2, <1>4, <1>6, <1>9
  <1>11. \/ p \in KeptFiles(cs[k1])
         \/ p \in KeptFiles(cs[k2]) /\ p \notin Listed(Here)
    BY <1>2, <1>10
  <1>12. ASSUME NEW k \in 1 .. Len(commits), p \in KeptFiles(cs[k])
         PROVE  \E e : Has(Saved(cs[k]), e) /\ e.name = p /\ e.added
    <2>1. cs[k] \in CommitRecord
      BY <1>2 DEF CommitSound
    <2>2. PICK d : d = cs[k]
      OBVIOUS
    <2>3. d.added \in Seq(Entry) /\ d.modified \in Seq(Entry) /\ d.tracked \in Seq(Entry)
      BY <2>1, <2>2 DEF CommitRecord
    <2>4. Saved(d) \in Seq(Entry) /\ p \in Tracked(d) /\ EntryOf(d, p).added
      BY <1>12, <2>2, <2>3, SavedFacts DEF KeptFiles
    <2>5. PICK i \in 1 .. Len(Saved(d)) : EntryOf(d, p) = Saved(d)[i] /\ Saved(d)[i].name = p
      BY <2>4, EntryOfFacts
    <2>6. Has(Saved(d), Saved(d)[i])
      BY DEF Has
    <2>7. QED
      BY <2>2, <2>4, <2>5, <2>6
  <1>13. PICK i \in 1 .. Len(fs) : fs[i].name = p /\ fs[i].added
    <2>1. \E e : /\ e.added /\ e.name = p
                 /\ \/ Has(Saved(cs[k1]), e)
                    \/ Has(Saved(cs[k2]), e) /\ e.name \notin Listed(Here)
      BY <1>11, <1>12
    <2>2. QED
      BY <1>1, <1>2, <2>1
  <1>14. PICK f \in Entry : f = fs[i] /\ f.name = p /\ f.added /\ ~(f.added /\ f.removed)
    BY <1>2, <1>13, LenProperties DEF Settled
  <1>15. w[f.name] # Gone
    BY <1>8, <1>14
  <1>16. Recorded(w, f).added
    BY <1>14, <1>15, RecordedFacts
  <1>17. p \in Tracked(c)
    BY <1>7, <1>13, <1>14, <1>16
  <1>18. QED
    BY <1>10, <1>17

\* A merge commit tracks each file on disk that the active branch keeps, unless its head has
\* it resolved to Delete, and each that it takes over from the other head, whatever the
\* resolutions say of it: nothing is lost in a merge (add_to_merge_file_first_branch,
\* add_to_merge_file_second_branch).
THEOREM MergeHolds == Spec => MergeKeepsFiles
  <1>1. ASSUME Invariant, [Next]_vars, Len(commits') > Len(commits),
               Len(commits'[Len(commits')].parents) = 2, health' = "sound",
               NEW p \in KeptFiles(commits'[Here.hist[Here.n]])
                         \cup (KeptFiles(commits'[commits'[Len(commits')].parents[2]])
                                 \ Listed(Here)),
               work'[p] # Gone
        PROVE  p \in Tracked(commits'[Len(commits')])
    <2>1. Len(commits) \in Nat
      BY LenProperties DEF Invariant
    <2>2. commits' # commits
      BY <1>1, <2>1
    <2>3. health \in Sane /\ Step
      BY <1>1, <2>2 DEF Next, Sane, vars
    <2>4. ASSUME NEW q \in Paths, Edit(q) \/ Add(q) \/ Rm(q) PROVE FALSE
      BY <2>2, <2>4 DEF Edit, Add, Rm
    <2>5. ASSUME NEW m \in Messages, Commit(m) PROVE FALSE
      BY <1>1, <2>3, <2>5, CommitParents
    <2>6. ASSUME NEW nm \in Names, Branch(nm) \/ Checkout(nm) \/ RefuseMerge(nm) PROVE FALSE
      BY <2>2, <2>6 DEF Branch, Checkout, RefuseMerge
    <2>7. ASSUME NEW k \in DOMAIN commits, Reset(commits[k].id) PROVE FALSE
      BY <2>2, <2>7 DEF Reset
    <2>8. PICK nm \in Names, res \in Resolutions : Merge(nm, res)
      BY <2>3, <2>4, <2>5, <2>6, <2>7 DEF Step
    <2>9. \/ p \in KeptFiles(commits'[Here.hist[Here.n]])
          \/ /\ p \in KeptFiles(commits'[commits'[Len(commits')].parents[2]])
             /\ p \notin Listed(Here)
      OBVIOUS
    <2>10. QED
      BY <1>1, <2>3, <2>8, <2>9, MergeStep
  <1>2. Invariant /\ [Next]_vars =>
          [LET c == commits'[Len(commits')]
               Kept(d) == {p \in Tracked(d) : EntryOf(d, p).added}
               kept == Kept(commits'[Here.hist[Here.n]])
               taken == Kept(commits'[c.parents[2]]) \ Listed(Here)
           IN  Len(commits') > Len(commits) /\ Len(c.parents) = 2 /\ health' = "sound" =>
                 {p \in kept \cup taken : work'[p] # Gone} \subseteq Tracked(c)]_vars
    BY <1>1 DEF KeptFiles
  <1>3. QED
    BY <1>2, InvariantHolds, PTL DEF Spec, MergeKeepsFiles
=============================================================================
