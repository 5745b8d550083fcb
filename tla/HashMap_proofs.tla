--------------------------- MODULE HashMap_proofs ---------------------------
(***************************************************************************)
(* Theorems about HashMap for any number of threads, keys, calls and       *)
(* buckets and any hash function.                                          *)
(***************************************************************************)
EXTENDS HashMap, FiniteSetTheorems, SequenceTheorems, WellFoundedInduction, TLAPS

-----------------------------------------------------------------------------
(* The inductive invariants                                                *)

Node == [key : Keys, by : Calls, id : Calls]

NodesOf(chains) == UNION { ToSet(chains[i]) : i \in DOMAIN chains }
Nodes == NodesOf(buckets)

\* What tells the entries of the table apart
Key == [x \in Node |-> x.key]
By  == [x \in Node |-> x.by]
Id  == [x \in Node |-> x.id]

Distinct(chains, Tag) ==
  \A i, k \in DOMAIN chains : \A j \in 1..Len(chains[i]), l \in 1..Len(chains[k]) :
    Tag[chains[i][j]] = Tag[chains[k][l]] => i = k /\ j = l

Putting   == {"put", "putBucket"}
Removing  == {"remove", "removeBucket", "removeScan", "removeEntry"}
Getting   == {"get", "getBucket", "getScan", "getValue"}
Scanning  == {"removeScan", "removeEntry", "getScan"}
AtBucket  == {"putBucket", "removeBucket", "getBucket"} \cup Scanning
Places    == {"idle", "expand", "grow", "copy"} \cup Putting \cup Removing \cup Getting

Typed ==
  /\ mix \in Mixes /\ mix \subseteq {"put", "remove", "get"}
  /\ n_buckets \in Nat \ {0} /\ generation \in Nat
  /\ buckets \in [0..n_buckets-1 -> Seq(Node)]
  /\ bucketLock \in [0..n_buckets-1 -> Threads \cup {NoThread}]
  /\ lock \in Threads \cup {NoThread}
  /\ size \in 0..2^SizeBits-1 /\ register \in [Threads -> 0..2^SizeBits-1]
  /\ pc \in [Threads -> Places]
  /\ key \in [Threads -> Keys] /\ calls \in [Threads -> 0..MaxCalls]
  /\ bucket \in [Threads -> [gen : Nat, index : Nat]]
  /\ node_ref \in [Threads -> [gen : Nat, id : Calls \cup {NoCall}]]
  /\ moved \subseteq Calls
  /\ key_destructed \in [Objects -> Nat] /\ value_destructed \in [Objects -> Nat]

\* A bucket pointer is of an array there has been; unless that array was replaced the
\* pointer is that of the bucket where a lookup of the key belongs.
PointersFit ==
  \A t \in Threads :
    /\ bucket[t].gen <= generation
    /\ pc[t] \in AtBucket /\ ~IsStale(t) =>
         bucket[t].index = CalculateIndex(n_buckets, Hash[key[t]])

\* The lock of the map is held from finding the bucket of a put or a get to locking it,
\* and while the table may grow; a bucket is scanned under its lock.
LocksHeld ==
  \A t \in Threads :
    /\ pc[t] \in {"putBucket", "getBucket", "grow", "copy"} => lock = t
    /\ pc[t] \in {"putBucket", "getBucket"} => ~IsStale(t)
    /\ pc[t] \in Scanning /\ ~IsStale(t) => bucketLock[bucket[t].index] = t
    /\ pc[t] = "removeEntry" /\ ~IsStale(t) => Present(t)

\* The calls that have handed over their objects are calls that were made, and a put
\* that is still to store its objects is none of them.  No two entries have objects
\* or an origin in common.
EntriesAreOwned ==
  /\ \A c \in moved : c[2] <= calls[c[1]]
  /\ \A t \in Threads : pc[t] \in Putting => MyCall(t) \in Calls \ moved
  /\ \A node \in Nodes : node.by \in moved /\ node.id \in moved
  /\ Distinct(buckets, By) /\ Distinct(buckets, Id)

\* Only what the mix contains is called; without a removal or an expansion the node a
\* getter points to stays.
NodesStay ==
  \A t \in Threads :
    /\ pc[t] \in Getting => "get" \in mix
    /\ pc[t] \in Removing => "remove" \in mix
    /\ pc[t] = "getValue" /\ generation = 0 /\ "remove" \notin mix =>
         NodeIsAlive(node_ref[t])

\* Tag tells the nodes in S from each other and from those of the table.
ToldApart(S, Tag) ==
  \A x \in S : /\ \A y \in Nodes : Tag[x] # Tag[y]
              /\ \A y \in S : Tag[x] = Tag[y] => x = y

\* What was removed while a table is copied has nothing in common with what is in it:
\* no put comes in between.
RemovedFit ==
  /\ unlinked \subseteq Node /\ IsFiniteSet(unlinked)
  /\ unlinked # {} => Expanding /\ "remove" \in mix
  /\ \A x \in unlinked : x.by \in moved /\ x.id \in moved
  /\ ToldApart(unlinked, By) /\ ToldApart(unlinked, Id)

\* What a getter points to is, if anything, an entry of its key.
RefsFit ==
  \A t \in Threads : pc[t] = "getValue" =>
    /\ node_ref[t].id \in moved
    /\ \A node \in Nodes \cup unlinked : node.id = node_ref[t].id => node.key = key[t]

Growing == { t \in Threads : pc[t] \in {"expand", "grow"} }

\* Without removals size counts the entries whose put has counted them, and so does the
\* value about to be stored.
SizeFits ==
  /\ \A t \in Threads : ~open => pc[t] = "idle"
  /\ "remove" \notin mix =>
       /\ open => size + Cardinality(Growing) = Cardinality(Held)
       /\ \A t \in Threads : pc[t] = "grow" => register[t] = size + 1

\* The lock protocol and the ownership of objects
Invariant ==
  /\ Typed /\ PointersFit /\ LocksHeld /\ EntriesAreOwned /\ ObjectsAreOwned
  /\ NodesStay /\ OnlyKnownMisuse

-----------------------------------------------------------------------------
(* Sequences and the two loops of an expansion                             *)

\* Every nonempty set of naturals has a least element, and Min picks it.
LEMMA LeastOf ==
  ASSUME NEW I, I \subseteq Nat, I # {}
  PROVE  Min(I) \in I /\ \A x \in I : Min(I) <= x
  <1> DEFINE R == OpToRel(<, Nat)
  <1>1. IsWellFoundedOn(R, Nat)
    BY NatLessThanWellFounded
  <1>2. R = { p \in Nat \X Nat : p[1] < p[2] }
    BY DEF OpToRel
  <1> HIDE DEF R
  <1>3. PICK least \in I : \A y \in I : ~(<< y, least >> \in R)
    BY <1>1, WFMin
  <1>4. ASSUME NEW y \in I PROVE least <= y
    <2>1. << y, least >> \in Nat \X Nat
      OBVIOUS
    <2>2. QED
      BY <1>2, <1>3, <2>1
  <1>5. QED
    BY <1>4 DEF Min

\* Induction, for the numbers in a set
LEMMA SetInduction ==
  ASSUME NEW S \in SUBSET Nat, 0 \in S, \A m \in S : m + 1 \in S
  PROVE  S = Nat
  <1> SUFFICES ASSUME Nat \ S # {} PROVE FALSE
    OBVIOUS
  <1> DEFINE least == Min(Nat \ S)
  <1>1. least \in Nat \ S /\ \A m \in Nat \ S : least <= m
    BY LeastOf
  <1> HIDE DEF least
  <1>2. least - 1 \in Nat
    BY <1>1
  <1>3. least - 1 \in S
    BY <1>1, <1>2
  <1>4. (least - 1) + 1 \in S
    BY <1>3
  <1>5. QED
    BY <1>1, <1>4

\* The concatenations that FlattenSeq builds up
Joined(seqs) ==
  CHOOSE f : f = [i \in 1..Len(seqs) |->
                    IF i = 1 THEN seqs[i] ELSE f[i-1] \o seqs[i]]

LEMMA JoinedExists ==
  ASSUME NEW seqs, Len(seqs) \in Nat
  PROVE  Joined(seqs) = [i \in 1..Len(seqs) |->
                           IF i = 1 THEN seqs[i] ELSE Joined(seqs)[i-1] \o seqs[i]]
  <1> DEFINE Is(f, m) == f = [i \in 1..m |-> IF i = 1 THEN seqs[i] ELSE f[i-1] \o seqs[i]]
             S == { m \in Nat : \E f : Is(f, m) }
  <1>1. 0 \in S
    <2>1. Is([i \in 1..0 |-> << >>], 0)
      OBVIOUS
    <2>2. QED
      BY <2>1
  <1>2. ASSUME NEW m \in S PROVE m + 1 \in S
    <2>1. m \in Nat
      OBVIOUS
    <2>2. PICK f : Is(f, m)
      OBVIOUS
    <2>3. \A i \in 1..m : f[i] = IF i = 1 THEN seqs[i] ELSE f[i-1] \o seqs[i]
      BY <2>2
    <2> DEFINE g == [i \in 1..m+1 |-> IF i = m + 1
                                      THEN IF i = 1 THEN seqs[i] ELSE f[i-1] \o seqs[i]
                                      ELSE f[i]]
    <2>4. \A i \in 1..m : g[i] = f[i]
      BY <2>1
    <2>5. ASSUME NEW i \in 1..m+1
          PROVE  g[i] = IF i = 1 THEN seqs[i] ELSE g[i-1] \o seqs[i]
      <3>1. i # 1 => g[i-1] = f[i-1]
        BY <2>1, <2>4
      <3>2. CASE i = m + 1
        BY <3>1, <3>2
      <3>3. CASE i # m + 1
        <4>1. i \in 1..m
          BY <2>1, <3>3
        <4>2. g[i] = f[i]
          BY <2>4, <4>1
        <4>3. QED
          BY <2>3, <3>1, <4>1, <4>2
      <3>4. QED
        BY <3>2, <3>3
    <2>6. g = [i \in 1..m+1 |-> g[i]]
      OBVIOUS
    <2> HIDE DEF g
    <2>7. Is(g, m + 1)
      BY <2>5, <2>6
    <2> HIDE DEF Is
    <2>8. \E h : Is(h, m + 1)
      BY <2>7
    <2>9. QED
      BY <2>1, <2>8
  <1>3. S = Nat
    <2> HIDE DEF S
    <2>1. S \subseteq Nat
      BY DEF S
    <2>2. QED
      BY <1>1, <1>2, <2>1, SetInduction
  <1>4. QED
    BY <1>3 DEF Joined

\* A sequence s holds the elements of the first m sequences, and if all of those are
\* told apart by Tag, so are its own.
Holds(s, seqs, m, Tag) ==
  /\ s \in Seq(Node)
  /\ \A p \in 1..Len(s) : \E i \in 1..m : \E j \in 1..Len(seqs[i]) : s[p] = seqs[i][j]
  /\ \A i \in 1..m : \A j \in 1..Len(seqs[i]) : \E p \in 1..Len(s) : s[p] = seqs[i][j]
  /\ Distinct(seqs, Tag) => \A p, q \in 1..Len(s) : Tag[s[p]] = Tag[s[q]] => p = q

LEMMA HoldsMore ==
  ASSUME NEW seqs \in Seq(Seq(Node)), NEW Tag, NEW m \in 1..Len(seqs), m + 1 \in 1..Len(seqs),
         NEW s, Holds(s, seqs, m, Tag)
  PROVE  Holds(s \o seqs[m+1], seqs, m + 1, Tag)
  <1> DEFINE b == seqs[m+1]
             r == s \o b
  <1>1. s \in Seq(Node) /\ b \in Seq(Node)
    BY DEF Holds
  <1>2. r \in Seq(Node) /\ Len(r) = Len(s) + Len(b) /\ Len(s) \in Nat /\ Len(b) \in Nat
    BY <1>1
  <1>3. /\ \A p \in 1..Len(s) : r[p] = s[p] /\ p \in 1..Len(r)
        /\ \A l \in 1..Len(b) : r[Len(s) + l] = b[l] /\ Len(s) + l \in 1..Len(r)
    BY <1>1, <1>2
  <1>4. \A p \in 1..Len(r) : p \in 1..Len(s) \/ \E l \in 1..Len(b) : p = Len(s) + l
    <2> SUFFICES ASSUME NEW p \in 1..Len(r), p \notin 1..Len(s)
                 PROVE  \E l \in 1..Len(b) : p = Len(s) + l
      OBVIOUS
    <2>1. p - Len(s) \in 1..Len(b) /\ p = Len(s) + (p - Len(s))
      BY <1>2
    <2>2. QED
      BY <2>1
  <1> HIDE DEF r
  <1>5. ASSUME NEW p \in 1..Len(r)
        PROVE  \E i \in 1..m+1 : \E j \in 1..Len(seqs[i]) : r[p] = seqs[i][j]
    <2>1. CASE p \in 1..Len(s)
      <3>1. PICK i \in 1..m : \E j \in 1..Len(seqs[i]) : s[p] = seqs[i][j]
        BY <2>1 DEF Holds
      <3>2. i \in 1..m+1
        OBVIOUS
      <3>3. QED
        BY <1>3, <2>1, <3>1, <3>2
    <2>2. ASSUME NEW l \in 1..Len(b), p = Len(s) + l
          PROVE  \E i \in 1..m+1 : \E j \in 1..Len(seqs[i]) : r[p] = seqs[i][j]
      <3>1. m + 1 \in 1..m+1 /\ l \in 1..Len(seqs[m+1]) /\ r[p] = seqs[m+1][l]
        BY <1>3, <2>2
      <3>2. QED
        BY <3>1
    <2>3. QED
      BY <1>4, <2>1, <2>2
  <1>6. ASSUME NEW i \in 1..m+1, NEW j \in 1..Len(seqs[i])
        PROVE  \E p \in 1..Len(r) : r[p] = seqs[i][j]
    <2>1. CASE i = m + 1
      BY <1>3, <2>1
    <2>2. CASE i # m + 1
      <3>1. i \in 1..m
        BY <2>2
      <3>2. PICK p \in 1..Len(s) : s[p] = seqs[i][j]
        BY <3>1 DEF Holds
      <3>3. QED
        BY <1>3, <3>2
    <2>3. QED
      BY <2>1, <2>2
  <1>7. ASSUME Distinct(seqs, Tag), NEW p \in 1..Len(r), NEW q \in 1..Len(r),
               Tag[r[p]] = Tag[r[q]]
        PROVE  p = q
    <2>1. ASSUME NEW x \in 1..Len(s), NEW l \in 1..Len(b)
          PROVE  Tag[s[x]] # Tag[b[l]]
      <3>1. PICK i \in 1..m : \E j \in 1..Len(seqs[i]) : s[x] = seqs[i][j]
        BY DEF Holds
      <3>2. PICK j \in 1..Len(seqs[i]) : s[x] = seqs[i][j]
        BY <3>1
      <3>3. /\ i \in DOMAIN seqs /\ m + 1 \in DOMAIN seqs /\ i # m + 1
            /\ j \in 1..Len(seqs[i]) /\ l \in 1..Len(seqs[m+1])
        BY <1>1
      <3>4. Tag[seqs[i][j]] = Tag[seqs[m+1][l]] => i = m + 1
        BY <1>7, <3>3 DEF Distinct
      <3>5. QED
        BY <3>2, <3>3, <3>4
    <2>2. ASSUME NEW k \in 1..Len(b), NEW l \in 1..Len(b), Tag[b[k]] = Tag[b[l]]
          PROVE  k = l
      <3>1. m + 1 \in DOMAIN seqs /\ k \in 1..Len(seqs[m+1]) /\ l \in 1..Len(seqs[m+1])
        BY <1>1
      <3>2. QED
        BY <1>7, <2>2, <3>1 DEF Distinct
    <2>3. \A x, y \in 1..Len(s) : Tag[s[x]] = Tag[s[y]] => x = y
      BY <1>7 DEF Holds
    <2>4. CASE p \in 1..Len(s) /\ q \in 1..Len(s)
      BY <1>3, <1>7, <2>3, <2>4
    <2>5. CASE p \in 1..Len(s) /\ q \notin 1..Len(s)
      <3>1. PICK l \in 1..Len(b) : q = Len(s) + l
        BY <1>4, <2>5
      <3>2. Tag[s[p]] = Tag[b[l]]
        BY <1>3, <1>7, <2>5, <3>1
      <3>3. QED
        BY <2>1, <2>5, <3>2
    <2>6. CASE p \notin 1..Len(s) /\ q \in 1..Len(s)
      <3>1. PICK l \in 1..Len(b) : p = Len(s) + l
        BY <1>4, <2>6
      <3>2. Tag[s[q]] = Tag[b[l]]
        BY <1>3, <1>7, <2>6, <3>1
      <3>3. QED
        BY <2>1, <2>6, <3>2
    <2>7. CASE p \notin 1..Len(s) /\ q \notin 1..Len(s)
      <3>1. PICK k \in 1..Len(b) : p = Len(s) + k
        BY <1>4, <2>7
      <3>2. PICK l \in 1..Len(b) : q = Len(s) + l
        BY <1>4, <2>7
      <3>3. Tag[b[k]] = Tag[b[l]]
        BY <1>3, <1>7, <3>1, <3>2
      <3>4. QED
        BY <2>2, <3>1, <3>2, <3>3
    <2>8. QED
      BY <2>4, <2>5, <2>6, <2>7
  <1>8. Holds(r, seqs, m + 1, Tag)
    BY <1>2, <1>5, <1>6, <1>7 DEF Holds
  <1>9. QED
    BY <1>8 DEF r

\* The nodes in the order in which an expansion takes them
LEMMA FlattenHolds ==
  ASSUME NEW seqs \in Seq(Seq(Node)), NEW Tag, Len(seqs) # 0
  PROVE  Holds(FlattenSeq(seqs), seqs, Len(seqs), Tag)
  <1> DEFINE J == Joined(seqs)
             S == { m \in Nat : m \in 1..Len(seqs) => Holds(J[m], seqs, m, Tag) }
  <1>1. Len(seqs) \in Nat \ {0}
    OBVIOUS
  <1>2. \A i \in 1..Len(seqs) : J[i] = IF i = 1 THEN seqs[i] ELSE J[i-1] \o seqs[i]
    <2>1. J = [i \in 1..Len(seqs) |-> IF i = 1 THEN seqs[i] ELSE J[i-1] \o seqs[i]]
      BY <1>1, JoinedExists
    <2> HIDE DEF J
    <2>2. QED
      BY <2>1
  <1>3. FlattenSeq(seqs) = J[Len(seqs)]
    BY DEF FlattenSeq, Joined
  <1> HIDE DEF J
  <1>4. 0 \in S
    OBVIOUS
  <1>5. ASSUME NEW m \in S PROVE m + 1 \in S
    <2> SUFFICES ASSUME m + 1 \in 1..Len(seqs)
                 PROVE  Holds(J[m+1], seqs, m + 1, Tag)
      OBVIOUS
    <2>1. CASE m = 0
      <3>1. J[1] = seqs[1] /\ seqs[1] \in Seq(Node) /\ 1 \in DOMAIN seqs
        BY <1>1, <1>2
      <3>2. Holds(seqs[1], seqs, 1, Tag)
        BY <3>1 DEF Holds, Distinct
      <3>3. QED
        BY <2>1, <3>1, <3>2
    <2>2. CASE m # 0
      <3>1. m \in 1..Len(seqs) /\ Holds(J[m], seqs, m, Tag)
        BY <1>1, <2>2
      <3>2. J[m+1] = J[m] \o seqs[m+1]
        <4>1. (m + 1) - 1 = m /\ m + 1 # 1
          BY <2>2
        <4>2. J[m+1] = IF m + 1 = 1 THEN seqs[m+1] ELSE J[(m + 1) - 1] \o seqs[m+1]
          BY <1>2
        <4>3. QED
          BY <4>1, <4>2
      <3>3. QED
        BY <3>1, <3>2, HoldsMore
    <2>3. QED
      BY <2>1, <2>2
  <1>6. S = Nat
    <2> HIDE DEF S
    <2>1. S \subseteq Nat
      BY DEF S
    <2>2. QED
      BY <1>4, <1>5, <2>1, SetInduction
  <1>7. QED
    BY <1>1, <1>3, <1>6

\* The arrays that Refilled builds up
Filled(nodes) ==
  CHOOSE f : f = [j \in 0..Len(nodes) |->
                    IF j = 0 THEN [i \in 0..2*n_buckets-1 |-> << >>]
                    ELSE [f[j-1] EXCEPT ![NewIndex(Hash[nodes[j].key])] = Append(@, nodes[j])]]

LEMMA FilledExists ==
  ASSUME NEW nodes, Len(nodes) \in Nat
  PROVE  Filled(nodes) =
           [j \in 0..Len(nodes) |->
              IF j = 0 THEN [i \in 0..2*n_buckets-1 |-> << >>]
              ELSE [Filled(nodes)[j-1] EXCEPT
                      ![NewIndex(Hash[nodes[j].key])] = Append(@, nodes[j])]]
  <1> DEFINE Empty == [i \in 0..2*n_buckets-1 |-> << >>]
             Add(c, j) == [c EXCEPT ![NewIndex(Hash[nodes[j].key])] = Append(@, nodes[j])]
             Is(f, m) == f = [j \in 0..m |-> IF j = 0 THEN Empty ELSE Add(f[j-1], j)]
             S == { m \in Nat : \E f : Is(f, m) }
  <1>1. \A m \in Nat : (\E f : Is(f, m)) => m \in S
    OBVIOUS
  <1>2. \A m \in S : m \in Nat /\ \E f : Is(f, m)
    OBVIOUS
  <1>3. S \in SUBSET Nat
    OBVIOUS
  <1> HIDE DEF Empty, Add, S
  <1>4. 0 \in S
    <2>1. Is([j \in 0..0 |-> Empty], 0)
      OBVIOUS
    <2> HIDE DEF Is
    <2>2. \E f : Is(f, 0)
      BY <2>1
    <2>3. QED
      BY <1>1, <2>2
  <1>5. ASSUME NEW m \in S PROVE m + 1 \in S
    <2>1. m \in Nat
      BY <1>3
    <2>2. PICK f : Is(f, m)
      BY <1>2
    <2>3. \A j \in 0..m : f[j] = IF j = 0 THEN Empty ELSE Add(f[j-1], j)
      BY <2>2
    <2> DEFINE g == [j \in 0..m+1 |-> IF j = m + 1 THEN Add(f[m], j) ELSE f[j]]
    <2>4. \A j \in 0..m : g[j] = f[j]
      BY <2>1
    <2>5. g[m+1] = Add(f[m], m + 1)
      BY <2>1
    <2>6. g = [j \in 0..m+1 |-> g[j]]
      OBVIOUS
    <2> HIDE DEF g
    <2>7. ASSUME NEW j \in 0..m+1
          PROVE  g[j] = IF j = 0 THEN Empty ELSE Add(g[j-1], j)
      <3>1. CASE j = m + 1
        <4>1. g[j-1] = f[m]
          BY <2>1, <2>4, <3>1
        <4>2. QED
          BY <2>1, <2>5, <3>1, <4>1
      <3>2. CASE j # m + 1
        <4>1. j \in 0..m /\ (j # 0 => j - 1 \in 0..m)
          BY <2>1, <3>2
        <4>2. g[j] = f[j] /\ (j # 0 => g[j-1] = f[j-1])
          BY <2>4, <4>1
        <4>3. QED
          BY <2>3, <4>1, <4>2
      <3>3. QED
        BY <3>1, <3>2
    <2>8. Is(g, m + 1)
      BY <2>6, <2>7
    <2> HIDE DEF Is
    <2>9. \E h : Is(h, m + 1)
      BY <2>8
    <2>10. m + 1 \in Nat
      BY <2>1
    <2>11. QED
      BY <1>1, <2>9, <2>10
  <1>6. S = Nat
    BY <1>3, <1>4, <1>5, SetInduction
  <1>7. \E f : Is(f, Len(nodes))
    BY <1>2, <1>6
  <1>8. QED
    BY <1>7 DEF Filled, Empty, Add

\* An index is that of a bucket, also after the hash value has gone through an int.
LEMMA IndexInRange ==
  ASSUME NEW k \in Keys, n_buckets \in Nat \ {0}
  PROVE  /\ CalculateIndex(n_buckets, Hash[k]) \in 0..n_buckets-1
         /\ NewIndex(Hash[k]) \in 0..2*n_buckets-1
  <1>1. Hash[k] \in Nat
    BY HashMapAssumption
  <1>2. 2^IntBits \in Int /\ 2^(IntBits-1) \in Int /\ 2^SizeBits \in Int
    BY HashMapAssumption
  <1>3. ThroughInt(Hash[k]) \in Int
    <2> DEFINE low == Hash[k] % 2^IntBits
    <2>1. low \in Int
      <3>1. IntBits \in 0..IntBits
        BY HashMapAssumption
      <3>2. 2^IntBits > 0
        BY <3>1, PowersAssumption
      <3>3. QED
        BY <1>1, <1>2, <3>2
    <2> HIDE DEF low
    <2>2. (IF low >= 2^(IntBits-1) THEN low - 2^IntBits + 2^SizeBits ELSE low) \in Int
      BY <1>2, <2>1
    <2>3. QED
      BY <2>2 DEF ThroughInt, low
  <1>4. 2 * n_buckets \in Nat \ {0}
    OBVIOUS
  <1>5. CalculateIndex(n_buckets, Hash[k]) \in 0..n_buckets-1
    <2> DEFINE h == Hash[k]
    <2>1. h \in Int
      BY <1>1
    <2> HIDE DEF h
    <2>2. h % n_buckets \in 0..n_buckets-1
      BY <2>1
    <2>3. QED
      BY <2>2 DEF CalculateIndex, h
  <1>6. NewIndex(Hash[k]) \in 0..2*n_buckets-1
    <2> DEFINE h == ThroughInt(Hash[k])
               m == 2 * n_buckets
    <2>1. NewIndex(Hash[k]) = h % m
      BY DEF NewIndex, CalculateIndex
    <2>2. h \in Int /\ m \in Nat \ {0}
      BY <1>3, <1>4
    <2> HIDE DEF h, m
    <2>3. h % m \in 0..m-1
      BY <2>2
    <2>4. QED
      BY <2>1, <2>3 DEF m
  <1>7. QED
    BY <1>5, <1>6

\* The array c holds the first m nodes, each at its new index, and if those are told
\* apart by Tag, so are the entries of c.
Refills(c, nodes, m, Tag) ==
  /\ c \in [0..2*n_buckets-1 -> Seq(Node)]
  /\ \A i \in 0..2*n_buckets-1 : \A j \in 1..Len(c[i]) :
       /\ NewIndex(Hash[c[i][j].key]) = i
       /\ \E p \in 1..m : c[i][j] = nodes[p]
  /\ \A p \in 1..m : \E i \in 0..2*n_buckets-1 : \E j \in 1..Len(c[i]) : c[i][j] = nodes[p]
  /\ (\A p, q \in 1..Len(nodes) : Tag[nodes[p]] = Tag[nodes[q]] => p = q) => Distinct(c, Tag)

LEMMA RefillsMore ==
  ASSUME n_buckets \in Nat \ {0}, NEW nodes \in Seq(Node), NEW Tag, NEW m \in Nat,
         m + 1 \in 1..Len(nodes), NEW c, Refills(c, nodes, m, Tag)
  PROVE  Refills([c EXCEPT ![NewIndex(Hash[nodes[m+1].key])] = Append(@, nodes[m+1])],
                 nodes, m + 1, Tag)
  <1> DEFINE x == nodes[m+1]
             a == NewIndex(Hash[x.key])
             d == [c EXCEPT ![a] = Append(@, x)]
             e == Len(c[a]) + 1
  <1>1. x \in Node /\ a \in 0..2*n_buckets-1
    <2>1. x \in Node
      OBVIOUS
    <2>2. x.key \in Keys
      BY <2>1 DEF Node
    <2>3. QED
      BY <2>1, <2>2, IndexInRange
  <1>2. a = NewIndex(Hash[x.key])
    OBVIOUS
  <1> HIDE DEF a, x
  <1>3. c \in [0..2*n_buckets-1 -> Seq(Node)]
    BY DEF Refills
  <1>4. c[a] \in Seq(Node) /\ Len(c[a]) \in Nat
    BY <1>1, <1>3
  <1>5. Append(c[a], x) \in Seq(Node) /\ Len(Append(c[a], x)) = e
        /\ Append(c[a], x)[e] = x
        /\ \A j \in 1..Len(c[a]) : Append(c[a], x)[j] = c[a][j]
    BY <1>1, <1>4
  <1>6. d \in [0..2*n_buckets-1 -> Seq(Node)]
    BY <1>1, <1>3, <1>5
  <1>7. d[a] = Append(c[a], x) /\ \A i \in 0..2*n_buckets-1 : i # a => d[i] = c[i]
    BY <1>1, <1>3
  <1> HIDE DEF d
  <1>8. \A i \in 0..2*n_buckets-1 : \A j \in 1..Len(d[i]) :
          \/ j \in 1..Len(c[i]) /\ d[i][j] = c[i][j]
          \/ i = a /\ j = e /\ d[i][j] = x
    <2> SUFFICES ASSUME NEW i \in 0..2*n_buckets-1, NEW j \in 1..Len(d[i])
                 PROVE  \/ j \in 1..Len(c[i]) /\ d[i][j] = c[i][j]
                        \/ i = a /\ j = e /\ d[i][j] = x
      OBVIOUS
    <2>1. CASE i # a
      BY <1>7, <2>1
    <2>2. CASE i = a
      <3>1. j \in 1..e
        BY <1>5, <1>7, <2>2
      <3>2. CASE j = e
        BY <1>5, <1>7, <2>2, <3>2
      <3>3. CASE j # e
        <4>1. j \in 1..Len(c[a])
          BY <1>4, <3>1, <3>3
        <4>2. QED
          BY <1>5, <1>7, <2>2, <4>1
      <3>4. QED
        BY <3>2, <3>3
    <2>3. QED
      BY <2>1, <2>2
  <1>9. \A i \in 0..2*n_buckets-1 : \A j \in 1..Len(c[i]) :
          j \in 1..Len(d[i]) /\ d[i][j] = c[i][j]
    <2> SUFFICES ASSUME NEW i \in 0..2*n_buckets-1, NEW j \in 1..Len(c[i])
                 PROVE  j \in 1..Len(d[i]) /\ d[i][j] = c[i][j]
      OBVIOUS
    <2>1. CASE i # a
      BY <1>7, <2>1
    <2>2. CASE i = a
      <3>1. j \in 1..Len(c[a]) /\ j \in 1..e
        BY <1>4, <2>2
      <3>2. QED
        BY <1>5, <1>7, <2>2, <3>1
    <2>3. QED
      BY <2>1, <2>2
  <1>10. ASSUME NEW i \in 0..2*n_buckets-1, NEW j \in 1..Len(d[i])
         PROVE  NewIndex(Hash[d[i][j].key]) = i /\ \E p \in 1..m+1 : d[i][j] = nodes[p]
    <2>1. CASE j \in 1..Len(c[i]) /\ d[i][j] = c[i][j]
      <3>1. NewIndex(Hash[c[i][j].key]) = i /\ \E p \in 1..m : c[i][j] = nodes[p]
        BY <2>1 DEF Refills
      <3>2. 1..m \subseteq 1..m+1
        OBVIOUS
      <3>3. QED
        BY <2>1, <3>1, <3>2
    <2>2. CASE i = a /\ j = e /\ d[i][j] = x
      <3>1. m + 1 \in 1..m+1
        OBVIOUS
      <3>2. QED
        BY <1>2, <2>2, <3>1 DEF x
    <2>3. QED
      BY <1>8, <2>1, <2>2
  <1>11. ASSUME NEW p \in 1..m+1
         PROVE  \E i \in 0..2*n_buckets-1 : \E j \in 1..Len(d[i]) : d[i][j] = nodes[p]
    <2>1. CASE p = m + 1
      <3>1. e \in 1..Len(d[a]) /\ d[a][e] = x
        BY <1>4, <1>5, <1>7
      <3>2. QED
        BY <1>1, <2>1, <3>1 DEF x
    <2>2. CASE p # m + 1
      <3>1. p \in 1..m
        BY <2>2
      <3>2. PICK i \in 0..2*n_buckets-1 : \E j \in 1..Len(c[i]) : c[i][j] = nodes[p]
        BY <3>1 DEF Refills
      <3>3. QED
        BY <1>9, <3>2
    <2>3. QED
      BY <2>1, <2>2
  <1>12. ASSUME \A p, q \in 1..Len(nodes) : Tag[nodes[p]] = Tag[nodes[q]] => p = q
         PROVE  Distinct(d, Tag)
    <2>1. Distinct(c, Tag)
      BY <1>12 DEF Refills
    <2>2. ASSUME NEW i \in 0..2*n_buckets-1, NEW j \in 1..Len(c[i])
          PROVE  Tag[c[i][j]] # Tag[x]
      <3>1. PICK p \in 1..m : c[i][j] = nodes[p]
        BY DEF Refills
      <3>2. p \in 1..Len(nodes) /\ p # m + 1 /\ m + 1 \in 1..Len(nodes)
        OBVIOUS
      <3>3. Tag[nodes[p]] # Tag[nodes[m+1]]
        BY <1>12, <3>2
      <3>4. QED
        BY <3>1, <3>3 DEF x
    <2>3. ASSUME NEW i \in 0..2*n_buckets-1, NEW j \in 1..Len(d[i]),
                 NEW k \in 0..2*n_buckets-1, NEW l \in 1..Len(d[k]),
                 Tag[d[i][j]] = Tag[d[k][l]]
          PROVE  i = k /\ j = l
      <3>1. CASE /\ j \in 1..Len(c[i]) /\ d[i][j] = c[i][j]
                 /\ l \in 1..Len(c[k]) /\ d[k][l] = c[k][l]
        <4>1. /\ i \in DOMAIN c /\ k \in DOMAIN c /\ j \in 1..Len(c[i]) /\ l \in 1..Len(c[k])
          BY <1>3, <3>1
        <4>2. Tag[c[i][j]] = Tag[c[k][l]]
          BY <2>3, <3>1
        <4>3. QED
          BY <2>1, <4>1, <4>2 DEF Distinct
      <3>2. CASE j \in 1..Len(c[i]) /\ d[i][j] = c[i][j] /\ d[k][l] = x
        BY <2>2, <2>3, <3>2
      <3>3. CASE l \in 1..Len(c[k]) /\ d[k][l] = c[k][l] /\ d[i][j] = x
        BY <2>2, <2>3, <3>3
      <3>4. CASE i = a /\ j = e /\ k = a /\ l = e
        BY <3>4
      <3>5. QED
        BY <1>8, <3>1, <3>2, <3>3, <3>4
    <2>4. DOMAIN d = 0..2*n_buckets-1
      BY <1>6
    <2>5. QED
      BY <2>3, <2>4 DEF Distinct
  <1>13. Refills(d, nodes, m + 1, Tag)
    BY <1>6, <1>10, <1>11, <1>12 DEF Refills
  <1>14. QED
    BY <1>13 DEF d, a, x

\* The array that replaces the old one
LEMMA RefilledHolds ==
  ASSUME n_buckets \in Nat \ {0}, NEW nodes \in Seq(Node), NEW Tag
  PROVE  Refills(Refilled(nodes), nodes, Len(nodes), Tag)
  <1> DEFINE F == Filled(nodes)
             Empty == [i \in 0..2*n_buckets-1 |-> << >>]
             S == { m \in Nat : m \in 0..Len(nodes) => Refills(F[m], nodes, m, Tag) }
  <1>1. /\ F[0] = Empty
        /\ \A j \in 1..Len(nodes) :
             F[j] = [F[j-1] EXCEPT ![NewIndex(Hash[nodes[j].key])] = Append(@, nodes[j])]
    <2>1. F = [j \in 0..Len(nodes) |->
                 IF j = 0 THEN Empty
                 ELSE [F[j-1] EXCEPT ![NewIndex(Hash[nodes[j].key])] = Append(@, nodes[j])]]
      BY FilledExists
    <2> HIDE DEF F
    <2>2. 0 \in 0..Len(nodes) /\ \A j \in 1..Len(nodes) : j \in 0..Len(nodes) /\ j # 0
      OBVIOUS
    <2>3. QED
      BY <2>1, <2>2
  <1>2. Refilled(nodes) = F[Len(nodes)]
    BY DEF Refilled, Filled
  <1> HIDE DEF F
  <1>3. 0 \in S
    <2>1. Empty \in [0..2*n_buckets-1 -> Seq(Node)] /\ \A i \in 0..2*n_buckets-1 : Empty[i] = << >>
      OBVIOUS
    <2> HIDE DEF Empty
    <2>2. Refills(Empty, nodes, 0, Tag)
      BY <2>1 DEF Refills, Distinct
    <2>3. QED
      BY <1>1, <2>2
  <1>4. ASSUME NEW m \in S PROVE m + 1 \in S
    <2> SUFFICES ASSUME m + 1 \in 0..Len(nodes)
                 PROVE  Refills(F[m+1], nodes, m + 1, Tag)
      OBVIOUS
    <2>1. Refills(F[m], nodes, m, Tag) /\ m + 1 \in 1..Len(nodes) /\ (m + 1) - 1 = m
      OBVIOUS
    <2>2. F[m+1] = [F[m] EXCEPT ![NewIndex(Hash[nodes[m+1].key])] = Append(@, nodes[m+1])]
      BY <1>1, <2>1
    <2>3. QED
      BY <2>1, <2>2, RefillsMore
  <1>5. S = Nat
    <2> HIDE DEF S
    <2>1. S \subseteq Nat
      BY DEF S
    <2>2. QED
      BY <1>3, <1>4, <2>1, SetInduction
  <1>6. Len(nodes) \in 0..Len(nodes)
    OBVIOUS
  <1>7. QED
    BY <1>2, <1>5, <1>6

-----------------------------------------------------------------------------
(* Hash values in an int                                                   *)

\* Numbers that differ by a multiple of m have the same remainder.
LEMMA SameRemainder ==
  ASSUME NEW m \in Nat \ {0}, NEW a \in Int, NEW k \in Int
  PROVE  (a + k * m) % m = a % m
  <1> DEFINE q == a \div m
             r == a % m
             b == a + k * m
             p == b \div m
             s == b % m
             e == q + k - p
  <1>1. q \in Int /\ r \in Int /\ a = q * m + r /\ 0 <= r /\ r < m
    OBVIOUS
  <1>2. p \in Int /\ s \in Int /\ b = p * m + s /\ 0 <= s /\ s < m
    <2>1. b \in Int
      OBVIOUS
    <2> HIDE DEF b
    <2>2. QED
      BY <2>1
  <1>3. b = a + k * m
    OBVIOUS
  <1> HIDE DEF q, r, b, p, s
  <1>4. s - r = e * m
    BY <1>1, <1>2, <1>3
  <1>5. e \in Int /\ e * m < m /\ -m < e * m
    BY <1>1, <1>2, <1>4
  <1> HIDE DEF e
  <1>6. e = 0
    BY <1>5
  <1>7. QED
    <2>1. s = r
      BY <1>1, <1>2, <1>4, <1>6
    <2>2. QED
      BY <2>1 DEF r, s, b

LEMMA MultipleOf ==
  ASSUME NEW m \in Nat \ {0}, NEW a \in Int, a % m = 0
  PROVE  \E k \in Int : a = k * m
  <1> DEFINE k == a \div m
  <1>1. k \in Int /\ a = (k * m) + (a % m)
    OBVIOUS
  <1>2. QED
    BY <1>1

\* The number of buckets divides the number of values of an int: so it is up to 2^IntBits
\* buckets, if the capacities are powers of two.
TableIsNarrow == 2^IntBits % n_buckets = 0

\* An int keeps what a narrow table needs of a hash value.
LEMMA IntIsEnough ==
  ASSUME NEW m \in Nat \ {0}, 2^IntBits % m = 0, NEW h \in Nat
  PROVE  ThroughInt(h) % m = h % m
  <1> DEFINE I == 2^IntBits
             S == 2^SizeBits
             low == h % I
  <1>1. I \in Nat \ {0} /\ I \in Int /\ S \in Int /\ S % I = 0
    <2>1. IntBits \in 0..IntBits
      BY HashMapAssumption
    <2>2. 2^IntBits > 0 /\ 2^IntBits \in Int /\ 2^SizeBits \in Int
      BY <2>1, HashMapAssumption, PowersAssumption
    <2>3. QED
      BY <2>2, PowersAssumption
  <1>2. I % m = 0
    OBVIOUS
  <1>3. ThroughInt(h) \in {low, low - I + S}
    BY DEF ThroughInt
  <1> HIDE DEF I, S
  <1>4. PICK a \in Int : I = a * m
    BY <1>1, <1>2, MultipleOf
  <1>5. PICK b \in Int : S = b * I
    BY <1>1, MultipleOf
  <1>6. PICK c \in Int : h = c * I + low /\ low \in Int
    <2> DEFINE c == h \div I
    <2>1. c \in Int /\ h = (c * I) + (h % I) /\ (h % I) \in Int
      BY <1>1
    <2>2. QED
      BY <2>1
  <1> HIDE DEF low
  <1>7. low % m = h % m
    <2>1. h = low + (c * a) * m
      BY <1>4, <1>6
    <2>2. c * a \in Int
      OBVIOUS
    <2>3. QED
      BY <1>6, <2>1, <2>2, SameRemainder
  <1>8. (low - I + S) % m = low % m
    <2>1. low - I + S = low + (b * a - a) * m
      <3>1. S = (b * a) * m
        BY <1>4, <1>5
      <3>2. b * a \in Int
        OBVIOUS
      <3>3. QED
        BY <1>4, <1>6, <3>1, <3>2
    <2>2. b * a - a \in Int
      OBVIOUS
    <2>3. QED
      BY <1>6, <2>1, <2>2, SameRemainder
  <1>9. QED
    BY <1>3, <1>7, <1>8

\* A table is narrow if one of twice the size would be.
LEMMA HalfDivides ==
  ASSUME NEW m \in Nat \ {0}, NEW a \in Int, a % (2 * m) = 0
  PROVE  a % m = 0
  <1>1. PICK k \in Int : a = k * (2 * m)
    <2>1. 2 * m \in Nat \ {0}
      OBVIOUS
    <2>2. QED
      BY <2>1, MultipleOf
  <1>2. a = 0 + (2 * k) * m /\ 2 * k \in Int
    BY <1>1
  <1>3. a % m = 0 % m
    BY <1>2, SameRemainder
  <1>4. QED
    BY <1>3

-----------------------------------------------------------------------------
(* What the operations do to the chains                                    *)

\* What is in a chain is in one of its slots.
LEMMA InChain ==
  ASSUME NEW s \in Seq(Node), NEW x \in ToSet(s)
  PROVE  \E j \in 1..Len(s) : x = s[j]
  <1>1. DOMAIN s = 1..Len(s)
    OBVIOUS
  <1>2. QED
    BY <1>1 DEF ToSet

\* The nodes of an array of chains are what is in its slots.
LEMMA NodesInSlots ==
  ASSUME NEW N \in Nat, NEW c \in [0..N-1 -> Seq(Node)]
  PROVE  /\ \A x : x \in NodesOf(c) <=>
                     \E i \in 0..N-1 : \E j \in 1..Len(c[i]) : x = c[i][j]
         /\ NodesOf(c) \subseteq Node
  <1>1. \A i \in 0..N-1 : c[i] \in Seq(Node) /\ DOMAIN c[i] = 1..Len(c[i])
    OBVIOUS
  <1>2. DOMAIN c = 0..N-1
    OBVIOUS
  <1>3. \A x : x \in NodesOf(c) <=> \E i \in 0..N-1 : \E j \in 1..Len(c[i]) : x = c[i][j]
    BY <1>1, <1>2 DEF NodesOf, ToSet
  <1>4. \A i \in 0..N-1 : \A j \in 1..Len(c[i]) : c[i][j] \in Node
    BY <1>1
  <1>5. NodesOf(c) \subseteq Node
    BY <1>3, <1>4
  <1>6. QED
    BY <1>3, <1>5

\* Tag tells what is in two different slots apart.
Apart(c, N, Tag) ==
  \A i, k \in 0..N-1 : \A j \in 1..Len(c[i]), l \in 1..Len(c[k]) :
    Tag[c[i][j]] = Tag[c[k][l]] => i = k /\ j = l

LEMMA SlotsApart ==
  ASSUME NEW N \in Nat, NEW c \in [0..N-1 -> Seq(Node)], NEW Tag, Distinct(c, Tag)
  PROVE  Apart(c, N, Tag)
  <1>1. DOMAIN c = 0..N-1
    OBVIOUS
  <1>2. QED
    BY <1>1 DEF Distinct, Apart

\* d is c with the node y in the slot i, p.
Swapped(d, c, N, i, p, y) ==
  /\ N \in Nat /\ c \in [0..N-1 -> Seq(Node)] /\ d \in [0..N-1 -> Seq(Node)]
  /\ i \in 0..N-1 /\ p \in 1..Len(c[i]) /\ y \in Node
  /\ \A k \in 0..N-1 : Len(d[k]) = Len(c[k])
  /\ d[i][p] = y
  /\ \A k \in 0..N-1 : \A l \in 1..Len(c[k]) : k # i \/ l # p => d[k][l] = c[k][l]

LEMMA ExceptSwaps ==
  ASSUME NEW N \in Nat, NEW c \in [0..N-1 -> Seq(Node)],
         NEW i \in 0..N-1, NEW p \in 1..Len(c[i]), NEW y \in Node
  PROVE  Swapped([c EXCEPT ![i][p] = y], c, N, i, p, y)
  <1> DEFINE d == [c EXCEPT ![i][p] = y]
  <1>1. c[i] \in Seq(Node)
    OBVIOUS
  <1>2. d = [c EXCEPT ![i] = [c[i] EXCEPT ![p] = y]]
    OBVIOUS
  <1>3. [c[i] EXCEPT ![p] = y] \in Seq(Node) /\ Len([c[i] EXCEPT ![p] = y]) = Len(c[i])
    BY <1>1, ExceptSeq
  <1>4. d \in [0..N-1 -> Seq(Node)]
    BY <1>2, <1>3
  <1>5. \A k \in 0..N-1 : Len(d[k]) = Len(c[k])
    BY <1>2, <1>3
  <1>6. d[i][p] = y /\ \A k \in 0..N-1 : \A l \in 1..Len(c[k]) : k # i \/ l # p => d[k][l] = c[k][l]
    BY <1>1, <1>2
  <1>7. QED
    BY <1>4, <1>5, <1>6 DEF Swapped

\* A node takes the place of another.
LEMMA SwapNodes ==
  ASSUME NEW N, NEW c, NEW d, NEW i, NEW p, NEW y, Swapped(d, c, N, i, p, y), Distinct(c, By)
  PROVE  NodesOf(d) = (NodesOf(c) \ {c[i][p]}) \cup {y}
  <1>0. /\ N \in Nat /\ c \in [0..N-1 -> Seq(Node)] /\ d \in [0..N-1 -> Seq(Node)]
        /\ i \in 0..N-1 /\ p \in 1..Len(c[i]) /\ y \in Node
    BY DEF Swapped
  <1> USE <1>0
  <1>5. \A k \in 0..N-1 : Len(d[k]) = Len(c[k])
    BY DEF Swapped
  <1>6. d[i][p] = y /\ \A k \in 0..N-1 : \A l \in 1..Len(c[k]) : k # i \/ l # p => d[k][l] = c[k][l]
    BY DEF Swapped
  <1>a. \A x : x \in NodesOf(c) <=>
                \E k \in 0..N-1 : \E l \in 1..Len(c[k]) : x = c[k][l]
    BY NodesInSlots
  <1>b. \A x : x \in NodesOf(d) <=>
                \E k \in 0..N-1 : \E l \in 1..Len(d[k]) : x = d[k][l]
    BY NodesInSlots
  <1>7. DOMAIN c = 0..N-1 /\ DOMAIN d = 0..N-1
    OBVIOUS
  <1>8. ASSUME NEW k \in 0..N-1, NEW l \in 1..Len(c[k]), k # i \/ l # p
        PROVE  c[k][l] # c[i][p]
    <2>1. By[c[k][l]] # By[c[i][p]]
      BY <1>8, <1>7 DEF Distinct
    <2>2. QED
      BY <2>1
  <1>9. NodesOf(d) = (NodesOf(c) \ {c[i][p]}) \cup {y}
    <2>1. ASSUME NEW x \in NodesOf(d) PROVE x \in (NodesOf(c) \ {c[i][p]}) \cup {y}
      <3>1. PICK k \in 0..N-1 : \E l \in 1..Len(d[k]) : x = d[k][l]
        BY <1>b
      <3>2. PICK l \in 1..Len(c[k]) : x = d[k][l]
        BY <1>5, <3>1
      <3>3. CASE k = i /\ l = p
        BY <1>6, <3>2, <3>3
      <3>4. CASE k # i \/ l # p
        <4>1. x = c[k][l] /\ x # c[i][p]
          BY <1>6, <1>8, <3>2, <3>4
        <4>2. x \in NodesOf(c)
          BY <4>1, <1>a, <3>2
        <4>3. QED
          BY <4>1, <4>2
      <3>5. QED
        BY <3>3, <3>4
    <2>2. ASSUME NEW x \in NodesOf(c), x # c[i][p] PROVE x \in NodesOf(d)
      <3>1. PICK k \in 0..N-1 : \E l \in 1..Len(c[k]) : x = c[k][l]
        BY <1>a
      <3>2. PICK l \in 1..Len(c[k]) : x = c[k][l]
        BY <3>1
      <3>3. l \in 1..Len(d[k]) /\ x = d[k][l]
        BY <1>5, <1>6, <2>2, <3>2
      <3>4. QED
        BY <3>3, <1>b
    <2>3. y \in NodesOf(d)
      <3>1. p \in 1..Len(d[i]) /\ y = d[i][p]
        BY <1>5, <1>6
      <3>2. QED
        BY <3>1, <1>b
    <2>4. QED
      BY <2>1, <2>2, <2>3
  <1>11. QED
    BY <1>9

LEMMA SwapDistinct ==
  ASSUME NEW N, NEW c, NEW d, NEW i, NEW p, NEW y, Swapped(d, c, N, i, p, y),
         NEW Tag, Distinct(c, Tag), \A x \in NodesOf(c) : Tag[x] = Tag[y] => x = c[i][p]
  PROVE  Distinct(d, Tag)
  <1>0. /\ N \in Nat /\ c \in [0..N-1 -> Seq(Node)] /\ d \in [0..N-1 -> Seq(Node)]
        /\ i \in 0..N-1 /\ p \in 1..Len(c[i]) /\ y \in Node
    BY DEF Swapped
  <1> USE <1>0
  <1>5. \A k \in 0..N-1 : Len(d[k]) = Len(c[k])
    BY DEF Swapped
  <1>6. d[i][p] = y /\ \A k \in 0..N-1 : \A l \in 1..Len(c[k]) : k # i \/ l # p => d[k][l] = c[k][l]
    BY DEF Swapped
  <1>a. \A x : x \in NodesOf(c) <=>
                \E k \in 0..N-1 : \E l \in 1..Len(c[k]) : x = c[k][l]
    BY NodesInSlots
  <1>7. DOMAIN c = 0..N-1 /\ DOMAIN d = 0..N-1
    OBVIOUS
  <1>8. Apart(c, N, Tag)
    BY SlotsApart
  <1>11. ASSUME NEW k \in 0..N-1, NEW l \in 1..Len(c[k]), Tag[c[k][l]] = Tag[y]
        PROVE  k = i /\ l = p
    <2>1. c[k][l] \in NodesOf(c)
      BY <1>a
    <2>2. c[k][l] = c[i][p]
      BY <1>11, <2>1
    <2>3. Tag[c[k][l]] = Tag[c[i][p]]
      BY <2>2
    <2>4. QED
      BY <1>8, <2>3 DEF Apart
  <1>12. SUFFICES ASSUME NEW k \in 0..N-1, NEW g \in 0..N-1,
                        NEW l \in 1..Len(d[k]), NEW h \in 1..Len(d[g]),
                        Tag[d[k][l]] = Tag[d[g][h]]
                 PROVE  k = g /\ l = h
    BY <1>7 DEF Distinct
  <1>13. l \in 1..Len(c[k]) /\ h \in 1..Len(c[g])
    BY <1>5
  <1>14. CASE (k # i \/ l # p) /\ (g # i \/ h # p)
    <2>1. Tag[c[k][l]] = Tag[c[g][h]]
      BY <1>6, <1>12, <1>13, <1>14
    <2>2. QED
      BY <1>8, <1>13, <2>1 DEF Apart
  <1>15. CASE k = i /\ l = p /\ (g # i \/ h # p)
    BY <1>6, <1>11, <1>12, <1>13, <1>15
  <1>16. CASE g = i /\ h = p /\ (k # i \/ l # p)
    BY <1>6, <1>11, <1>12, <1>13, <1>16
  <1>17. QED
    BY <1>14, <1>15, <1>16

\* d is c with the node y at the end of the chain i.
Extended(d, c, N, i, y) ==
  /\ N \in Nat /\ c \in [0..N-1 -> Seq(Node)] /\ d \in [0..N-1 -> Seq(Node)]
  /\ i \in 0..N-1 /\ y \in Node
  /\ \A k \in 0..N-1 : Len(d[k]) = IF k = i THEN Len(c[i]) + 1 ELSE Len(c[k])
  /\ d[i][Len(c[i]) + 1] = y
  /\ \A k \in 0..N-1 : \A l \in 1..Len(c[k]) : d[k][l] = c[k][l]

LEMMA AppendExtends ==
  ASSUME NEW N \in Nat, NEW c \in [0..N-1 -> Seq(Node)], NEW i \in 0..N-1, NEW y \in Node
  PROVE  Extended([c EXCEPT ![i] = Append(@, y)], c, N, i, y)
  <1> DEFINE d == [c EXCEPT ![i] = Append(@, y)]
             s == Append(c[i], y)
  <1>1. c[i] \in Seq(Node)
    OBVIOUS
  <1>2. /\ s \in Seq(Node) /\ Len(s) = Len(c[i]) + 1 /\ s[Len(c[i]) + 1] = y
        /\ \A l \in 1..Len(c[i]) : s[l] = c[i][l]
    BY <1>1
  <1>3. d[i] = s /\ \A k \in 0..N-1 : k # i => d[k] = c[k]
    OBVIOUS
  <1>4. d \in [0..N-1 -> Seq(Node)]
    BY <1>2
  <1> HIDE DEF d, s
  <1>5. \A k \in 0..N-1 : Len(d[k]) = IF k = i THEN Len(c[i]) + 1 ELSE Len(c[k])
    BY <1>2, <1>3
  <1>6. \A k \in 0..N-1 : \A l \in 1..Len(c[k]) : d[k][l] = c[k][l]
    BY <1>2, <1>3
  <1>7. d[i][Len(c[i]) + 1] = y
    BY <1>2, <1>3
  <1>8. Extended(d, c, N, i, y)
    BY <1>4, <1>5, <1>6, <1>7 DEF Extended
  <1>9. QED
    BY <1>8 DEF d

LEMMA ExtendFacts ==
  ASSUME NEW N, NEW c, NEW d, NEW i, NEW y, Extended(d, c, N, i, y)
  PROVE  /\ NodesOf(d) = NodesOf(c) \cup {y}
         /\ \A Tag : Distinct(c, Tag) /\ (\A x \in NodesOf(c) : Tag[x] # Tag[y])
                     => Distinct(d, Tag)
  <1>0. /\ N \in Nat /\ c \in [0..N-1 -> Seq(Node)] /\ d \in [0..N-1 -> Seq(Node)]
        /\ i \in 0..N-1 /\ y \in Node
    BY DEF Extended
  <1> USE <1>0
  <1> DEFINE e == Len(c[i]) + 1
  <1>1. c[i] \in Seq(Node) /\ Len(c[i]) \in Nat /\ e \in Nat
    OBVIOUS
  <1>2. /\ Len(d[i]) = e /\ d[i][e] = y
        /\ \A k \in 0..N-1 : k # i => Len(d[k]) = Len(c[k])
    BY DEF Extended
  <1>3. \A k \in 0..N-1 : \A l \in 1..Len(c[k]) : d[k][l] = c[k][l]
    BY DEF Extended
  <1>4. \A x : x \in NodesOf(c) <=>
                \E k \in 0..N-1 : \E l \in 1..Len(c[k]) : x = c[k][l]
    BY NodesInSlots
  <1>5. \A x : x \in NodesOf(d) <=>
                \E k \in 0..N-1 : \E l \in 1..Len(d[k]) : x = d[k][l]
    BY NodesInSlots
  <1>6. DOMAIN c = 0..N-1 /\ DOMAIN d = 0..N-1
    OBVIOUS
  <1>7. ASSUME NEW k \in 0..N-1, NEW l \in 1..Len(d[k])
        PROVE  l \in 1..Len(c[k]) \/ (k = i /\ l = e)
    <2>1. CASE k # i
      BY <1>2, <2>1
    <2>2. CASE k = i
      <3>1. l \in 1..e
        BY <1>2, <2>2
      <3>2. l = e \/ l \in 1..Len(c[i])
        BY <1>1, <3>1
      <3>3. QED
        BY <2>2, <3>2
    <2>3. QED
      BY <2>1, <2>2
  <1>8. ASSUME NEW k \in 0..N-1, NEW l \in 1..Len(c[k])
        PROVE  l \in 1..Len(d[k])
    <2>1. CASE k # i
      BY <1>2, <2>1
    <2>2. CASE k = i
      <3>1. l \in 1..e
        BY <1>1, <2>2
      <3>2. QED
        BY <1>2, <2>2, <3>1
    <2>3. QED
      BY <2>1, <2>2
  <1> HIDE DEF e
  <1>9. NodesOf(d) = NodesOf(c) \cup {y}
    <2>1. ASSUME NEW x \in NodesOf(d) PROVE x \in NodesOf(c) \cup {y}
      <3>1. PICK k \in 0..N-1 : \E l \in 1..Len(d[k]) : x = d[k][l]
        BY <1>5
      <3>2. PICK l \in 1..Len(d[k]) : x = d[k][l]
        BY <3>1
      <3>3. CASE l \in 1..Len(c[k])
        BY <1>3, <1>4, <3>2, <3>3
      <3>4. CASE k = i /\ l = e
        BY <1>2, <3>2, <3>4
      <3>5. QED
        BY <1>7, <3>3, <3>4
    <2>2. ASSUME NEW x \in NodesOf(c) PROVE x \in NodesOf(d)
      <3>1. PICK k \in 0..N-1 : \E l \in 1..Len(c[k]) : x = c[k][l]
        BY <1>4
      <3>2. PICK l \in 1..Len(c[k]) : x = c[k][l]
        BY <3>1
      <3>3. l \in 1..Len(d[k]) /\ x = d[k][l]
        BY <1>3, <1>8, <3>2
      <3>4. QED
        BY <3>3, <1>5
    <2>3. y \in NodesOf(d)
      <3>1. e \in 1..e
        BY <1>1 DEF e
      <3>2. e \in 1..Len(d[i]) /\ y = d[i][e]
        BY <1>2, <3>1
      <3>3. QED
        BY <3>2, <1>5
    <2>4. QED
      BY <2>1, <2>2, <2>3
  <1>10. ASSUME NEW Tag, Distinct(c, Tag), \A x \in NodesOf(c) : Tag[x] # Tag[y]
         PROVE  Distinct(d, Tag)
    <2>1. Distinct(c, Tag)
      BY <1>10
    <2>2. ASSUME NEW k \in 0..N-1, NEW l \in 1..Len(c[k])
          PROVE  Tag[c[k][l]] # Tag[y]
      <3>1. c[k][l] \in NodesOf(c)
        BY <1>4
      <3>2. QED
        BY <1>10, <3>1
    <2>3. SUFFICES ASSUME NEW k \in 0..N-1, NEW g \in 0..N-1,
                          NEW l \in 1..Len(d[k]), NEW h \in 1..Len(d[g]),
                          Tag[d[k][l]] = Tag[d[g][h]]
                   PROVE  k = g /\ l = h
      BY <1>6 DEF Distinct
    <2>4. CASE l \in 1..Len(c[k]) /\ h \in 1..Len(c[g])
      <3>1. Tag[c[k][l]] = Tag[c[g][h]]
        BY <1>3, <2>3, <2>4
      <3>2. QED
        BY <1>6, <2>1, <2>4, <3>1 DEF Distinct
    <2>5. CASE k = i /\ l = e /\ h \in 1..Len(c[g])
      BY <1>2, <1>3, <2>2, <2>3, <2>5
    <2>6. CASE g = i /\ h = e /\ l \in 1..Len(c[k])
      BY <1>2, <1>3, <2>2, <2>3, <2>6
    <2>7. QED
      BY <1>7, <2>4, <2>5, <2>6
  <1>11. QED
    BY <1>9, <1>10

\* d is c without the slot i, p.
Shortened(d, c, N, i, p) ==
  /\ N \in Nat /\ c \in [0..N-1 -> Seq(Node)] /\ d \in [0..N-1 -> Seq(Node)]
  /\ i \in 0..N-1 /\ p \in 1..Len(c[i])
  /\ Len(d[i]) = Len(c[i]) - 1
  /\ \A k \in 0..N-1 : k # i => d[k] = c[k]
  /\ \A l \in 1..Len(c[i])-1 : d[i][l] = IF l < p THEN c[i][l] ELSE c[i][l+1]

LEMMA RemoveShortens ==
  ASSUME NEW N \in Nat, NEW c \in [0..N-1 -> Seq(Node)], NEW i \in 0..N-1, NEW p \in 1..Len(c[i])
  PROVE  Shortened([c EXCEPT ![i] = RemoveAt(@, p)], c, N, i, p)
  <1> DEFINE d == [c EXCEPT ![i] = RemoveAt(@, p)]
             s == c[i]
             a == SubSeq(s, 1, p-1)
             b == SubSeq(s, p+1, Len(s))
             r == a \o b
  <1>1. s \in Seq(Node) /\ Len(s) \in Nat /\ p \in 1..Len(s)
    OBVIOUS
  <1>2. RemoveAt(s, p) = r
    BY DEF RemoveAt
  <1> HIDE DEF s
  <1>3. /\ a \in Seq(Node) /\ Len(a) = p - 1
        /\ \A l \in 1..p-1 : a[l] = s[l]
    BY <1>1
  <1>4. /\ b \in Seq(Node) /\ Len(b) = Len(s) - p
        /\ \A l \in 1..Len(s)-p : b[l] = s[p + l]
    BY <1>1
  <1> HIDE DEF a, b
  <1>5. /\ r \in Seq(Node) /\ Len(r) = Len(s) - 1
        /\ \A l \in 1..p-1 : r[l] = a[l]
        /\ \A l \in 1..Len(s)-p : r[(p - 1) + l] = b[l]
    <2>1. a \in Seq(Node) /\ b \in Seq(Node)
      BY <1>3, <1>4
    <2>2. /\ r \in Seq(Node) /\ Len(r) = Len(a) + Len(b)
          /\ \A l \in 1..Len(a) : r[l] = a[l]
          /\ \A l \in 1..Len(b) : r[Len(a) + l] = b[l]
      BY <2>1
    <2> HIDE DEF r
    <2>3. QED
      BY <1>1, <1>3, <1>4, <2>2
  <1> HIDE DEF r
  <1>6. ASSUME NEW l \in 1..Len(s)-1
        PROVE  r[l] = IF l < p THEN s[l] ELSE s[l+1]
    <2>1. CASE l < p
      <3>1. l \in 1..p-1
        BY <1>1, <2>1
      <3>2. QED
        BY <1>3, <1>5, <2>1, <3>1
    <2>2. CASE ~(l < p)
      <3>1. l - (p - 1) \in 1..Len(s)-p /\ (p - 1) + (l - (p - 1)) = l
            /\ p + (l - (p - 1)) = l + 1
        BY <1>1, <2>2
      <3>2. r[(p - 1) + (l - (p - 1))] = b[l - (p - 1)]
        BY <1>5, <3>1
      <3>3. b[l - (p - 1)] = s[p + (l - (p - 1))]
        BY <1>4, <3>1
      <3>4. QED
        BY <2>2, <3>1, <3>2, <3>3
    <2>3. QED
      BY <2>1, <2>2
  <1>7. d[i] = r /\ \A k \in 0..N-1 : k # i => d[k] = c[k]
    BY <1>2 DEF s
  <1>8. d \in [0..N-1 -> Seq(Node)]
    BY <1>2, <1>5 DEF s
  <1> HIDE DEF d
  <1>9. Shortened(d, c, N, i, p)
    BY <1>5, <1>6, <1>7, <1>8 DEF Shortened, s
  <1>10. QED
    BY <1>9 DEF d

LEMMA ShortenFacts ==
  ASSUME NEW N, NEW c, NEW d, NEW i, NEW p, Shortened(d, c, N, i, p), NEW Tag, Distinct(c, Tag)
  PROVE  /\ Distinct(d, Tag)
         /\ NodesOf(d) = NodesOf(c) \ {c[i][p]}
  <1>0. /\ N \in Nat /\ c \in [0..N-1 -> Seq(Node)] /\ d \in [0..N-1 -> Seq(Node)]
        /\ i \in 0..N-1 /\ p \in 1..Len(c[i])
    BY DEF Shortened
  <1> DEFINE From(k, l) == IF k = i /\ l >= p THEN l + 1 ELSE l
  <1>1. Len(c[i]) \in Nat /\ p \in 1..Len(c[i]) /\ i \in 0..N-1 /\ N \in Nat
    BY <1>0
  <1>2. /\ Len(d[i]) = Len(c[i]) - 1
        /\ \A k \in 0..N-1 : k # i => d[k] = c[k]
        /\ \A l \in 1..Len(c[i])-1 : d[i][l] = IF l < p THEN c[i][l] ELSE c[i][l+1]
    BY DEF Shortened
  <1>3. ASSUME NEW k \in 0..N-1, NEW l \in 1..Len(d[k])
        PROVE  From(k, l) \in 1..Len(c[k]) /\ d[k][l] = c[k][From(k, l)]
               /\ (k = i => From(k, l) # p)
    <2>1. CASE k # i
      BY <1>2, <2>1
    <2>2. CASE k = i
      <3>1. l \in 1..Len(c[i])-1
        BY <1>2, <2>2
      <3>2. CASE l < p
        BY <1>1, <1>2, <2>2, <3>1, <3>2
      <3>3. CASE l >= p
        BY <1>1, <1>2, <2>2, <3>1, <3>3
      <3>4. QED
        BY <1>1, <3>1, <3>2, <3>3
    <2>3. QED
      BY <2>1, <2>2
  <1>4. ASSUME NEW k \in 0..N-1, NEW l \in 1..Len(d[k]), NEW h \in 1..Len(d[k]),
               From(k, l) = From(k, h)
        PROVE  l = h
    <2> DEFINE here == k = i
    <2>1. l \in Nat /\ h \in Nat /\ p \in Nat
      <3>1. d[k] \in Seq(Node)
        BY <1>0
      <3>2. QED
        BY <1>1, <3>1
    <2>2. (IF here /\ l >= p THEN l + 1 ELSE l) = (IF here /\ h >= p THEN h + 1 ELSE h)
      BY <1>4
    <2> HIDE DEF here, From
    <2>3. QED
      BY <2>1, <2>2
  <1>5. ASSUME NEW k \in 0..N-1, NEW l \in 1..Len(c[k]), k # i \/ l # p
        PROVE  \E h \in 1..Len(d[k]) : d[k][h] = c[k][l]
    <2>1. CASE k # i
      BY <1>2, <2>1
    <2>2. CASE k = i /\ l < p
      <3>1. l \in 1..Len(c[i])-1
        BY <1>1, <2>2
      <3>2. QED
        BY <1>2, <2>2, <3>1
    <2>3. CASE k = i /\ l > p
      <3>1. l - 1 \in 1..Len(c[i])-1 /\ ~(l - 1 < p) /\ (l - 1) + 1 = l
        BY <1>1, <2>3
      <3>2. d[i][l-1] = c[i][l]
        BY <1>2, <3>1
      <3>3. QED
        BY <1>2, <2>3, <3>1, <3>2
    <2>4. QED
      BY <1>1, <1>5, <2>1, <2>2, <2>3
  <1> HIDE DEF From
  <1>6. Apart(c, N, Tag)
    BY <1>0, SlotsApart
  <1>7. DOMAIN d = 0..N-1
    BY <1>0
  <1>8. ASSUME NEW k \in 0..N-1, NEW g \in 0..N-1, NEW l \in 1..Len(d[k]), NEW h \in 1..Len(d[g]),
               Tag[d[k][l]] = Tag[d[g][h]]
        PROVE  k = g /\ l = h
    <2>1. /\ From(k, l) \in 1..Len(c[k]) /\ From(g, h) \in 1..Len(c[g])
          /\ Tag[c[k][From(k, l)]] = Tag[c[g][From(g, h)]]
      BY <1>3, <1>8
    <2>2. k = g /\ From(k, l) = From(g, h)
      <3> DEFINE f == From(k, l)
                 e == From(g, h)
      <3>1. f \in 1..Len(c[k]) /\ e \in 1..Len(c[g]) /\ Tag[c[k][f]] = Tag[c[g][e]]
        BY <2>1
      <3> HIDE DEF f, e
      <3>2. k = g /\ f = e
        BY <1>6, <3>1 DEF Apart
      <3>3. QED
        BY <3>2 DEF f, e
    <2>3. QED
      BY <1>4, <2>2
  <1>9. Distinct(d, Tag)
    BY <1>7, <1>8 DEF Distinct
  <1>10. \A x : x \in NodesOf(c) <=>
                \E k \in 0..N-1 : \E l \in 1..Len(c[k]) : x = c[k][l]
    BY <1>0, NodesInSlots
  <1>11. \A x : x \in NodesOf(d) <=>
                \E k \in 0..N-1 : \E l \in 1..Len(d[k]) : x = d[k][l]
    BY <1>0, NodesInSlots
  <1>12. ASSUME NEW x \in NodesOf(d) PROVE x \in NodesOf(c) \ {c[i][p]}
    <2>1. PICK k \in 0..N-1 : \E l \in 1..Len(d[k]) : x = d[k][l]
      BY <1>11
    <2>2. PICK l \in 1..Len(d[k]) : x = d[k][l]
      BY <2>1
    <2>3. From(k, l) \in 1..Len(c[k]) /\ x = c[k][From(k, l)] /\ (k = i => From(k, l) # p)
      BY <1>3, <2>2
    <2>4. x \in NodesOf(c)
      BY <1>10, <2>3
    <2>5. x # c[i][p]
      <3> DEFINE f == From(k, l)
      <3>1. f \in 1..Len(c[k]) /\ (k = i => f # p) /\ x = c[k][f]
        BY <2>3
      <3> HIDE DEF f
      <3>2. Tag[c[k][f]] # Tag[c[i][p]]
        BY <1>1, <1>6, <3>1 DEF Apart
      <3>3. QED
        BY <3>1, <3>2
    <2>6. QED
      BY <2>4, <2>5
  <1>13. ASSUME NEW x \in NodesOf(c), x # c[i][p] PROVE x \in NodesOf(d)
    <2>1. PICK k \in 0..N-1 : \E l \in 1..Len(c[k]) : x = c[k][l]
      BY <1>10
    <2>2. PICK l \in 1..Len(c[k]) : x = c[k][l]
      BY <2>1
    <2>3. k # i \/ l # p
      BY <1>13, <2>2
    <2>4. PICK h \in 1..Len(d[k]) : d[k][h] = c[k][l]
      BY <1>5, <2>3
    <2>5. QED
      BY <1>11, <2>2, <2>4
  <1>14. QED
    BY <1>9, <1>12, <1>13

\* A search of a chain finds the first node with the key, if there is one.
LEMMA PositionFacts ==
  ASSUME NEW t, Chain(t) \in Seq(Node)
  PROVE  /\ Position(t) \in 0..Len(Chain(t))
         /\ Present(t) => Position(t) \in 1..Len(Chain(t)) /\ MyNode(t).key = key[t]
                          /\ MyNode(t) \in Node
         /\ ~Present(t) => \A l \in 1..Len(Chain(t)) : Chain(t)[l].key # key[t]
  <1> DEFINE s == Chain(t)
             I == { l \in 1..Len(s) : s[l].key = key[t] }
  <1>1. Position(t) = IF I # {} THEN Min(I) ELSE 0
    BY DEF Position, SelectInSeq
  <1>2. s \in Seq(Node) /\ Len(s) \in Nat
    OBVIOUS
  <1>3. MyNode(t) = s[Position(t)]
    BY DEF MyNode
  <1> HIDE DEF s
  <1>4. CASE I = {}
    <2>1. Position(t) = 0
      BY <1>1, <1>4
    <2>2. QED
      BY <1>2, <1>4, <2>1 DEF Present, s
  <1>5. CASE I # {}
    <2>1. I \subseteq Nat
      BY <1>2
    <2>2. Min(I) \in I
      BY <1>5, <2>1, LeastOf
    <2>3. Position(t) \in 1..Len(s) /\ s[Position(t)].key = key[t]
      BY <1>1, <1>5, <2>2
    <2>4. s[Position(t)] \in Node
      BY <1>2, <2>3
    <2>5. Position(t) # 0
      BY <2>3
    <2>6. QED
      BY <1>2, <1>3, <2>3, <2>4, <2>5 DEF Present, s
  <1>6. QED
    BY <1>4, <1>5

\* A sequence lists nodes of S, each once at most.
Lists(f, S) ==
  /\ f \in Seq(Node) /\ \A p \in 1..Len(f) : f[p] \in S
  /\ \A p, q \in 1..Len(f) : f[p] = f[q] => p = q

LEMMA InSomeOrder ==
  ASSUME NEW S, IsFiniteSet(S), S \subseteq Node
  PROVE  Lists(SetToSeq(S), S)
  <1>1. PICK n : n = Cardinality(S)
    OBVIOUS
  <1>2. n \in Nat /\ ExistsBijection(1..n, S)
    BY <1>1, FS_CardinalityType
  <1>3. PICK g : g \in [1..n -> S] /\ \A p, q \in 1..n : g[p] = g[q] => p = q
    BY <1>2 DEF ExistsBijection, Bijection, Injection, IsInjective
  <1>4. g \in [1..n -> S] /\ IsInjective(g)
    BY <1>3 DEF IsInjective
  <1>5. PICK f : f = SetToSeq(S)
    OBVIOUS
  <1>6. f = CHOOSE h \in [1..n -> S] : IsInjective(h)
    BY <1>1, <1>5 DEF SetToSeq
  <1>7. f \in [1..n -> S] /\ IsInjective(f)
    BY <1>4, <1>6
  <1>8. f \in Seq(Node) /\ Len(f) = n /\ DOMAIN f = 1..n
    BY <1>2, <1>7
  <1>9. QED
    BY <1>5, <1>7, <1>8 DEF IsInjective, Lists

\* The nodes an expansion takes, in the order in which it takes them
IsCopied(nodes, passed) ==
  nodes = FlattenSeq([i \in 1..n_buckets |-> buckets[i-1]]) \o SetToSeq(passed)

\* They are those of the table and some of those passed.
Copies(nodes, passed) ==
  /\ nodes \in Seq(Node)
  /\ \A p \in 1..Len(nodes) :
       \/ nodes[p] \in passed
       \/ \E i \in 0..n_buckets-1 : \E j \in 1..Len(buckets[i]) : nodes[p] = buckets[i][j]
  /\ \A i \in 0..n_buckets-1 : \A j \in 1..Len(buckets[i]) :
       \E p \in 1..Len(nodes) : nodes[p] = buckets[i][j]
  /\ \A Tag : Distinct(buckets, Tag) /\ ToldApart(passed, Tag) =>
       \A p, q \in 1..Len(nodes) : Tag[nodes[p]] = Tag[nodes[q]] => p = q

LEMMA CopiedFacts ==
  ASSUME n_buckets \in Nat \ {0}, buckets \in [0..n_buckets-1 -> Seq(Node)],
         NEW passed, IsFiniteSet(passed), passed \subseteq Node,
         NEW nodes, IsCopied(nodes, passed)
  PROVE  Copies(nodes, passed)
  <1>1. PICK back : back = SetToSeq(passed)
    OBVIOUS
  <1>2. /\ back \in Seq(Node)
        /\ \A p \in 1..Len(back) : back[p] \in passed
        /\ \A p, q \in 1..Len(back) : back[p] = back[q] => p = q
    BY <1>1, InSomeOrder DEF Lists
  <1>3. PICK seqs : seqs = [i \in 1..n_buckets |-> buckets[i-1]]
    OBVIOUS
  <1>4. /\ seqs \in Seq(Seq(Node)) /\ Len(seqs) = n_buckets /\ DOMAIN seqs = 1..n_buckets
        /\ \A i \in 1..n_buckets : seqs[i] = buckets[i-1]
    BY <1>3
  <1>5. PICK all : all = Append(seqs, back)
    OBVIOUS
  <1>6. /\ all \in Seq(Seq(Node)) /\ Len(all) = n_buckets + 1 /\ DOMAIN all = 1..n_buckets+1
        /\ \A i \in 1..n_buckets : all[i] = buckets[i-1] /\ all[i] = seqs[i]
        /\ all[n_buckets+1] = back
    BY <1>2, <1>4, <1>5
  <1>7. PICK flat : flat = FlattenSeq(seqs)
    OBVIOUS
  <1>8. nodes = flat \o back
    BY <1>1, <1>3, <1>7 DEF IsCopied
  <1>9. ASSUME NEW Tag PROVE Holds(nodes, all, n_buckets + 1, Tag)
    <2>1. Holds(flat, seqs, n_buckets, Tag)
      BY <1>4, <1>7, FlattenHolds
    <2>2. ASSUME Distinct(all, Tag) PROVE Distinct(seqs, Tag)
      <3>1. \A i \in 1..n_buckets : i \in DOMAIN all /\ all[i] = seqs[i]
        BY <1>6
      <3>2. QED
        BY <1>4, <2>2, <3>1 DEF Distinct
    <2>a. \A i \in 1..n_buckets : all[i] = seqs[i]
      BY <1>6
    <2>b. \A p \in 1..Len(flat) : \E i \in 1..n_buckets : \E j \in 1..Len(all[i]) :
            flat[p] = all[i][j]
      <3>1. \A p \in 1..Len(flat) : \E i \in 1..n_buckets : \E j \in 1..Len(seqs[i]) :
              flat[p] = seqs[i][j]
        BY <2>1 DEF Holds
      <3>2. ASSUME NEW p \in 1..Len(flat)
            PROVE  \E i \in 1..n_buckets : \E j \in 1..Len(all[i]) : flat[p] = all[i][j]
        <4>1. PICK i \in 1..n_buckets : \E j \in 1..Len(seqs[i]) : flat[p] = seqs[i][j]
          BY <3>1
        <4>2. all[i] = seqs[i]
          BY <2>a
        <4>3. QED
          BY <4>1, <4>2
      <3>3. QED
        BY <3>2
    <2>c. \A i \in 1..n_buckets : \A j \in 1..Len(all[i]) : \E p \in 1..Len(flat) :
            flat[p] = all[i][j]
      <3>1. \A i \in 1..n_buckets : \A j \in 1..Len(seqs[i]) : \E p \in 1..Len(flat) :
              flat[p] = seqs[i][j]
        BY <2>1 DEF Holds
      <3>2. QED
        BY <2>a, <3>1, Zenon
    <2>3. Holds(flat, all, n_buckets, Tag)
      BY <2>1, <2>2, <2>b, <2>c, Zenon DEF Holds
    <2>4. n_buckets \in 1..Len(all) /\ n_buckets + 1 \in 1..Len(all)
      BY <1>6
    <2>5. Holds(flat \o all[n_buckets+1], all, n_buckets + 1, Tag)
      BY <1>6, <2>3, <2>4, HoldsMore
    <2>6. QED
      BY <1>6, <1>8, <2>5
  <1>10. /\ nodes \in Seq(Node)
         /\ \A p \in 1..Len(nodes) : \E i \in 1..n_buckets+1 : \E j \in 1..Len(all[i]) :
              nodes[p] = all[i][j]
         /\ \A i \in 1..n_buckets+1 : \A j \in 1..Len(all[i]) : \E p \in 1..Len(nodes) :
              nodes[p] = all[i][j]
    BY <1>9 DEF Holds
  <1>11. ASSUME NEW p \in 1..Len(nodes)
         PROVE  \/ nodes[p] \in passed
                \/ \E i \in 0..n_buckets-1 : \E j \in 1..Len(buckets[i]) :
                     nodes[p] = buckets[i][j]
    <2>1. PICK i \in 1..n_buckets+1 : \E j \in 1..Len(all[i]) : nodes[p] = all[i][j]
      BY <1>10
    <2>2. PICK j \in 1..Len(all[i]) : nodes[p] = all[i][j]
      BY <2>1
    <2>3. CASE i = n_buckets + 1
      BY <1>2, <1>6, <2>2, <2>3
    <2>4. CASE i # n_buckets + 1
      <3>1. i \in 1..n_buckets /\ i - 1 \in 0..n_buckets-1
        BY <2>4
      <3>2. QED
        BY <1>6, <2>2, <3>1
    <2>5. QED
      BY <2>3, <2>4
  <1>12. ASSUME NEW i \in 0..n_buckets-1, NEW j \in 1..Len(buckets[i])
         PROVE  \E p \in 1..Len(nodes) : nodes[p] = buckets[i][j]
    <2>1. PICK k : k \in 1..n_buckets /\ k \in 1..n_buckets+1 /\ k - 1 = i
      <3>1. i + 1 \in 1..n_buckets /\ i + 1 \in 1..n_buckets+1 /\ (i + 1) - 1 = i
        OBVIOUS
      <3>2. QED
        BY <3>1
    <2>2. all[k] = buckets[i]
      BY <1>6, <2>1
    <2>3. \A l \in 1..Len(all[k]) : \E p \in 1..Len(nodes) : nodes[p] = all[k][l]
      BY <1>10, <2>1
    <2>4. QED
      BY <2>2, <2>3
  <1>13. ASSUME NEW Tag, Distinct(buckets, Tag), ToldApart(passed, Tag)
         PROVE  \A p, q \in 1..Len(nodes) : Tag[nodes[p]] = Tag[nodes[q]] => p = q
    <2>1. Apart(buckets, n_buckets, Tag)
      BY <1>13, SlotsApart
    <2>2. \A x : x \in Nodes <=> \E i \in 0..n_buckets-1 : \E j \in 1..Len(buckets[i]) :
                                 x = buckets[i][j]
      BY NodesInSlots DEF Nodes
    <2>3. ASSUME NEW i \in 1..n_buckets, NEW k \in 1..n_buckets,
                 NEW j \in 1..Len(all[i]), NEW l \in 1..Len(all[k]),
                 Tag[all[i][j]] = Tag[all[k][l]]
          PROVE  i = k /\ j = l
      <3>1. i-1 \in 0..n_buckets-1 /\ k-1 \in 0..n_buckets-1
        OBVIOUS
      <3>2. all[i] = buckets[i-1] /\ all[k] = buckets[k-1]
        BY <1>6
      <3>3. i-1 = k-1 /\ j = l
        BY <2>1, <2>3, <3>1, <3>2 DEF Apart
      <3>4. QED
        BY <3>3
    <2>4. ASSUME NEW i \in 1..n_buckets, NEW j \in 1..Len(all[i]), NEW l \in 1..Len(back)
          PROVE  Tag[back[l]] # Tag[all[i][j]]
      <3>1. i-1 \in 0..n_buckets-1 /\ all[i] = buckets[i-1]
        BY <1>6
      <3>2. all[i][j] \in Nodes
        BY <2>2, <3>1
      <3>3. QED
        BY <1>2, <1>13, <3>2 DEF ToldApart
    <2>5. ASSUME NEW j \in 1..Len(back), NEW l \in 1..Len(back), Tag[back[j]] = Tag[back[l]]
          PROVE  j = l
      BY <1>2, <1>13, <2>5 DEF ToldApart
    <2>6. \A i \in 1..n_buckets+1 : i \in 1..n_buckets \/ i = n_buckets + 1
      OBVIOUS
    <2>7. ASSUME NEW i \in 1..n_buckets+1, NEW k \in 1..n_buckets+1,
                 NEW j \in 1..Len(all[i]), NEW l \in 1..Len(all[k]),
                 Tag[all[i][j]] = Tag[all[k][l]]
          PROVE  i = k /\ j = l
      <3>1. CASE i \in 1..n_buckets /\ k \in 1..n_buckets
        <4>1. Tag[all[i][j]] = Tag[all[k][l]] => i = k /\ j = l
          BY <2>3, <3>1
        <4>2. QED
          BY <2>7, <4>1
      <3>2. CASE i \in 1..n_buckets /\ k = n_buckets + 1
        BY <1>6, <2>4, <2>7, <3>2
      <3>3. CASE i = n_buckets + 1 /\ k \in 1..n_buckets
        BY <1>6, <2>4, <2>7, <3>3
      <3>4. CASE i = n_buckets + 1 /\ k = n_buckets + 1
        BY <1>6, <2>5, <2>7, <3>4
      <3>5. QED
        BY <2>6, <3>1, <3>2, <3>3, <3>4
    <2>8. Distinct(all, Tag)
      BY <1>6, <2>7 DEF Distinct
    <2>9. QED
      BY <1>9, <2>8 DEF Holds
  <1>14. QED
    BY <1>10, <1>11, <1>12, <1>13 DEF Copies

\* The table an expansion leaves.
IsExpanded(d, passed) ==
  d = Refilled(FlattenSeq([i \in 1..n_buckets |-> buckets[i-1]]) \o SetToSeq(passed))

\* An expansion moves every node to its new index, and nothing else into the table but
\* what was removed after the copy had passed it.
LEMMA ExpandFacts ==
  ASSUME n_buckets \in Nat \ {0}, buckets \in [0..n_buckets-1 -> Seq(Node)],
         NEW passed, IsFiniteSet(passed), passed \subseteq Node,
         NEW d, IsExpanded(d, passed)
  PROVE  /\ d \in [0..2*n_buckets-1 -> Seq(Node)]
         /\ Nodes \subseteq NodesOf(d) /\ NodesOf(d) \subseteq Nodes \cup passed
         /\ \A i \in 0..2*n_buckets-1 : \A j \in 1..Len(d[i]) : NewIndex(Hash[d[i][j].key]) = i
         /\ \A Tag : Distinct(buckets, Tag) /\ ToldApart(passed, Tag) => Distinct(d, Tag)
  <1>1. PICK nodes : IsCopied(nodes, passed)
    BY DEF IsCopied
  <1>c. Copies(nodes, passed)
    BY <1>1, CopiedFacts
  <1>2. nodes \in Seq(Node)
    BY <1>c DEF Copies
  <1>3. /\ \A p \in 1..Len(nodes) :
             \/ nodes[p] \in passed
             \/ \E i \in 0..n_buckets-1 : \E j \in 1..Len(buckets[i]) : nodes[p] = buckets[i][j]
        /\ \A i \in 0..n_buckets-1 : \A j \in 1..Len(buckets[i]) :
             \E p \in 1..Len(nodes) : nodes[p] = buckets[i][j]
    BY <1>c DEF Copies
  <1>4. d = Refilled(nodes)
    BY <1>1 DEF IsCopied, IsExpanded
  <1>5. \A Tag : Refills(d, nodes, Len(nodes), Tag)
    BY <1>2, <1>4, RefilledHolds
  <1>7. /\ d \in [0..2*n_buckets-1 -> Seq(Node)]
        /\ \A i \in 0..2*n_buckets-1 : \A j \in 1..Len(d[i]) :
             /\ NewIndex(Hash[d[i][j].key]) = i
             /\ \E p \in 1..Len(nodes) : d[i][j] = nodes[p]
        /\ \A p \in 1..Len(nodes) : \E i \in 0..2*n_buckets-1 : \E j \in 1..Len(d[i]) :
             d[i][j] = nodes[p]
    BY <1>5 DEF Refills
  <1>8. \A x : x \in Nodes <=> \E i \in 0..n_buckets-1 : \E j \in 1..Len(buckets[i]) :
                                 x = buckets[i][j]
    BY NodesInSlots DEF Nodes
  <1>9. \A x : x \in NodesOf(d) <=> \E i \in 0..2*n_buckets-1 : \E j \in 1..Len(d[i]) :
                                      x = d[i][j]
    <2> DEFINE N == 2 * n_buckets
    <2>1. N \in Nat /\ d \in [0..N-1 -> Seq(Node)]
      BY <1>7
    <2> HIDE DEF N
    <2>2. \A x : x \in NodesOf(d) <=> \E i \in 0..N-1 : \E j \in 1..Len(d[i]) : x = d[i][j]
      BY <2>1, NodesInSlots
    <2>3. QED
      BY <2>2 DEF N
  <1>11. ASSUME NEW x \in NodesOf(d) PROVE x \in Nodes \cup passed
    <2>1. PICK i \in 0..2*n_buckets-1 : \E j \in 1..Len(d[i]) : x = d[i][j]
      BY <1>9
    <2>2. PICK e \in 1..Len(d[i]) : x = d[i][e]
      BY <2>1
    <2>3. \E p \in 1..Len(nodes) : d[i][e] = nodes[p]
      BY <1>7
    <2>4. PICK p \in 1..Len(nodes) : x = nodes[p]
      BY <2>2, <2>3
    <2>5. QED
      BY <1>3, <1>8, <2>4
  <1>12. ASSUME NEW x \in Nodes PROVE x \in NodesOf(d)
    <2>1. PICK k \in 0..n_buckets-1 : \E j \in 1..Len(buckets[k]) : x = buckets[k][j]
      BY <1>8
    <2>2. PICK p \in 1..Len(nodes) : x = nodes[p]
      BY <1>3, <2>1
    <2>3. QED
      BY <1>7, <1>9, <2>2
  <1>13. ASSUME NEW Tag, Distinct(buckets, Tag), ToldApart(passed, Tag) PROVE Distinct(d, Tag)
    <2>1. \A p, q \in 1..Len(nodes) : Tag[nodes[p]] = Tag[nodes[q]] => p = q
      BY <1>c, <1>13 DEF Copies
    <2>2. QED
      BY <1>5, <2>1 DEF Refills
  <1>14. \A i \in 0..2*n_buckets-1 : \A j \in 1..Len(d[i]) : NewIndex(Hash[d[i][j].key]) = i
    BY <1>7
  <1>15. Nodes \subseteq NodesOf(d) /\ NodesOf(d) \subseteq Nodes \cup passed
    BY <1>11, <1>12
  <1>16. d \in [0..2*n_buckets-1 -> Seq(Node)]
    BY <1>7
  <1>17. QED
    BY <1>13, <1>14, <1>15, <1>16

-----------------------------------------------------------------------------
(* The steps keep the invariant                                            *)

LEMMA InitHolds == Init => Invariant
  <1> SUFFICES ASSUME Init PROVE Invariant
    OBVIOUS
  <1>1. n_buckets \in Nat \ {0} /\ \A i \in 0..n_buckets-1 : buckets[i] = << >>
    <2>1. PICK e \in 0..IntBits : n_buckets = 2^e
      BY HashMapAssumption DEF Init
    <2>2. 2^e \in Int /\ 2^e > 0
      BY HashMapAssumption, PowersAssumption
    <2>3. QED
      BY <2>1, <2>2 DEF Init
  <1>2. Typed
    BY <1>1, HashMapAssumption, PowersAssumption DEF Init, Typed, Places, Objects
  <1>3. Nodes = {} /\ Held = {}
    <2>1. \A i \in DOMAIN buckets : ToSet(buckets[i]) = {}
      BY <1>1 DEF Init, ToSet
    <2>2. QED
      BY <2>1 DEF Nodes, NodesOf, Held
  <1>4. EntriesAreOwned
    BY <1>1, <1>3 DEF Init, EntriesAreOwned, Distinct, Putting
  <1>5. ObjectsAreOwned
    BY <1>3 DEF Init, ObjectsAreOwned, Objects
  <1>6. PointersFit /\ LocksHeld /\ NodesStay
    BY DEF Init, PointersFit, LocksHeld, NodesStay, AtBucket, Scanning, Getting, Removing
  <1>7. QED
    BY <1>2, <1>4, <1>5, <1>6 DEF Init, Invariant, OnlyKnownMisuse

\* A search of the same chain for the same key has the same result.
LEMMA SamePresence ==
  ASSUME NEW u, Chain(u)' = Chain(u), key'[u] = key[u]
  PROVE  Present(u)' = Present(u)
  BY DEF Present, Position, SelectInSeq

\* A step that leaves the chains and the objects alone and begins no put
LEMMA QuietSteps ==
  ASSUME EntriesAreOwned, ObjectsAreOwned, OnlyKnownMisuse,
         UNCHANGED << mix, buckets, generation, calls, objects, expansion, undefined >>,
         \A u \in Threads : pc'[u] \in Putting => pc[u] \in Putting
  PROVE  EntriesAreOwned' /\ ObjectsAreOwned' /\ OnlyKnownMisuse'
  <1>1. EntriesAreOwned'
    BY DEF EntriesAreOwned, objects, Nodes, MyCall, Distinct
  <1>2. Held' = Held
    BY DEF Held
  <1>3. ObjectsAreOwned'
    BY <1>2 DEF ObjectsAreOwned, objects, expansion
  <1>4. OnlyKnownMisuse'
    BY DEF OnlyKnownMisuse, expansion
  <1>5. QED
    BY <1>1, <1>3, <1>4

LEMMA CallKeeps ==
  ASSUME Invariant, ~undefined, NEW t \in Threads, Call(t)
  PROVE  Invariant'
  <1> USE DEF Invariant
  <1>1. PICK op \in mix : pc' = [pc EXCEPT ![t] = op]
    BY DEF Call, Goto
  <1>2. Typed'
    <2>1. op \in {"put", "remove", "get"}
      BY DEF Typed
    <2>2. pc' \in [Threads -> Places]
      BY <1>1, <2>1 DEF Typed, Places, Putting, Removing, Getting
    <2>3. calls' \in [Threads -> 0..MaxCalls]
      <3>1. calls[t] \in 0..MaxCalls /\ calls[t] < MaxCalls /\ MaxCalls \in Nat
        BY HashMapAssumption DEF Typed, Call
      <3>2. calls[t] + 1 \in 0..MaxCalls
        BY <3>1
      <3>3. QED
        BY <3>2 DEF Typed, Call
    <2>4. key' \in [Threads -> Keys]
      BY DEF Typed, Call
    <2>5. QED
      BY <2>2, <2>3, <2>4 DEF Typed, Call, table, objects
  <1>3. PointersFit'
    BY <1>1 DEF Typed, PointersFit, Call, table, IsStale, AtBucket, Scanning
  <1>4. \A u \in Threads : u # t => Present(u)' = Present(u)
    BY SamePresence DEF Typed, Call, Chain, table
  <1>5. LocksHeld'
    BY <1>1, <1>4 DEF Typed, LocksHeld, Call, table, IsStale, Scanning
  <1>6. NodesStay'
    BY <1>1 DEF Typed, NodesStay, Call, table, Getting, Removing, NodeIsAlive
  <1>7. EntriesAreOwned'
    <2>1. \A c \in moved' : c[2] <= calls'[c[1]]
      <3>1. ASSUME NEW c \in moved PROVE c[2] <= calls'[c[1]]
        <4>1. c[1] \in Threads /\ c[2] \in Int /\ c[2] <= calls[c[1]]
          BY DEF Typed, Calls, EntriesAreOwned
        <4>2. calls[c[1]] \in Int /\ (calls'[c[1]] = calls[c[1]] \/ calls'[c[1]] = calls[c[1]] + 1)
          BY <4>1 DEF Typed, Call
        <4>3. QED
          BY <4>1, <4>2
      <3>2. QED
        BY <3>1 DEF Call, objects
    <2>2. ASSUME NEW u \in Threads, pc'[u] \in Putting PROVE MyCall(u)' \in Calls \ moved'
      <3>1. CASE u = t
        <4>1. MyCall(t)' = << t, calls[t] + 1 >> /\ calls[t] \in Int /\ moved' = moved
          BY DEF Call, MyCall, Typed, objects
        <4>2. << t, calls[t] + 1 >> \in moved => calls[t] + 1 <= calls[t]
          BY DEF EntriesAreOwned
        <4>3. calls[t] + 1 \in 1..MaxCalls
          <5>1. calls[t] \in 0..MaxCalls /\ calls[t] < MaxCalls /\ MaxCalls \in Nat
            BY HashMapAssumption DEF Typed, Call
          <5>2. QED
            BY <5>1
        <4>4. QED
          BY <3>1, <4>1, <4>2, <4>3 DEF Calls
      <3>2. CASE u # t
        BY <1>1, <2>2, <3>2 DEF Typed, Call, objects, EntriesAreOwned, MyCall
      <3>3. QED
        BY <3>1, <3>2
    <2>3. QED
      BY <2>1, <2>2 DEF EntriesAreOwned, Call, table, objects, Nodes, Distinct
  <1>8. Held' = Held
    BY DEF Held, Call, table
  <1>9. ObjectsAreOwned' /\ OnlyKnownMisuse'
    BY <1>8 DEF ObjectsAreOwned, OnlyKnownMisuse, Call, table, objects, expansion
  <1>10. QED
    BY <1>2, <1>3, <1>5, <1>6, <1>7, <1>9

LEMMA PutLockKeeps ==
  ASSUME Invariant, NEW t \in Threads, PutLock(t)
  PROVE  Invariant'
  <1> USE DEF Invariant
  <1>1. CalculateIndex(n_buckets, Hash[key[t]]) \in 0..n_buckets-1
    BY IndexInRange DEF Typed
  <1>2. Typed'
    <2>1. pc' \in [Threads -> Places]
      BY DEF Typed, PutLock, Goto, Places, Putting, Removing, Getting
    <2>2. bucket' \in [Threads -> [gen : Nat, index : Nat]]
      BY <1>1 DEF Typed, PutLock, FindBucket
    <2>3. QED
      BY <2>1, <2>2 DEF Typed, PutLock, LockMap, table, locals, objects
  <1>3. PointersFit'
    BY DEF Typed, PointersFit, PutLock, FindBucket, Goto, table, locals, IsStale, AtBucket, Scanning
  <1>4. \A u \in Threads : u # t => Present(u)' = Present(u)
    BY SamePresence DEF Typed, PutLock, FindBucket, Chain, table
  <1>5. LocksHeld'
    BY <1>1, <1>4, HashMapAssumption DEF Typed, LocksHeld, PutLock, LockMap, FindBucket, Goto, table, locals, IsStale, Scanning
  <1>6. NodesStay'
    BY DEF Typed, NodesStay, PutLock, Goto, table, locals, Getting, Removing, NodeIsAlive
  <1>7. EntriesAreOwned' /\ ObjectsAreOwned' /\ OnlyKnownMisuse'
    BY QuietSteps DEF Typed, PutLock, Goto, table, locals, Putting, expansion
  <1>8. QED
    BY <1>2, <1>3, <1>5, <1>6, <1>7

LEMMA ExpandLockKeeps ==
  ASSUME Invariant, NEW t \in Threads, ExpandLock(t)
  PROVE  Invariant'
  <1> USE DEF Invariant
  <1>2. Typed'
    <2>1. pc' \in [Threads -> Places]
      BY DEF Typed, ExpandLock, Goto, Places, Putting, Removing, Getting
    <2>2. register' \in [Threads -> 0..2^SizeBits-1]
      <3> DEFINE m == 2^SizeBits
                 r == size + 1
      <3>1. m \in Int /\ m > 0 /\ r \in Int
        BY HashMapAssumption, PowersAssumption DEF Typed
      <3> HIDE DEF m, r
      <3>2. r % m \in 0..m-1
        BY <3>1
      <3>3. QED
        BY <3>2 DEF Typed, ExpandLock, m, r
    <2>3. QED
      BY <2>1, <2>2 DEF Typed, ExpandLock, LockMap, table, locals, objects
  <1>3. PointersFit'
    BY DEF Typed, PointersFit, ExpandLock, Goto, table, locals, IsStale, AtBucket, Scanning
  <1>4. \A u \in Threads : Present(u)' = Present(u)
    BY SamePresence DEF Typed, ExpandLock, Chain, table, locals
  <1>5. LocksHeld'
    BY <1>4, HashMapAssumption DEF Typed, LocksHeld, ExpandLock, LockMap, Goto, table, locals, IsStale, Scanning
  <1>6. NodesStay'
    BY DEF Typed, NodesStay, ExpandLock, Goto, table, locals, Getting, Removing, NodeIsAlive
  <1>7. EntriesAreOwned' /\ ObjectsAreOwned' /\ OnlyKnownMisuse'
    BY QuietSteps DEF Typed, ExpandLock, Goto, table, locals, Putting, expansion
  <1>8. QED
    BY <1>2, <1>3, <1>5, <1>6, <1>7

LEMMA StaysSmallKeeps ==
  ASSUME Invariant, NEW t \in Threads, StaysSmall(t)
  PROVE  Invariant'
  <1> USE DEF Invariant
  <1>2. Typed'
    <2>1. pc' \in [Threads -> Places]
      BY DEF Typed, StaysSmall, Goto, Places, Putting, Removing, Getting
    <2>2. QED
      BY <2>1 DEF Typed, StaysSmall, table, locals, objects
  <1>3. PointersFit'
    BY DEF Typed, PointersFit, StaysSmall, Goto, table, locals, IsStale, AtBucket, Scanning
  <1>4. \A u \in Threads : Present(u)' = Present(u)
    BY SamePresence DEF Typed, StaysSmall, Chain, table, locals
  <1>5. LocksHeld'
    BY <1>4, HashMapAssumption DEF Typed, LocksHeld, StaysSmall, Goto, table, locals, IsStale, Scanning
  <1>6. NodesStay'
    BY DEF Typed, NodesStay, StaysSmall, Goto, table, locals, Getting, Removing, NodeIsAlive
  <1>7. EntriesAreOwned' /\ ObjectsAreOwned' /\ OnlyKnownMisuse'
    BY QuietSteps DEF Typed, StaysSmall, Goto, table, locals, Putting, expansion
  <1>8. QED
    BY <1>2, <1>3, <1>5, <1>6, <1>7

LEMMA GrowsKeeps ==
  ASSUME Invariant, NEW t \in Threads, Grows(t)
  PROVE  Invariant'
  <1> USE DEF Invariant
  <1>1. lock = t
    BY DEF Grows, LocksHeld
  <1>2. Typed'
    <2>1. pc' \in [Threads -> Places]
      BY DEF Typed, Grows, Goto, Places, Putting, Removing, Getting
    <2>2. QED
      BY <2>1 DEF Typed, Grows, table, locals, objects
  <1>3. PointersFit'
    BY DEF Typed, PointersFit, Grows, Goto, table, locals, IsStale, AtBucket, Scanning
  <1>4. \A u \in Threads : Present(u)' = Present(u)
    BY SamePresence DEF Typed, Grows, Chain, table, locals
  <1>5. LocksHeld'
    BY <1>1, <1>4, HashMapAssumption DEF Typed, LocksHeld, Grows, Goto, table, locals, IsStale, Scanning
  <1>6. NodesStay'
    BY DEF Typed, NodesStay, Grows, Goto, table, locals, Getting, Removing, NodeIsAlive
  <1>7. EntriesAreOwned' /\ ObjectsAreOwned' /\ OnlyKnownMisuse'
    BY QuietSteps DEF Typed, Grows, Goto, table, locals, Putting, expansion
  <1>8. QED
    BY <1>2, <1>3, <1>5, <1>6, <1>7

LEMMA RemoveLockKeeps ==
  ASSUME Invariant, NEW t \in Threads, RemoveLock(t)
  PROVE  Invariant'
  <1> USE DEF Invariant
  <1>1. CalculateIndex(n_buckets, Hash[key[t]]) \in 0..n_buckets-1
    BY IndexInRange DEF Typed
  <1>2. Typed'
    <2>1. pc' \in [Threads -> Places]
      BY DEF Typed, RemoveLock, Goto, Places, Putting, Removing, Getting
    <2>2. bucket' \in [Threads -> [gen : Nat, index : Nat]]
      BY <1>1 DEF Typed, RemoveLock, FindBucket
    <2>3. QED
      BY <2>1, <2>2 DEF Typed, RemoveLock, table, locals, objects
  <1>3. PointersFit'
    BY DEF Typed, PointersFit, RemoveLock, FindBucket, Goto, table, locals, IsStale, AtBucket, Scanning
  <1>4. \A u \in Threads : u # t => Present(u)' = Present(u)
    BY SamePresence DEF Typed, RemoveLock, FindBucket, Chain, table
  <1>5. LocksHeld'
    BY <1>1, <1>4, HashMapAssumption DEF Typed, LocksHeld, RemoveLock, FindBucket, Goto, table, locals, IsStale, Scanning
  <1>6. NodesStay'
    BY DEF Typed, NodesStay, RemoveLock, Goto, table, locals, Getting, Removing, NodeIsAlive
  <1>7. EntriesAreOwned' /\ ObjectsAreOwned' /\ OnlyKnownMisuse'
    BY QuietSteps DEF Typed, RemoveLock, Goto, table, locals, Putting, expansion
  <1>8. QED
    BY <1>2, <1>3, <1>5, <1>6, <1>7

\* A thread that locks a free bucket takes no lock from another.
LEMMA ScannersKeepLocks ==
  ASSUME Typed, PointersFit, LocksHeld, NEW t \in Threads, FreeBucket(t), LockBucket(t)
  PROVE  \A u \in Threads : u # t /\ pc[u] \in Scanning /\ ~IsStale(u) =>
           bucketLock'[bucket[u].index] = u
  <1> SUFFICES ASSUME NEW u \in Threads, u # t, pc[u] \in Scanning, ~IsStale(u)
               PROVE  bucketLock'[bucket[u].index] = u
    OBVIOUS
  <1>1. bucketLock[bucket[u].index] = u /\ bucketLock[bucket[t].index] = NoThread
    BY DEF LocksHeld, FreeBucket
  <1>2. CalculateIndex(n_buckets, Hash[key[u]]) \in 0..n_buckets-1
    BY IndexInRange DEF Typed
  <1>3. bucket[u].index \in 0..n_buckets-1
    BY <1>2 DEF PointersFit, AtBucket
  <1>4. bucketLock' = [bucketLock EXCEPT ![bucket[t].index] = t] /\ u # NoThread
    BY HashMapAssumption DEF LockBucket
  <1>5. QED
    BY <1>1, <1>3, <1>4 DEF Typed

LEMMA RemoveBucketKeeps ==
  ASSUME Invariant, NEW t \in Threads, RemoveBucket(t)
  PROVE  Invariant'
  <1> USE DEF Invariant
  <1>1. bucket[t].index \in 0..n_buckets-1
    <2>1. CalculateIndex(n_buckets, Hash[key[t]]) \in 0..n_buckets-1
      BY IndexInRange DEF Typed
    <2>2. QED
      BY <2>1 DEF PointersFit, RemoveBucket, FreeBucket, AtBucket, Scanning
  <1>2. Typed'
    <2>1. pc' \in [Threads -> Places]
      BY DEF Typed, RemoveBucket, Goto, Places, Putting, Removing, Getting
    <2>2. bucketLock' \in [0..n_buckets-1 -> Threads \cup {NoThread}]
      BY DEF Typed, RemoveBucket, LockBucket
    <2>3. QED
      BY <2>1, <2>2 DEF Typed, RemoveBucket, table, locals, objects
  <1>3. PointersFit'
    BY DEF Typed, PointersFit, RemoveBucket, Goto, table, locals, IsStale, AtBucket, Scanning
  <1>4. \A u \in Threads : Present(u)' = Present(u)
    BY SamePresence DEF Typed, RemoveBucket, Chain, table, locals
  <1>5. LocksHeld'
    <2>1. \A u \in Threads : u # t /\ pc[u] \in Scanning /\ ~IsStale(u) =>
            bucketLock'[bucket[u].index] = u
      BY ScannersKeepLocks DEF RemoveBucket
    <2>2. bucketLock'[bucket[t].index] = t
      BY <1>1 DEF Typed, RemoveBucket, LockBucket
    <2>3. QED
      BY <1>4, <2>1, <2>2 DEF Typed, LocksHeld, RemoveBucket, Goto, locals, IsStale, Scanning
  <1>6. NodesStay'
    BY DEF Typed, NodesStay, RemoveBucket, Goto, table, locals, Getting, Removing, NodeIsAlive
  <1>7. EntriesAreOwned' /\ ObjectsAreOwned' /\ OnlyKnownMisuse'
    BY QuietSteps DEF Typed, RemoveBucket, Goto, table, locals, Putting, expansion
  <1>8. QED
    BY <1>2, <1>3, <1>5, <1>6, <1>7

\* A thread that unlocks the bucket it has scanned takes no lock from another.
LEMMA LeavingKeepsLocks ==
  ASSUME Typed, PointersFit, LocksHeld, NEW t \in Threads, pc[t] \in Scanning, ~IsStale(t),
         NEW place \in {"idle", "getValue"}, Goto(t, place), UnlockBucket(t),
         UNCHANGED << bucket, generation, lock >>,
         \A u \in Threads : u # t /\ pc[u] = "removeEntry" /\ ~IsStale(u) => Present(u)' = Present(u)
  PROVE  LocksHeld'
  <1> SUFFICES ASSUME NEW u \in Threads
               PROVE  /\ pc'[u] \in {"putBucket", "getBucket", "grow", "copy"} => lock' = u
                      /\ pc'[u] \in {"putBucket", "getBucket"} => ~IsStale(u)'
                      /\ pc'[u] \in Scanning /\ ~IsStale(u)' => bucketLock'[bucket'[u].index] = u
                      /\ pc'[u] = "removeEntry" /\ ~IsStale(u)' => Present(u)'
    BY DEF LocksHeld
  <1>1. IsStale(u)' = IsStale(u)
    BY DEF IsStale
  <1>2. CASE u = t
    BY <1>2 DEF Typed, Goto, Scanning
  <1>3. CASE u # t
    <2>1. pc'[u] = pc[u]
      BY <1>3 DEF Typed, Goto
    <2>2. ASSUME pc[u] \in Scanning, ~IsStale(u) PROVE bucketLock'[bucket'[u].index] = u
      <3>1. bucketLock[bucket[u].index] = u /\ bucketLock[bucket[t].index] = t
        BY <2>2 DEF LocksHeld
      <3>2. bucket[u].index \in 0..n_buckets-1
        <4>1. CalculateIndex(n_buckets, Hash[key[u]]) \in 0..n_buckets-1
          BY IndexInRange DEF Typed
        <4>2. QED
          BY <2>2, <4>1 DEF PointersFit, AtBucket
      <3>3. QED
        BY <1>3, <3>1, <3>2 DEF Typed, UnlockBucket
    <2>3. QED
      BY <1>1, <1>3, <2>1, <2>2 DEF LocksHeld
  <1>4. QED
    BY <1>2, <1>3

LEMMA RemoveAbsentKeeps ==
  ASSUME Invariant, NEW t \in Threads, RemoveAbsent(t)
  PROVE  Invariant'
  <1> USE DEF Invariant
  <1>1. bucket[t].index \in 0..n_buckets-1
    <2>1. CalculateIndex(n_buckets, Hash[key[t]]) \in 0..n_buckets-1
      BY IndexInRange DEF Typed
    <2>2. QED
      BY <2>1 DEF PointersFit, RemoveAbsent, AtBucket, Scanning
  <1>2. Typed'
    <2>1. pc' \in [Threads -> Places]
      BY DEF Typed, RemoveAbsent, Goto, Places, Putting, Removing, Getting
    <2>2. bucketLock' \in [0..n_buckets-1 -> Threads \cup {NoThread}]
      BY DEF Typed, RemoveAbsent, LeaveAbsent, UnlockBucket
    <2>3. QED
      BY <2>1, <2>2 DEF Typed, RemoveAbsent, table, locals, objects
  <1>3. PointersFit'
    BY DEF Typed, PointersFit, RemoveAbsent, Goto, table, locals, IsStale, AtBucket, Scanning
  <1>4. \A u \in Threads : Present(u)' = Present(u)
    BY SamePresence DEF Typed, RemoveAbsent, Chain, table, locals
  <1>5. LocksHeld'
    <2>1. /\ pc[t] \in Scanning /\ ~IsStale(t) /\ UnlockBucket(t)
          /\ UNCHANGED << bucket, generation, lock >>
          /\ \E place \in {"idle", "getValue"} : Goto(t, place)
      BY DEF RemoveAbsent, LeaveAbsent, locals, Scanning
    <2>2. QED
      BY <1>4, <2>1, LeavingKeepsLocks
  <1>6. NodesStay'
    BY DEF Typed, NodesStay, RemoveAbsent, Goto, table, locals, Getting, Removing, NodeIsAlive
  <1>7. EntriesAreOwned' /\ ObjectsAreOwned' /\ OnlyKnownMisuse'
    BY QuietSteps DEF Typed, RemoveAbsent, Goto, table, locals, Putting, expansion
  <1>8. QED
    BY <1>2, <1>3, <1>5, <1>6, <1>7

LEMMA RemoveFoundKeeps ==
  ASSUME Invariant, NEW t \in Threads, RemoveFound(t)
  PROVE  Invariant'
  <1> USE DEF Invariant
  <1>2. Typed'
    <2>1. pc' \in [Threads -> Places]
      BY DEF Typed, RemoveFound, Goto, Places, Putting, Removing, Getting
    <2>2. register' \in [Threads -> 0..2^SizeBits-1]
      <3> DEFINE m == 2^SizeBits
                 r == size - 1
      <3>1. m \in Int /\ m > 0 /\ r \in Int
        BY HashMapAssumption, PowersAssumption DEF Typed
      <3> HIDE DEF m, r
      <3>2. r % m \in 0..m-1
        BY <3>1
      <3>3. QED
        BY <3>2 DEF Typed, RemoveFound, m, r
    <2>3. QED
      BY <2>1, <2>2 DEF Typed, RemoveFound, table, locals, objects
  <1>3. PointersFit'
    BY DEF Typed, PointersFit, RemoveFound, Goto, table, locals, IsStale, AtBucket, Scanning
  <1>4. \A u \in Threads : Present(u)' = Present(u)
    BY SamePresence DEF Typed, RemoveFound, Chain, table, locals
  <1>5. LocksHeld'
    BY <1>4, HashMapAssumption DEF Typed, LocksHeld, RemoveFound, Goto, table, locals, IsStale, Scanning
  <1>6. NodesStay'
    BY DEF Typed, NodesStay, RemoveFound, Goto, table, locals, Getting, Removing, NodeIsAlive
  <1>7. EntriesAreOwned' /\ ObjectsAreOwned' /\ OnlyKnownMisuse'
    BY QuietSteps DEF Typed, RemoveFound, Goto, table, locals, Putting, expansion
  <1>8. QED
    BY <1>2, <1>3, <1>5, <1>6, <1>7

LEMMA GetLockKeeps ==
  ASSUME Invariant, NEW t \in Threads, GetLock(t)
  PROVE  Invariant'
  <1> USE DEF Invariant
  <1>1. CalculateIndex(n_buckets, Hash[key[t]]) \in 0..n_buckets-1
    BY IndexInRange DEF Typed
  <1>2. Typed'
    <2>1. pc' \in [Threads -> Places]
      BY DEF Typed, GetLock, Goto, Places, Putting, Removing, Getting
    <2>2. bucket' \in [Threads -> [gen : Nat, index : Nat]]
      BY <1>1 DEF Typed, GetLock, FindBucket
    <2>3. QED
      BY <2>1, <2>2 DEF Typed, GetLock, LockMap, table, locals, objects
  <1>3. PointersFit'
    BY DEF Typed, PointersFit, GetLock, FindBucket, Goto, table, locals, IsStale, AtBucket, Scanning
  <1>4. \A u \in Threads : u # t => Present(u)' = Present(u)
    BY SamePresence DEF Typed, GetLock, FindBucket, Chain, table
  <1>5. LocksHeld'
    BY <1>1, <1>4, HashMapAssumption DEF Typed, LocksHeld, GetLock, LockMap, FindBucket, Goto, table, locals, IsStale, Scanning
  <1>6. NodesStay'
    BY DEF Typed, NodesStay, GetLock, Goto, table, locals, Getting, Removing, NodeIsAlive
  <1>7. EntriesAreOwned' /\ ObjectsAreOwned' /\ OnlyKnownMisuse'
    BY QuietSteps DEF Typed, GetLock, Goto, table, locals, Putting, expansion
  <1>8. QED
    BY <1>2, <1>3, <1>5, <1>6, <1>7

LEMMA GetBucketKeeps ==
  ASSUME Invariant, NEW t \in Threads, GetBucket(t)
  PROVE  Invariant'
  <1> USE DEF Invariant
  <1>1. bucket[t].index \in 0..n_buckets-1
    <2>1. CalculateIndex(n_buckets, Hash[key[t]]) \in 0..n_buckets-1
      BY IndexInRange DEF Typed
    <2>2. QED
      BY <2>1 DEF PointersFit, GetBucket, FreeBucket, AtBucket, Scanning
  <1>2. Typed'
    <2>1. pc' \in [Threads -> Places]
      BY DEF Typed, GetBucket, Goto, Places, Putting, Removing, Getting
    <2>2. bucketLock' \in [0..n_buckets-1 -> Threads \cup {NoThread}]
      BY DEF Typed, GetBucket, LockBucket
    <2>3. QED
      BY <2>1, <2>2 DEF Typed, GetBucket, table, locals, objects
  <1>3. PointersFit'
    BY DEF Typed, PointersFit, GetBucket, Goto, table, locals, IsStale, AtBucket, Scanning
  <1>4. \A u \in Threads : Present(u)' = Present(u)
    BY SamePresence DEF Typed, GetBucket, Chain, table, locals
  <1>5. LocksHeld'
    <2>1. \A u \in Threads : u # t /\ pc[u] \in Scanning /\ ~IsStale(u) =>
            bucketLock'[bucket[u].index] = u
      BY ScannersKeepLocks DEF GetBucket
    <2>2. bucketLock'[bucket[t].index] = t
      BY <1>1 DEF Typed, GetBucket, LockBucket
    <2>3. QED
      BY <1>4, <2>1, <2>2 DEF Typed, LocksHeld, GetBucket, Goto, locals, IsStale, Scanning
  <1>6. NodesStay'
    BY DEF Typed, NodesStay, GetBucket, Goto, table, locals, Getting, Removing, NodeIsAlive
  <1>7. EntriesAreOwned' /\ ObjectsAreOwned' /\ OnlyKnownMisuse'
    BY QuietSteps DEF Typed, GetBucket, Goto, table, locals, Putting, expansion
  <1>8. QED
    BY <1>2, <1>3, <1>5, <1>6, <1>7

LEMMA GetAbsentKeeps ==
  ASSUME Invariant, NEW t \in Threads, GetAbsent(t)
  PROVE  Invariant'
  <1> USE DEF Invariant
  <1>1. bucket[t].index \in 0..n_buckets-1
    <2>1. CalculateIndex(n_buckets, Hash[key[t]]) \in 0..n_buckets-1
      BY IndexInRange DEF Typed
    <2>2. QED
      BY <2>1 DEF PointersFit, GetAbsent, AtBucket, Scanning
  <1>2. Typed'
    <2>1. pc' \in [Threads -> Places]
      BY DEF Typed, GetAbsent, Goto, Places, Putting, Removing, Getting
    <2>2. bucketLock' \in [0..n_buckets-1 -> Threads \cup {NoThread}]
      BY DEF Typed, GetAbsent, UnlockBucket
    <2>3. QED
      BY <2>1, <2>2 DEF Typed, GetAbsent, table, locals, objects
  <1>3. PointersFit'
    BY DEF Typed, PointersFit, GetAbsent, Goto, table, locals, IsStale, AtBucket, Scanning
  <1>4. \A u \in Threads : Present(u)' = Present(u)
    BY SamePresence DEF Typed, GetAbsent, Chain, table, locals
  <1>5. LocksHeld'
    <2>1. /\ pc[t] \in Scanning /\ ~IsStale(t) /\ UnlockBucket(t)
          /\ UNCHANGED << bucket, generation, lock >>
          /\ \E place \in {"idle", "getValue"} : Goto(t, place)
      BY DEF GetAbsent, locals, Scanning
    <2>2. QED
      BY <1>4, <2>1, LeavingKeepsLocks
  <1>6. NodesStay'
    BY DEF Typed, NodesStay, GetAbsent, Goto, table, locals, Getting, Removing, NodeIsAlive
  <1>7. EntriesAreOwned' /\ ObjectsAreOwned' /\ OnlyKnownMisuse'
    BY QuietSteps DEF Typed, GetAbsent, Goto, table, locals, Putting, expansion
  <1>8. QED
    BY <1>2, <1>3, <1>5, <1>6, <1>7

LEMMA GetFoundKeeps ==
  ASSUME Invariant, NEW t \in Threads, GetFound(t)
  PROVE  Invariant'
  <1> USE DEF Invariant
  <1>1. bucket[t].index \in 0..n_buckets-1
    <2>1. CalculateIndex(n_buckets, Hash[key[t]]) \in 0..n_buckets-1
      BY IndexInRange DEF Typed
    <2>2. QED
      BY <2>1 DEF PointersFit, GetFound, AtBucket, Scanning
  <1>a. MyNode(t) \in Node /\ MyNode(t) \in ToSet(buckets[bucket[t].index])
    <2>1. Chain(t) \in Seq(Node)
      BY <1>1 DEF Typed, Chain
    <2>2. Position(t) \in 1..Len(Chain(t)) /\ MyNode(t) \in Node
      BY <2>1, PositionFacts DEF GetFound
    <2>3. Position(t) \in DOMAIN Chain(t)
      BY <2>1, <2>2
    <2>4. QED
      BY <2>2, <2>3 DEF MyNode, Chain, ToSet
  <1>2. Typed'
    <2>1. pc' \in [Threads -> Places]
      BY DEF Typed, GetFound, Goto, Places, Putting, Removing, Getting
    <2>2. bucketLock' \in [0..n_buckets-1 -> Threads \cup {NoThread}]
      BY DEF Typed, GetFound, UnlockBucket
    <2>3. node_ref' \in [Threads -> [gen : Nat, id : Calls \cup {NoCall}]]
      BY <1>a DEF Typed, GetFound, Node
    <2>4. QED
      BY <2>1, <2>2, <2>3 DEF Typed, GetFound, table, locals, objects
  <1>3. PointersFit'
    BY DEF Typed, PointersFit, GetFound, Goto, table, locals, IsStale, AtBucket, Scanning
  <1>4. \A u \in Threads : Present(u)' = Present(u)
    BY SamePresence DEF Typed, GetFound, Chain, table, locals
  <1>5. LocksHeld'
    <2>1. /\ pc[t] \in Scanning /\ ~IsStale(t) /\ UnlockBucket(t)
          /\ UNCHANGED << bucket, generation, lock >>
          /\ \E place \in {"idle", "getValue"} : Goto(t, place)
      BY DEF GetFound, locals, Scanning
    <2>2. QED
      BY <1>4, <2>1, LeavingKeepsLocks
  <1>6. NodesStay'
    <2>1. NodeIsAlive(node_ref[t])'
      <3>1. /\ node_ref'[t] = [gen |-> generation, id |-> MyNode(t).id]
            /\ buckets' = buckets /\ generation' = generation
        BY DEF Typed, GetFound
      <3>2. bucket[t].index \in DOMAIN buckets
        BY <1>1 DEF Typed
      <3>3. QED
        BY <1>a, <3>1, <3>2 DEF NodeIsAlive
    <2>2. QED
      <3>1. \A u \in Threads : u # t => NodeIsAlive(node_ref[u])' = NodeIsAlive(node_ref[u])
        BY DEF Typed, GetFound, NodeIsAlive
      <3>2. \A u \in Threads : u # t => pc'[u] = pc[u]
        BY DEF Typed, GetFound, Goto
      <3>3. pc'[t] = "getValue" /\ "get" \in mix /\ UNCHANGED << mix, generation >>
        BY DEF Typed, GetFound, Goto, NodesStay, Getting
      <3>4. QED
        BY <2>1, <3>1, <3>2, <3>3 DEF NodesStay, Removing
  <1>7. EntriesAreOwned' /\ ObjectsAreOwned' /\ OnlyKnownMisuse'
    BY QuietSteps DEF Typed, GetFound, Goto, table, locals, Putting, expansion
  <1>8. QED
    BY <1>2, <1>3, <1>5, <1>6, <1>7

LEMMA GetValueKeeps ==
  ASSUME Invariant, NEW t \in Threads, GetValue(t)
  PROVE  Invariant'
  <1> USE DEF Invariant
  <1>2. Typed'
    <2>1. pc' \in [Threads -> Places]
      BY DEF Typed, GetValue, Goto, Places, Putting, Removing, Getting
    <2>2. QED
      BY <2>1 DEF Typed, GetValue, table, locals, objects
  <1>3. PointersFit'
    BY DEF Typed, PointersFit, GetValue, Goto, table, locals, IsStale, AtBucket, Scanning
  <1>4. \A u \in Threads : Present(u)' = Present(u)
    BY SamePresence DEF Typed, GetValue, Chain, table, locals
  <1>5. LocksHeld'
    BY <1>4, HashMapAssumption DEF Typed, LocksHeld, GetValue, Goto, table, locals, IsStale, Scanning
  <1>6. NodesStay'
    BY DEF Typed, NodesStay, GetValue, Goto, table, locals, Getting, Removing, NodeIsAlive
  <1>7. EntriesAreOwned' /\ ObjectsAreOwned' /\ OnlyKnownMisuse'
    BY QuietSteps DEF Typed, GetValue, Goto, table, locals, Putting, expansion
  <1>8. QED
    BY <1>2, <1>3, <1>5, <1>6, <1>7

LEMMA UseFreedMemoryKeeps ==
  ASSUME Invariant, NEW t \in Threads, UseFreedMemory(t)
  PROVE  Invariant'
  <1> USE DEF Invariant
  <1>1. UNCHANGED << mix, size, n_buckets, buckets, generation, bucketLock, lock, pc, key, calls,
                     bucket, node_ref, register, answer, moved, key_destructed,
                     value_destructed, open, unlinked, revived >>
    BY DEF UseFreedMemory, table, locals, objects, expansion
  <1>2. Typed' /\ PointersFit' /\ NodesStay'
    BY <1>1 DEF Typed, PointersFit, NodesStay, IsStale, NodeIsAlive
  <1>3. \A u \in Threads : Present(u)' = Present(u)
    BY <1>1, SamePresence DEF Chain
  <1>4. LocksHeld'
    BY <1>1, <1>3 DEF LocksHeld, IsStale
  <1>5. EntriesAreOwned'
    BY <1>1 DEF EntriesAreOwned, Nodes, MyCall, Distinct
  <1>6. ObjectsAreOwned'
    <2>1. Held' = Held
      BY <1>1 DEF Held
    <2>2. QED
      BY <1>1, <2>1 DEF ObjectsAreOwned
  <1>7. generation > 0 \/ {"get", "remove"} \subseteq mix \/ unlinked # {}
    <2>1. CASE IsStale(t)
      BY <2>1 DEF PointersFit, IsStale, Typed
    <2>2. CASE pc[t] = "getValue" /\ ~NodeIsAlive(node_ref[t])
      BY <2>2 DEF NodesStay, Getting, Typed
    <2>3. QED
      BY <2>1, <2>2 DEF UseFreedMemory, TouchesFreedMemory
  <1>8. OnlyKnownMisuse'
    BY <1>1, <1>7 DEF OnlyKnownMisuse
  <1>9. QED
    BY <1>2, <1>4, <1>5, <1>6, <1>8

\* Two nodes of the table that Tag does not tell apart are one.
LEMMA NodesApart ==
  ASSUME NEW N \in Nat, NEW c \in [0..N-1 -> Seq(Node)], NEW Tag, Distinct(c, Tag),
         NEW x \in NodesOf(c), NEW y \in NodesOf(c), Tag[x] = Tag[y]
  PROVE  x = y
  <1>1. \A z : z \in NodesOf(c) <=> \E i \in 0..N-1 : \E j \in 1..Len(c[i]) : z = c[i][j]
    BY NodesInSlots
  <1>2. PICK i \in 0..N-1 : \E j \in 1..Len(c[i]) : x = c[i][j]
    BY <1>1
  <1>3. PICK j \in 1..Len(c[i]) : x = c[i][j]
    BY <1>2
  <1>4. PICK k \in 0..N-1 : \E l \in 1..Len(c[k]) : y = c[k][l]
    BY <1>1
  <1>5. PICK l \in 1..Len(c[k]) : y = c[k][l]
    BY <1>4
  <1>6. Apart(c, N, Tag)
    BY SlotsApart
  <1>7. i = k /\ j = l
    BY <1>3, <1>5, <1>6 DEF Apart
  <1>8. QED
    BY <1>3, <1>5, <1>7

LEMMA AliveNodes ==
  ASSUME NEW ref
  PROVE  NodeIsAlive(ref) <=> ref.gen = generation /\ \E node \in Nodes : node.id = ref.id
  BY DEF NodeIsAlive, Nodes, NodesOf

LEMMA HeldNodes == Held = { node.by : node \in Nodes }
  BY DEF Held, Nodes, NodesOf

\* In the step the map takes the objects of the calls in "taken", gives those of the
\* calls in "given" to a destructor, and holds the others.
Moves(taken, given) ==
  /\ given \subseteq Held /\ taken \cap moved = {}
  /\ moved' = moved \cup taken /\ Held' = (Held \ given) \cup taken /\ revived' = revived
  /\ \A c \in Calls, kind \in {"key", "value"} :
       key_destructed'[<< c, kind >>] + value_destructed'[<< c, kind >>] =
         key_destructed[<< c, kind >>] + value_destructed[<< c, kind >>]
           + IF c \in given THEN 1 ELSE 0

\* Such a step keeps each object with its owner.
LEMMA OwnershipMoves ==
  ASSUME Typed, ObjectsAreOwned, Held \subseteq moved, NEW taken, NEW given,
         Moves(taken, given)
  PROVE  ObjectsAreOwned'
  <1> USE DEF Moves
  <1> SUFFICES ASSUME NEW c \in Calls \ revived, NEW kind \in {"key", "value"}
               PROVE  key_destructed'[<< c, kind >>] + value_destructed'[<< c, kind >>] =
                        IF c \in moved' \ Held' THEN 1 ELSE 0
    BY DEF ObjectsAreOwned
  <1>1. key_destructed[<< c, kind >>] + value_destructed[<< c, kind >>] =
          IF c \in moved \ Held THEN 1 ELSE 0
    BY DEF ObjectsAreOwned
  <1>a. key_destructed'[<< c, kind >>] + value_destructed'[<< c, kind >>] =
          (IF c \in moved \ Held THEN 1 ELSE 0) + IF c \in given THEN 1 ELSE 0
    BY <1>1
  <1>2. CASE c \in given
    <2>1. c \in moved /\ c \in Held /\ c \notin taken
      BY <1>2
    <2>2. c \in moved' \ Held' /\ c \notin moved \ Held
      BY <1>2, <2>1
    <2>3. QED
      BY <1>a, <1>2, <2>2
  <1>3. CASE c \notin given
    <2>1. c \in moved' \ Held' <=> c \in moved \ Held
      BY <1>3
    <2>2. QED
      BY <1>a, <1>3, <2>1
  <1>4. QED
    BY <1>2, <1>3

\* What a call that holds a bucket pointer finds
LEMMA MyBucket ==
  ASSUME Typed, PointersFit, NEW t \in Threads, pc[t] \in AtBucket, ~IsStale(t)
  PROVE  /\ bucket[t].index \in 0..n_buckets-1
         /\ Chain(t) \in Seq(Node)
         /\ Position(t) \in 0..Len(Chain(t))
         /\ Present(t) => /\ Position(t) \in 1..Len(buckets[bucket[t].index])
                          /\ MyNode(t) \in Nodes /\ MyNode(t) \in Node
                          /\ MyNode(t).key = key[t]
  <1>1. CalculateIndex(n_buckets, Hash[key[t]]) \in 0..n_buckets-1
    BY IndexInRange DEF Typed
  <1>2. bucket[t].index \in 0..n_buckets-1
    BY <1>1 DEF PointersFit
  <1>3. Chain(t) \in Seq(Node)
    BY <1>2 DEF Chain, Typed
  <1>4. /\ Position(t) \in 0..Len(Chain(t))
        /\ Present(t) => /\ Position(t) \in 1..Len(Chain(t)) /\ MyNode(t).key = key[t]
                         /\ MyNode(t) \in Node
    BY <1>3, PositionFacts
  <1>5. ASSUME Present(t) PROVE MyNode(t) \in Nodes
    <2>1. n_buckets \in Nat /\ buckets \in [0..n_buckets-1 -> Seq(Node)]
      BY DEF Typed
    <2>2. \A x : x \in NodesOf(buckets) <=>
                   \E i \in 0..n_buckets-1 : \E j \in 1..Len(buckets[i]) : x = buckets[i][j]
      BY <2>1, NodesInSlots
    <2>3. MyNode(t) = buckets[bucket[t].index][Position(t)]
          /\ Position(t) \in 1..Len(buckets[bucket[t].index])
      BY <1>4, <1>5 DEF MyNode, Chain
    <2>4. QED
      BY <1>2, <2>2, <2>3 DEF Nodes
  <1>6. QED
    BY <1>2, <1>3, <1>4, <1>5 DEF Chain

\* A removal that has found its entry finds it again when another thread changes the
\* chain of another bucket.
LEMMA OtherChainsStay ==
  ASSUME Typed, PointersFit, LocksHeld, NEW t \in Threads, NEW u \in Threads,
         pc[u] \in Scanning, ~IsStale(u), bucketLock[bucket[t].index] # u,
         NEW chain, buckets' = [buckets EXCEPT ![bucket[t].index] = chain],
         UNCHANGED << key, bucket >>
  PROVE  Present(u)' = Present(u)
  <1>1. bucket[u].index # bucket[t].index
    BY DEF LocksHeld
  <1>2. Chain(u)' = Chain(u)
    <2>1. pc[u] \in AtBucket
      BY DEF AtBucket
    <2>2. bucket[u].index \in 0..n_buckets-1
      BY <2>1, MyBucket
    <2>3. QED
      BY <1>1, <2>2 DEF Chain, Typed
  <1>3. QED
    BY <1>2, SamePresence

\* What the three operations that change a chain do to the table
LEMMA PutReplaceTable ==
  ASSUME Invariant, NEW t \in Threads, PutReplace(t)
  PROVE  /\ pc[t] = "putBucket" /\ pc[t] \in AtBucket /\ ~IsStale(t)
         /\ lock = t /\ bucketLock[bucket[t].index] = NoThread
         /\ MyNode(t) \in Nodes /\ MyNode(t) \in Node /\ MyNode(t).key = key[t]
         /\ MyNode(t) = buckets[bucket[t].index][Position(t)]
         /\ MyCall(t) \in Calls \ moved
         /\ Replacement(t) \in Node /\ Replacement(t).by = MyCall(t)
         /\ Replacement(t).id = MyNode(t).id /\ Replacement(t).key = key[t]
         /\ Swapped(buckets', buckets, n_buckets, bucket[t].index, Position(t), Replacement(t))
         /\ NodesOf(buckets') = (Nodes \ {MyNode(t)}) \cup {Replacement(t)}
  <1> USE DEF Invariant
  <1> DEFINE old == MyNode(t)
             me == MyCall(t)
             new == Replacement(t)
             b == bucket[t].index
             p == Position(t)
  <1>1. /\ pc[t] = "putBucket" /\ pc[t] \in AtBucket /\ ~IsStale(t)
        /\ lock = t /\ bucketLock[b] = NoThread /\ Present(t)
    BY DEF PutReplace, FreeBucket, LocksHeld, AtBucket
  <1>2. /\ b \in 0..n_buckets-1 /\ p \in 1..Len(buckets[b])
        /\ old \in Nodes /\ old \in Node /\ old.key = key[t]
    BY <1>1, MyBucket
  <1>3. me \in Calls \ moved
    BY <1>1 DEF EntriesAreOwned, Putting
  <1>4. new \in Node /\ new.by = me /\ new.id = old.id /\ new.key = old.key
    BY <1>2, <1>3 DEF Replacement, Node
  <1>5. /\ n_buckets \in Nat /\ buckets \in [0..n_buckets-1 -> Seq(Node)]
        /\ buckets' = [buckets EXCEPT ![b][p] = new] /\ old = buckets[b][p]
    BY DEF PutReplace, Typed, MyNode, Chain
  <1> HIDE DEF old, me, new, b, p
  <1>6. Swapped(buckets', buckets, n_buckets, b, p, new)
    BY <1>2, <1>4, <1>5, ExceptSwaps
  <1>7. NodesOf(buckets') = (Nodes \ {old}) \cup {new}
    <2>1. Distinct(buckets, By)
      BY DEF EntriesAreOwned
    <2>2. NodesOf(buckets') = (NodesOf(buckets) \ {buckets[b][p]}) \cup {new}
      BY <1>6, <2>1, SwapNodes
    <2>3. QED
      BY <1>5, <2>2 DEF Nodes
  <1>8. QED
    BY <1>1, <1>2, <1>3, <1>4, <1>5, <1>6, <1>7 DEF old, me, new, b, p

LEMMA PutReplaceKeeps ==
  ASSUME Invariant, NEW t \in Threads, PutReplace(t)
  PROVE  Invariant'
  <1> USE DEF Invariant
  <1> DEFINE old == MyNode(t)
             me == MyCall(t)
             new == Replacement(t)
             b == bucket[t].index
             p == Position(t)
  <1>1. lock = t /\ bucketLock[b] = NoThread /\ ~IsStale(t) /\ pc[t] = "putBucket"
    BY PutReplaceTable
  <1>2. old \in Nodes /\ old \in Node
    BY PutReplaceTable
  <1>3. me \in Calls \ moved
    BY PutReplaceTable
  <1>4. new \in Node /\ new.by = me /\ new.id = old.id
    BY PutReplaceTable
  <1>5. /\ n_buckets \in Nat /\ buckets \in [0..n_buckets-1 -> Seq(Node)]
        /\ buckets' = [buckets EXCEPT ![b][p] = new] /\ old = buckets[b][p]
    BY DEF PutReplace, Typed, MyNode, Chain
  <1>6. /\ UNCHANGED << mix, size, n_buckets, generation, bucketLock, key, calls, bucket, node_ref,
                        register, answer, key_destructed, open, unlinked, revived,
                        undefined >>
        /\ pc' = [pc EXCEPT ![t] = "idle"] /\ lock' = NoThread /\ moved' = moved \cup {me}
        /\ value_destructed' = Count(value_destructed, {old.by} \X {"key", "value"})
    BY DEF PutReplace, locals, Goto, Replaced, expansion
  <1>7. Swapped(buckets', buckets, n_buckets, b, p, new)
    BY PutReplaceTable
  <1>8. Distinct(buckets, By) /\ Distinct(buckets, Id)
    BY DEF EntriesAreOwned
  <1>9. NodesOf(buckets') = (Nodes \ {old}) \cup {new}
    BY PutReplaceTable
  <1> HIDE DEF old, me, new, b, p
  <1>a. buckets' \in [0..n_buckets-1 -> Seq(Node)]
    BY <1>7 DEF Swapped
  <1>10. Nodes \subseteq Node
    BY <1>5, NodesInSlots DEF Nodes
  <1>11. \A x \in Nodes : (By[x] = x.by /\ x.by \in moved) /\ (Id[x] = x.id /\ x.id \in moved)
    BY <1>10 DEF By, Id, EntriesAreOwned
  <1>12. Distinct(buckets', By)
    <2>1. \A x \in NodesOf(buckets) : By[x] = By[new] => x = buckets[b][p]
      BY <1>3, <1>4, <1>11 DEF By, Nodes
    <2>2. QED
      BY <1>7, <1>8, <2>1, SwapDistinct
  <1>13. Distinct(buckets', Id)
    <2>1. ASSUME NEW x \in NodesOf(buckets), Id[x] = Id[new] PROVE x = buckets[b][p]
      <3>1. Id[new] = Id[old]
        BY <1>2, <1>4 DEF Id
      <3>2. x = old
        BY <1>2, <1>5, <1>8, <2>1, <3>1, NodesApart DEF Nodes
      <3>3. QED
        BY <1>5, <3>2
    <2>2. QED
      BY <1>7, <1>8, <2>1, SwapDistinct
  <1>14. Typed'
    <2>1. pc' \in [Threads -> Places]
      BY <1>6 DEF Typed, Places
    <2>2. value_destructed' \in [Objects -> Nat]
      BY <1>6 DEF Typed, Count
    <2>3. moved' \subseteq Calls
      BY <1>3, <1>6 DEF Typed
    <2>4. QED
      BY <1>6, <1>a, <2>1, <2>2, <2>3 DEF Typed
  <1>15. PointersFit'
    BY <1>6 DEF Typed, PointersFit, IsStale, AtBucket, Scanning
  <1>16. LocksHeld'
    <2>1. ASSUME NEW u \in Threads, pc[u] = "removeEntry", ~IsStale(u)
          PROVE  Present(u)' = Present(u)
      <3>1. u # NoThread /\ bucketLock[bucket[t].index] = NoThread
        BY <1>1, HashMapAssumption DEF b
      <3>2. buckets' = [buckets EXCEPT ![bucket[t].index] = [buckets[b] EXCEPT ![p] = new]]
        BY <1>5 DEF b
      <3>3. pc[u] \in Scanning
        BY <2>1 DEF Scanning
      <3>4. QED
        BY <1>6, <2>1, <3>1, <3>2, <3>3, OtherChainsStay
    <2>2. QED
      BY <1>1, <1>6, <2>1, HashMapAssumption DEF Typed, LocksHeld, IsStale, Scanning
  <1>17. EntriesAreOwned'
    <2>1. ASSUME NEW c \in moved' PROVE c[2] <= calls'[c[1]]
      <3>1. CASE c \in moved
        BY <1>6, <3>1 DEF EntriesAreOwned
      <3>2. CASE c = me
        BY <1>6, <3>2 DEF MyCall, me, Typed
      <3>3. QED
        BY <1>6, <3>1, <3>2
    <2>2. ASSUME NEW u \in Threads, pc'[u] \in Putting PROVE MyCall(u)' \in Calls \ moved'
      <3>1. u # t /\ pc[u] \in Putting
        BY <1>6, <2>2 DEF Typed, Putting
      <3>2. MyCall(u)' = MyCall(u) /\ MyCall(u) \in Calls \ moved /\ MyCall(u) # me
        BY <1>6, <3>1 DEF EntriesAreOwned, MyCall, me
      <3>3. QED
        BY <1>6, <3>2
    <2>3. ASSUME NEW x \in NodesOf(buckets') PROVE x.by \in moved' /\ x.id \in moved'
      BY <1>2, <1>4, <1>6, <1>9, <1>11
    <2>4. QED
      BY <1>12, <1>13, <2>1, <2>2, <2>3 DEF EntriesAreOwned, Nodes
  <1>18. ObjectsAreOwned'
    <2>1. Held' = (Held \ {old.by}) \cup {me}
      <3>1. ASSUME NEW x \in Nodes, x.by = old.by PROVE x = old
        <4>1. By[x] = By[old]
          BY <1>2, <1>11, <3>1
        <4>2. QED
          BY <1>2, <1>5, <1>8, <4>1, NodesApart DEF Nodes
      <3>2. Held' = { node.by : node \in NodesOf(buckets') }
        BY DEF Held, NodesOf
      <3>3. QED
        BY <1>2, <1>4, <1>9, <3>1, <3>2, HeldNodes
    <2>2. Held \subseteq moved /\ {old.by} \subseteq Held
      BY <1>2, <1>11, HeldNodes
    <2>3. ASSUME NEW c \in Calls, NEW kind \in {"key", "value"}
          PROVE  key_destructed'[<< c, kind >>] + value_destructed'[<< c, kind >>] =
                   key_destructed[<< c, kind >>] + value_destructed[<< c, kind >>]
                     + IF c \in {old.by} THEN 1 ELSE 0
      <3>1. << c, kind >> \in Objects
        BY DEF Objects
      <3>2. value_destructed'[<< c, kind >>] =
              value_destructed[<< c, kind >>] + IF c \in {old.by} THEN 1 ELSE 0
        <4>1. << c, kind >> \in {old.by} \X {"key", "value"} <=> c \in {old.by}
          OBVIOUS
        <4>2. value_destructed'[<< c, kind >>] =
                IF << c, kind >> \in {old.by} \X {"key", "value"}
                THEN value_destructed[<< c, kind >>] + 1 ELSE value_destructed[<< c, kind >>]
          BY <1>6, <3>1 DEF Count
        <4>3. value_destructed[<< c, kind >>] \in Nat
          BY <3>1 DEF Typed
        <4>4. QED
          BY <4>1, <4>2, <4>3
      <3>3. key_destructed[<< c, kind >>] \in Nat /\ value_destructed[<< c, kind >>] \in Nat
        BY <3>1 DEF Typed
      <3>4. QED
        BY <1>6, <3>2, <3>3
    <2>4. {me} \cap moved = {}
      BY <1>3
    <2>5. revived' = revived /\ moved' = moved \cup {me}
      BY <1>6
    <2>6. Moves({me}, {old.by})
      BY <2>1, <2>2, <2>3, <2>4, <2>5 DEF Moves
    <2>7. QED
      BY <2>2, <2>6, OwnershipMoves
  <1>19. NodesStay'
    <2>1. ASSUME NEW u \in Threads, NodeIsAlive(node_ref[u]) PROVE NodeIsAlive(node_ref[u])'
      <3>1. node_ref[u].gen = generation /\ \E x \in Nodes : x.id = node_ref[u].id
        BY <2>1, AliveNodes
      <3>2. \E x \in NodesOf(buckets') : x.id = node_ref[u].id
        BY <1>4, <1>9, <3>1
      <3>3. QED
        BY <1>6, <3>1, <3>2 DEF NodeIsAlive, NodesOf
    <2>2. QED
      BY <1>6, <2>1 DEF NodesStay, Typed, Getting, Removing
  <1>20. OnlyKnownMisuse'
    BY <1>6 DEF OnlyKnownMisuse
  <1>21. QED
    BY <1>14, <1>15, <1>16, <1>17, <1>18, <1>19, <1>20

NewNode(t) == [key |-> key[t], by |-> MyCall(t), id |-> MyCall(t)]

LEMMA PutAppendTable ==
  ASSUME Invariant, NEW t \in Threads, PutAppend(t)
  PROVE  /\ pc[t] = "putBucket" /\ pc[t] \in AtBucket /\ ~IsStale(t)
         /\ lock = t /\ bucketLock[bucket[t].index] = NoThread
         /\ MyCall(t) \in Calls \ moved
         /\ NewNode(t) \in Node /\ NewNode(t).by = MyCall(t)
         /\ NewNode(t).id = MyCall(t) /\ NewNode(t).key = key[t]
         /\ Extended(buckets', buckets, n_buckets, bucket[t].index, NewNode(t))
         /\ NodesOf(buckets') = Nodes \cup {NewNode(t)}
  <1> USE DEF Invariant
  <1> DEFINE b == bucket[t].index
  <1>1. /\ pc[t] = "putBucket" /\ pc[t] \in AtBucket /\ ~IsStale(t)
        /\ lock = t /\ bucketLock[b] = NoThread
    BY DEF PutAppend, FreeBucket, LocksHeld, AtBucket
  <1>2. b \in 0..n_buckets-1
    BY <1>1, MyBucket
  <1>3. MyCall(t) \in Calls \ moved
    BY <1>1 DEF EntriesAreOwned, Putting
  <1>4. /\ NewNode(t) \in Node /\ NewNode(t).by = MyCall(t)
        /\ NewNode(t).id = MyCall(t) /\ NewNode(t).key = key[t]
    BY <1>3 DEF Node, NewNode, Typed
  <1>5. /\ n_buckets \in Nat /\ buckets \in [0..n_buckets-1 -> Seq(Node)]
        /\ buckets' = [buckets EXCEPT ![b] = Append(@, NewNode(t))]
    BY DEF PutAppend, Typed, NewNode
  <1> HIDE DEF b
  <1>6. Extended(buckets', buckets, n_buckets, b, NewNode(t))
    BY <1>2, <1>4, <1>5, AppendExtends
  <1>7. NodesOf(buckets') = Nodes \cup {NewNode(t)}
    BY <1>6, ExtendFacts DEF Nodes
  <1>8. QED
    BY <1>1, <1>3, <1>4, <1>6, <1>7 DEF b

LEMMA PutAppendKeeps ==
  ASSUME Invariant, NEW t \in Threads, PutAppend(t)
  PROVE  Invariant'
  <1> USE DEF Invariant
  <1> DEFINE me == MyCall(t)
             new == NewNode(t)
             b == bucket[t].index
  <1>1. lock = t /\ bucketLock[b] = NoThread /\ ~IsStale(t) /\ pc[t] = "putBucket"
    BY PutAppendTable
  <1>3. me \in Calls \ moved
    BY PutAppendTable
  <1>4. new \in Node /\ new.by = me /\ new.id = me
    BY PutAppendTable
  <1>5. /\ n_buckets \in Nat /\ buckets \in [0..n_buckets-1 -> Seq(Node)]
        /\ buckets' = [buckets EXCEPT ![b] = Append(@, new)]
    BY DEF PutAppend, Typed, NewNode
  <1>6. /\ UNCHANGED << mix, size, n_buckets, generation, bucketLock, key, calls, bucket, node_ref,
                        register, answer, key_destructed, value_destructed, open, unlinked,
                        revived, undefined >>
        /\ pc' = [pc EXCEPT ![t] = "expand"] /\ lock' = NoThread /\ moved' = moved \cup {me}
    BY DEF PutAppend, locals, Goto, expansion
  <1>7. Extended(buckets', buckets, n_buckets, b, new)
    BY PutAppendTable
  <1>9. NodesOf(buckets') = Nodes \cup {new}
    BY PutAppendTable
  <1> HIDE DEF me, new, b
  <1>8. buckets' \in [0..n_buckets-1 -> Seq(Node)]
    BY <1>7 DEF Extended
  <1>10. Nodes \subseteq Node
    BY <1>5, NodesInSlots DEF Nodes
  <1>11. \A x \in Nodes : (By[x] = x.by /\ x.by \in moved) /\ (Id[x] = x.id /\ x.id \in moved)
    BY <1>10 DEF By, Id, EntriesAreOwned
  <1>12. Distinct(buckets', By) /\ Distinct(buckets', Id)
    <2>1. Distinct(buckets, By) /\ Distinct(buckets, Id)
      BY DEF EntriesAreOwned
    <2>2. \A x \in NodesOf(buckets) : By[x] # By[new] /\ Id[x] # Id[new]
      BY <1>3, <1>4, <1>11 DEF By, Id, Nodes
    <2>3. QED
      BY <1>7, <2>1, <2>2, ExtendFacts
  <1>13. Typed'
    <2>1. pc' \in [Threads -> Places]
      BY <1>6 DEF Typed, Places
    <2>2. moved' \subseteq Calls
      BY <1>3, <1>6 DEF Typed
    <2>3. QED
      BY <1>6, <1>8, <2>1, <2>2 DEF Typed
  <1>14. PointersFit'
    BY <1>6 DEF Typed, PointersFit, IsStale, AtBucket, Scanning
  <1>15. LocksHeld'
    <2>1. ASSUME NEW u \in Threads, pc[u] = "removeEntry", ~IsStale(u)
          PROVE  Present(u)' = Present(u)
      <3>1. u # NoThread /\ bucketLock[bucket[t].index] = NoThread
        BY <1>1, HashMapAssumption DEF b
      <3>2. buckets' = [buckets EXCEPT ![bucket[t].index] = Append(buckets[b], new)]
        BY <1>5 DEF b
      <3>3. pc[u] \in Scanning
        BY <2>1 DEF Scanning
      <3>4. QED
        BY <1>6, <2>1, <3>1, <3>2, <3>3, OtherChainsStay
    <2>2. QED
      BY <1>1, <1>6, <2>1, HashMapAssumption DEF Typed, LocksHeld, IsStale, Scanning
  <1>16. EntriesAreOwned'
    <2>1. ASSUME NEW c \in moved' PROVE c[2] <= calls'[c[1]]
      <3>1. CASE c \in moved
        BY <1>6, <3>1 DEF EntriesAreOwned
      <3>2. CASE c = me
        BY <1>6, <3>2 DEF MyCall, me, Typed
      <3>3. QED
        BY <1>6, <3>1, <3>2
    <2>2. ASSUME NEW u \in Threads, pc'[u] \in Putting PROVE MyCall(u)' \in Calls \ moved'
      <3>1. u # t /\ pc[u] \in Putting
        BY <1>6, <2>2 DEF Typed, Putting
      <3>2. MyCall(u)' = MyCall(u) /\ MyCall(u) \in Calls \ moved /\ MyCall(u) # me
        BY <1>6, <3>1 DEF EntriesAreOwned, MyCall, me
      <3>3. QED
        BY <1>6, <3>2
    <2>3. ASSUME NEW x \in NodesOf(buckets') PROVE x.by \in moved' /\ x.id \in moved'
      BY <1>4, <1>6, <1>9, <1>11
    <2>4. QED
      BY <1>12, <2>1, <2>2, <2>3 DEF EntriesAreOwned, Nodes
  <1>17. ObjectsAreOwned'
    <2>1. Held' = (Held \ {}) \cup {me}
      <3>1. Held' = { node.by : node \in NodesOf(buckets') }
        BY DEF Held, NodesOf
      <3>2. QED
        BY <1>4, <1>9, <3>1, HeldNodes
    <2>2. Held \subseteq moved
      BY <1>11, HeldNodes
    <2>3. ASSUME NEW c \in Calls, NEW kind \in {"key", "value"}
          PROVE  key_destructed'[<< c, kind >>] + value_destructed'[<< c, kind >>] =
                   key_destructed[<< c, kind >>] + value_destructed[<< c, kind >>]
                     + IF c \in {} THEN 1 ELSE 0
      <3>1. << c, kind >> \in Objects
        BY DEF Objects
      <3>2. key_destructed[<< c, kind >>] \in Nat /\ value_destructed[<< c, kind >>] \in Nat
        BY <3>1 DEF Typed
      <3>3. QED
        BY <1>6, <3>2
    <2>4. {me} \cap moved = {} /\ {} \subseteq Held
      BY <1>3
    <2>5. revived' = revived /\ moved' = moved \cup {me}
      BY <1>6
    <2>6. Moves({me}, {})
      BY <2>1, <2>2, <2>3, <2>4, <2>5 DEF Moves
    <2>7. QED
      BY <2>2, <2>6, OwnershipMoves
  <1>18. NodesStay'
    <2>1. ASSUME NEW u \in Threads, NodeIsAlive(node_ref[u]) PROVE NodeIsAlive(node_ref[u])'
      <3>1. node_ref[u].gen = generation /\ \E x \in Nodes : x.id = node_ref[u].id
        BY <2>1, AliveNodes
      <3>2. \E x \in NodesOf(buckets') : x.id = node_ref[u].id
        BY <1>9, <3>1
      <3>3. QED
        BY <1>6, <3>1, <3>2 DEF NodeIsAlive, NodesOf
    <2>2. QED
      BY <1>6, <2>1 DEF NodesStay, Typed, Getting, Removing
  <1>19. OnlyKnownMisuse'
    BY <1>6 DEF OnlyKnownMisuse
  <1>20. QED
    BY <1>13, <1>14, <1>15, <1>16, <1>17, <1>18, <1>19

LEMMA RemoveEntryTable ==
  ASSUME Invariant, NEW t \in Threads, RemoveEntry(t)
  PROVE  /\ pc[t] = "removeEntry" /\ pc[t] \in AtBucket /\ pc[t] \in Scanning /\ ~IsStale(t)
         /\ bucketLock[bucket[t].index] = t
         /\ MyNode(t) \in Nodes /\ MyNode(t) \in Node /\ MyNode(t).key = key[t]
         /\ MyNode(t) = buckets[bucket[t].index][Position(t)]
         /\ Shortened(buckets', buckets, n_buckets, bucket[t].index, Position(t))
         /\ NodesOf(buckets') = Nodes \ {MyNode(t)}
  <1> USE DEF Invariant
  <1> DEFINE old == MyNode(t)
             b == bucket[t].index
             p == Position(t)
  <1>1. /\ pc[t] = "removeEntry" /\ pc[t] \in AtBucket /\ pc[t] \in Scanning /\ ~IsStale(t)
        /\ bucketLock[b] = t /\ Present(t)
    BY DEF RemoveEntry, LocksHeld, AtBucket, Scanning
  <1>2. /\ b \in 0..n_buckets-1 /\ p \in 1..Len(buckets[b])
        /\ old \in Nodes /\ old \in Node /\ old.key = key[t]
    BY <1>1, MyBucket
  <1>3. /\ n_buckets \in Nat /\ buckets \in [0..n_buckets-1 -> Seq(Node)]
        /\ buckets' = [buckets EXCEPT ![b] = RemoveAt(@, p)] /\ old = buckets[b][p]
    BY DEF RemoveEntry, Typed, MyNode, Chain
  <1> HIDE DEF old, b, p
  <1>4. Shortened(buckets', buckets, n_buckets, b, p)
    BY <1>2, <1>3, RemoveShortens
  <1>5. NodesOf(buckets') = Nodes \ {old}
    <2>1. Distinct(buckets, By)
      BY DEF EntriesAreOwned
    <2>2. QED
      BY <1>3, <1>4, <2>1, ShortenFacts DEF Nodes
  <1>6. QED
    BY <1>1, <1>2, <1>3, <1>4, <1>5 DEF old, b, p

LEMMA RemoveEntryKeeps ==
  ASSUME Invariant, NEW t \in Threads, RemoveEntry(t)
  PROVE  Invariant'
  <1> USE DEF Invariant
  <1> DEFINE old == MyNode(t)
             b == bucket[t].index
             p == Position(t)
  <1>1. /\ pc[t] = "removeEntry" /\ pc[t] \in Scanning /\ ~IsStale(t)
        /\ bucketLock[b] = t
    BY RemoveEntryTable
  <1>2. old \in Nodes /\ old \in Node
    BY RemoveEntryTable
  <1>3. /\ n_buckets \in Nat /\ buckets \in [0..n_buckets-1 -> Seq(Node)]
        /\ buckets' = [buckets EXCEPT ![b] = RemoveAt(@, p)] /\ old = buckets[b][p]
    BY DEF RemoveEntry, Typed, MyNode, Chain
  <1>4. /\ UNCHANGED << mix, n_buckets, generation, lock, key, calls, bucket, node_ref,
                        register, answer, moved, open, revived, undefined >>
        /\ unlinked \subseteq unlinked'
        /\ pc' = [pc EXCEPT ![t] = "idle"] /\ size' = register[t] /\ UnlockBucket(t)
        /\ key_destructed' = Count(key_destructed, {<< old.by, "key" >>})
        /\ value_destructed' = Count(value_destructed, {<< old.by, "value" >>})
    BY DEF RemoveEntry, locals, Goto
  <1>5. Shortened(buckets', buckets, n_buckets, b, p)
    BY RemoveEntryTable
  <1>8. NodesOf(buckets') = Nodes \ {old}
    BY RemoveEntryTable
  <1> HIDE DEF old, b, p
  <1>6. buckets' \in [0..n_buckets-1 -> Seq(Node)]
    BY <1>5 DEF Shortened
  <1>7. Distinct(buckets, By) /\ Distinct(buckets, Id)
    BY DEF EntriesAreOwned
  <1>9. Distinct(buckets', By) /\ Distinct(buckets', Id)
    BY <1>5, <1>7, ShortenFacts
  <1>10. Nodes \subseteq Node
    BY <1>3, NodesInSlots DEF Nodes
  <1>11. \A x \in Nodes : By[x] = x.by /\ x.by \in moved /\ x.id \in moved
    BY <1>10 DEF By, EntriesAreOwned
  <1>12. Typed'
    <2>1. pc' \in [Threads -> Places]
      BY <1>4 DEF Typed, Places
    <2>2. bucketLock' \in [0..n_buckets-1 -> Threads \cup {NoThread}]
      BY <1>4 DEF Typed, UnlockBucket
    <2>3. value_destructed' \in [Objects -> Nat]
      BY <1>4 DEF Typed, Count
    <2>4. key_destructed' \in [Objects -> Nat]
      BY <1>4 DEF Typed, Count
    <2>5. QED
      BY <1>4, <1>6, <2>1, <2>2, <2>3, <2>4 DEF Typed
  <1>13. PointersFit'
    BY <1>4 DEF Typed, PointersFit, IsStale, AtBucket, Scanning
  <1>14. LocksHeld'
    <2>1. ASSUME NEW u \in Threads, u # t, pc[u] = "removeEntry", ~IsStale(u)
          PROVE  Present(u)' = Present(u)
      <3>1. bucketLock[bucket[t].index] # u
        BY <1>1, <2>1 DEF b
      <3>2. buckets' = [buckets EXCEPT ![bucket[t].index] = RemoveAt(buckets[b], p)]
        BY <1>3 DEF b
      <3>3. pc[u] \in Scanning
        BY <2>1 DEF Scanning
      <3>4. QED
        BY <1>4, <2>1, <3>1, <3>2, <3>3, OtherChainsStay
    <2>2. Goto(t, "idle")
      BY <1>4 DEF Goto
    <2>3. QED
      BY <1>1, <1>4, <2>1, <2>2, LeavingKeepsLocks
  <1>15. EntriesAreOwned'
    <2>1. \A u \in Threads : pc'[u] \in Putting => u # t /\ pc[u] \in Putting
      BY <1>4 DEF Typed, Putting
    <2>2. ASSUME NEW x \in NodesOf(buckets') PROVE x.by \in moved' /\ x.id \in moved'
      BY <1>4, <1>8, <1>11
    <2>3. QED
      BY <1>4, <1>9, <2>1, <2>2 DEF EntriesAreOwned, Nodes, MyCall
  <1>16. ObjectsAreOwned'
    <2>1. Held' = (Held \ {old.by}) \cup {}
      <3>1. ASSUME NEW x \in Nodes, x.by = old.by PROVE x = old
        <4>1. By[x] = By[old]
          BY <1>2, <1>11, <3>1
        <4>2. QED
          BY <1>2, <1>3, <1>7, <4>1, NodesApart DEF Nodes
      <3>2. Held' = { node.by : node \in NodesOf(buckets') }
        BY DEF Held, NodesOf
      <3>3. QED
        BY <1>2, <1>8, <3>1, <3>2, HeldNodes
    <2>2. Held \subseteq moved /\ {old.by} \subseteq Held
      BY <1>2, <1>11, HeldNodes
    <2>3. ASSUME NEW c \in Calls, NEW kind \in {"key", "value"}
          PROVE  key_destructed'[<< c, kind >>] + value_destructed'[<< c, kind >>] =
                   key_destructed[<< c, kind >>] + value_destructed[<< c, kind >>]
                     + IF c \in {old.by} THEN 1 ELSE 0
      <3>1. << c, kind >> \in Objects
        BY DEF Objects
      <3>2. key_destructed[<< c, kind >>] \in Nat /\ value_destructed[<< c, kind >>] \in Nat
        BY <3>1 DEF Typed
      <3>3. /\ key_destructed'[<< c, kind >>] =
                 IF << c, kind >> \in {<< old.by, "key" >>}
                 THEN key_destructed[<< c, kind >>] + 1 ELSE key_destructed[<< c, kind >>]
            /\ value_destructed'[<< c, kind >>] =
                 IF << c, kind >> \in {<< old.by, "value" >>}
                 THEN value_destructed[<< c, kind >>] + 1 ELSE value_destructed[<< c, kind >>]
        BY <1>4, <3>1 DEF Count
      <3>4. /\ << c, kind >> \in {<< old.by, "key" >>} <=> c = old.by /\ kind = "key"
            /\ << c, kind >> \in {<< old.by, "value" >>} <=> c = old.by /\ kind = "value"
        OBVIOUS
      <3>5. QED
        BY <3>2, <3>3, <3>4
    <2>4. {} \cap moved = {} /\ moved' = moved \cup {}
      BY <1>4
    <2>5. revived' = revived
      BY <1>4
    <2>6. Moves({}, {old.by})
      BY <2>1, <2>2, <2>3, <2>4, <2>5 DEF Moves
    <2>7. QED
      BY <2>2, <2>6, OwnershipMoves
  <1>17. NodesStay'
    <2>1. "remove" \in mix
      BY <1>1 DEF NodesStay, Removing
    <2>2. QED
      BY <1>4, <2>1 DEF NodesStay, Typed, Getting, Removing
  <1>18. OnlyKnownMisuse'
    BY <1>4 DEF OnlyKnownMisuse
  <1>19. QED
    BY <1>12, <1>13, <1>14, <1>15, <1>16, <1>17, <1>18

\* What an expansion does to the table
LEMMA ExpandTable ==
  ASSUME Invariant, RemovedFit, NEW t \in Threads, Expand(t)
  PROVE  /\ buckets' \in [0..2*n_buckets-1 -> Seq(Node)]
         /\ Nodes \subseteq NodesOf(buckets') /\ NodesOf(buckets') \subseteq Nodes \cup unlinked
         /\ \A i \in 0..2*n_buckets-1 : \A j \in 1..Len(buckets'[i]) :
              NewIndex(Hash[buckets'[i][j].key]) = i
         /\ \A Tag : Distinct(buckets, Tag) /\ ToldApart(unlinked, Tag) => Distinct(buckets', Tag)
  <1>1. n_buckets \in Nat \ {0} /\ buckets \in [0..n_buckets-1 -> Seq(Node)]
    BY DEF Invariant, Typed
  <1>2. PICK passed \in SUBSET unlinked : IsExpanded(buckets', passed)
    BY DEF Expand, IsExpanded
  <1>3. IsFiniteSet(passed) /\ passed \subseteq Node
    BY FS_Subset DEF RemovedFit
  <1>4. /\ buckets' \in [0..2*n_buckets-1 -> Seq(Node)]
        /\ Nodes \subseteq NodesOf(buckets') /\ NodesOf(buckets') \subseteq Nodes \cup passed
        /\ \A i \in 0..2*n_buckets-1 : \A j \in 1..Len(buckets'[i]) :
             NewIndex(Hash[buckets'[i][j].key]) = i
        /\ \A Tag : Distinct(buckets, Tag) /\ ToldApart(passed, Tag) => Distinct(buckets', Tag)
    BY <1>1, <1>2, <1>3, ExpandFacts
  <1>5. \A Tag : ToldApart(unlinked, Tag) => ToldApart(passed, Tag)
    BY DEF ToldApart
  <1>6. QED
    BY <1>4, <1>5

LEMMA ExpandKeeps ==
  ASSUME Invariant, RemovedFit, NEW t \in Threads, Expand(t)
  PROVE  Invariant'
  <1> USE DEF Invariant
  <1>1. pc[t] = "copy" /\ lock = t /\ n_buckets \in Nat \ {0}
        /\ buckets \in [0..n_buckets-1 -> Seq(Node)]
    BY DEF Expand, LocksHeld, Typed
  <1>2. /\ n_buckets' = 2 * n_buckets /\ generation' = generation + 1
        /\ bucketLock' = [i \in 0..2*n_buckets-1 |-> NoThread]
        /\ pc' = [pc EXCEPT ![t] = "idle"] /\ lock' = NoThread
        /\ UNCHANGED << mix, size, key, calls, bucket, node_ref, register, answer, moved,
                        key_destructed, value_destructed, open, undefined >>
        /\ revived' = revived \cup (Held' \ Held)
    BY DEF Expand, NewLocks, Goto, locals, objects
  <1>3. /\ buckets' \in [0..2*n_buckets-1 -> Seq(Node)]
        /\ Nodes \subseteq NodesOf(buckets') /\ NodesOf(buckets') \subseteq Nodes \cup unlinked
        /\ \A Tag : Distinct(buckets, Tag) /\ ToldApart(unlinked, Tag) => Distinct(buckets', Tag)
    BY ExpandTable
  <1>4. Typed'
    <2>1. pc' \in [Threads -> Places]
      BY <1>2 DEF Typed, Places
    <2>2. n_buckets' \in Nat \ {0} /\ generation' \in Nat
      BY <1>1, <1>2 DEF Typed
    <2>3. bucketLock' \in [0..n_buckets'-1 -> Threads \cup {NoThread}]
      BY <1>2
    <2>4. buckets' \in [0..n_buckets'-1 -> Seq(Node)]
      BY <1>2, <1>3
    <2>5. size' \in 0..2^SizeBits-1
      BY <1>2 DEF Typed
    <2>6. QED
      BY <1>2, <2>1, <2>2, <2>3, <2>4, <2>5 DEF Typed
  <1>5. \A u \in Threads : bucket[u].gen <= generation' /\ IsStale(u)'
    <2> SUFFICES ASSUME NEW u \in Threads
                 PROVE  bucket[u].gen <= generation' /\ IsStale(u)'
      OBVIOUS
    <2>1. bucket[u].gen \in Nat /\ generation \in Nat /\ bucket[u].gen <= generation
      BY DEF Typed, PointersFit
    <2>2. QED
      BY <1>2, <2>1 DEF IsStale
  <1>6. PointersFit'
    BY <1>2, <1>5 DEF PointersFit
  <1>7. LocksHeld'
    <2>1. \A u \in Threads : pc'[u] \notin {"putBucket", "getBucket", "grow", "copy"}
      BY <1>1, <1>2 DEF Typed, LocksHeld
    <2>2. QED
      BY <1>5, <2>1 DEF LocksHeld, Scanning
  <1>8. EntriesAreOwned'
    <2>1. \A u \in Threads : pc'[u] \in Putting => u # t /\ pc[u] \in Putting
      BY <1>2 DEF Typed, Putting
    <2>2. ASSUME NEW x \in NodesOf(buckets') PROVE x.by \in moved' /\ x.id \in moved'
      BY <1>2, <1>3 DEF EntriesAreOwned, RemovedFit
    <2>3. Distinct(buckets', By) /\ Distinct(buckets', Id)
      BY <1>3 DEF EntriesAreOwned, RemovedFit
    <2>4. QED
      BY <1>2, <2>1, <2>2, <2>3 DEF EntriesAreOwned, Nodes, MyCall
  <1>9. ObjectsAreOwned'
    <2>1. Held' = { node.by : node \in NodesOf(buckets') }
      BY DEF Held, NodesOf
    <2>2. Held \subseteq Held'
      BY <1>3, <2>1, HeldNodes
    <2>3. \A c \in Calls \ revived' : c \in Calls \ revived /\ (c \in Held' <=> c \in Held)
      BY <1>2, <2>2
    <2>4. ASSUME NEW c \in Calls \ revived', NEW kind \in {"key", "value"}
          PROVE  key_destructed'[<< c, kind >>] + value_destructed'[<< c, kind >>] =
                   IF c \in moved' \ Held' THEN 1 ELSE 0
      <3>1. c \in moved' \ Held' <=> c \in moved \ Held
        BY <1>2, <2>3
      <3>2. key_destructed[<< c, kind >>] + value_destructed[<< c, kind >>] =
              IF c \in moved \ Held THEN 1 ELSE 0
        BY <2>3 DEF ObjectsAreOwned
      <3>3. QED
        BY <1>2, <3>1, <3>2
    <2>5. QED
      BY <2>4 DEF ObjectsAreOwned
  <1>10. generation' # 0 /\ generation' > 0
    BY <1>2 DEF Typed
  <1>11. NodesStay'
    BY <1>2, <1>10 DEF NodesStay, Typed, Getting, Removing
  <1>12. OnlyKnownMisuse'
    BY <1>10 DEF OnlyKnownMisuse
  <1>13. QED
    BY <1>4, <1>6, <1>7, <1>8, <1>9, <1>11, <1>12

LEMMA DestroyKeeps ==
  ASSUME Invariant, Destroy
  PROVE  Invariant'
  <1> USE DEF Invariant
  <1>1. /\ \A u \in Threads : pc[u] = "idle"
        /\ buckets' = [i \in DOMAIN buckets |-> << >>]
        /\ key_destructed' = Count(key_destructed, Held \X {"key"})
        /\ value_destructed' = Count(value_destructed, Held \X {"value"})
        /\ UNCHANGED << mix, size, n_buckets, generation, bucketLock, lock, pc, key, calls,
                        bucket, node_ref, register, answer, moved, unlinked, revived, undefined >>
    BY DEF Destroy, locals, expansion
  <1>2. /\ buckets' \in [0..n_buckets-1 -> Seq(Node)]
        /\ \A i \in 0..n_buckets-1 : buckets'[i] = << >>
        /\ DOMAIN buckets' = 0..n_buckets-1
    BY <1>1 DEF Typed
  <1>3. NodesOf(buckets') = {}
    <2>1. \A i \in 0..n_buckets-1 : ToSet(buckets'[i]) = {}
      BY <1>2 DEF ToSet
    <2>2. QED
      BY <1>2, <2>1 DEF NodesOf
  <1>4. Typed'
    <2>1. key_destructed' \in [Objects -> Nat]
      BY <1>1 DEF Typed, Count
    <2>2. value_destructed' \in [Objects -> Nat]
      BY <1>1 DEF Typed, Count
    <2>3. QED
      BY <1>1, <1>2, <2>1, <2>2 DEF Typed
  <1>5. PointersFit' /\ LocksHeld'
    BY <1>1 DEF PointersFit, LocksHeld, AtBucket, Scanning, IsStale
  <1>6. EntriesAreOwned'
    <2>1. Distinct(buckets', By) /\ Distinct(buckets', Id)
      BY <1>2 DEF Distinct
    <2>2. QED
      BY <1>1, <1>3, <2>1 DEF EntriesAreOwned, Nodes, Putting
  <1>7. ObjectsAreOwned'
    <2>1. Held' = (Held \ Held) \cup {}
      <3>1. Held' = { node.by : node \in NodesOf(buckets') }
        BY DEF Held, NodesOf
      <3>2. QED
        BY <1>3, <3>1
    <2>2. Held \subseteq moved
      BY HeldNodes DEF EntriesAreOwned
    <2>3. ASSUME NEW c \in Calls, NEW kind \in {"key", "value"}
          PROVE  key_destructed'[<< c, kind >>] + value_destructed'[<< c, kind >>] =
                   key_destructed[<< c, kind >>] + value_destructed[<< c, kind >>]
                     + IF c \in Held THEN 1 ELSE 0
      <3>1. << c, kind >> \in Objects
        BY DEF Objects
      <3>2. key_destructed[<< c, kind >>] \in Nat /\ value_destructed[<< c, kind >>] \in Nat
        BY <3>1 DEF Typed
      <3>3. /\ key_destructed'[<< c, kind >>] =
                 IF << c, kind >> \in Held \X {"key"}
                 THEN key_destructed[<< c, kind >>] + 1 ELSE key_destructed[<< c, kind >>]
            /\ value_destructed'[<< c, kind >>] =
                 IF << c, kind >> \in Held \X {"value"}
                 THEN value_destructed[<< c, kind >>] + 1 ELSE value_destructed[<< c, kind >>]
        BY <1>1, <3>1 DEF Count
      <3>4. /\ << c, kind >> \in Held \X {"key"} <=> c \in Held /\ kind = "key"
            /\ << c, kind >> \in Held \X {"value"} <=> c \in Held /\ kind = "value"
        OBVIOUS
      <3>5. QED
        BY <3>2, <3>3, <3>4
    <2>4. {} \cap moved = {} /\ moved' = moved \cup {} /\ Held \subseteq Held
      BY <1>1
    <2>5. revived' = revived
      BY <1>1
    <2>6. Moves({}, Held)
      BY <2>1, <2>2, <2>3, <2>4, <2>5 DEF Moves
    <2>7. QED
      BY <2>2, <2>6, OwnershipMoves
  <1>8. NodesStay'
    BY <1>1 DEF NodesStay, Getting, Removing
  <1>9. OnlyKnownMisuse'
    BY <1>1 DEF OnlyKnownMisuse
  <1>10. QED
    BY <1>4, <1>5, <1>6, <1>7, <1>8, <1>9

LEMMA StutterKeeps ==
  ASSUME Invariant, UNCHANGED vars
  PROVE  Invariant'
  <1> USE DEF Invariant
  <1>1. UNCHANGED << mix, size, n_buckets, buckets, generation, bucketLock, lock, pc, key, calls,
                     bucket, node_ref, register, answer, moved, key_destructed,
                     value_destructed, open, unlinked, revived, undefined >>
    BY DEF vars, table, locals, objects, expansion
  <1>2. Typed' /\ PointersFit' /\ NodesStay' /\ OnlyKnownMisuse'
    BY <1>1 DEF Typed, PointersFit, NodesStay, IsStale, NodeIsAlive, OnlyKnownMisuse
  <1>3. \A u \in Threads : Present(u)' = Present(u)
    BY <1>1, SamePresence DEF Chain
  <1>4. LocksHeld'
    BY <1>1, <1>3 DEF LocksHeld, IsStale
  <1>5. EntriesAreOwned'
    BY <1>1 DEF EntriesAreOwned, Nodes, MyCall, Distinct
  <1>6. Held' = Held
    BY <1>1 DEF Held
  <1>7. ObjectsAreOwned'
    BY <1>1, <1>6 DEF ObjectsAreOwned
  <1>8. QED
    BY <1>2, <1>4, <1>5, <1>7

LEMMA NextKeeps == Invariant /\ RemovedFit /\ [Next]_vars => Invariant'
  <1> SUFFICES ASSUME Invariant, RemovedFit, [Next]_vars PROVE Invariant'
    OBVIOUS
  <1>1. CASE UNCHANGED vars
    BY <1>1, StutterKeeps
  <1>2. CASE Destroy
    BY <1>2, DestroyKeeps
  <1>3. ASSUME NEW t \in Threads, ~undefined, Call(t) PROVE Invariant'
    BY <1>3, CallKeeps
  <1>4. ASSUME NEW t \in Threads, PutCall(t) PROVE Invariant'
    BY <1>4, PutLockKeeps, PutReplaceKeeps, PutAppendKeeps, ExpandLockKeeps, StaysSmallKeeps,
       GrowsKeeps, ExpandKeeps DEF PutCall
  <1>5. ASSUME NEW t \in Threads, RemoveCall(t) PROVE Invariant'
    BY <1>5, RemoveLockKeeps, RemoveBucketKeeps, RemoveAbsentKeeps, RemoveFoundKeeps,
       RemoveEntryKeeps DEF RemoveCall
  <1>6. ASSUME NEW t \in Threads, GetCall(t) PROVE Invariant'
    BY <1>6, GetLockKeeps, GetBucketKeeps, GetAbsentKeeps, GetFoundKeeps, GetValueKeeps
       DEF GetCall
  <1>7. ASSUME NEW t \in Threads, UseFreedMemory(t) PROVE Invariant'
    BY <1>7, UseFreedMemoryKeeps
  <1>8. QED
    BY <1>1, <1>2, <1>3, <1>4, <1>5, <1>6, <1>7 DEF Next, Step, Stopped

-----------------------------------------------------------------------------
(* What is removed while the table is copied                               *)

LEMMA NoneRemoved ==
  ASSUME unlinked' = {}
  PROVE  RemovedFit'
  BY FS_EmptySet DEF RemovedFit, ToldApart

LEMMA InitRemoved == Init => RemovedFit
  BY FS_EmptySet DEF Init, RemovedFit, ToldApart

\* A step that leaves the chains and the objects alone and ends no expansion
LEMMA QuietRemoved ==
  ASSUME RemovedFit, UNCHANGED << mix, buckets, moved, unlinked >>,
         \A u \in Threads : pc[u] = "copy" => pc'[u] = "copy"
  PROVE  RemovedFit'
  <1>1. Nodes' = Nodes
    BY DEF Nodes
  <1>2. Expanding => Expanding'
    BY DEF Expanding
  <1>3. QED
    BY <1>1, <1>2 DEF RemovedFit, ToldApart

\* Nothing was removed since the expansion under way began, because there is none.
LEMMA PutsSeeNone ==
  ASSUME Invariant, RemovedFit, \A u \in Threads : pc[u] = "copy" => FALSE
  PROVE  unlinked = {}
  BY DEF RemovedFit, Expanding

LEMMA LockedOut ==
  ASSUME Invariant, RemovedFit, NEW t \in Threads, pc[t] = "putBucket"
  PROVE  unlinked = {}
  <1>1. ASSUME NEW u \in Threads, pc[u] = "copy" PROVE FALSE
    <2>1. lock = u /\ lock = t
      BY <1>1 DEF Invariant, LocksHeld
    <2>2. QED
      BY <1>1, <2>1
  <1>2. QED
    BY <1>1, PutsSeeNone

\* What has been removed stays apart from the table and from what is removed next.
LEMMA RemovedApart ==
  ASSUME Invariant, NEW Tag, Distinct(buckets, Tag), ToldApart(unlinked, Tag),
         NEW t \in Threads, RemoveEntry(t)
  PROVE  /\ \A x \in unlinked' : \A y \in NodesOf(buckets') : Tag[x] # Tag[y]
         /\ \A x, y \in unlinked' : Tag[x] = Tag[y] => x = y
  <1>1. PICK old : old = MyNode(t)
    OBVIOUS
  <1>2. old \in Nodes /\ NodesOf(buckets') = Nodes \ {old}
    BY <1>1, RemoveEntryTable
  <1>3. unlinked' \subseteq unlinked \cup {old}
    BY <1>1 DEF RemoveEntry
  <1>4. ASSUME NEW x \in Nodes, Tag[x] = Tag[old] PROVE x = old
    <2>1. n_buckets \in Nat /\ buckets \in [0..n_buckets-1 -> Seq(Node)]
      BY DEF Invariant, Typed
    <2>2. QED
      BY <1>2, <1>4, <2>1, NodesApart DEF Nodes
  <1>5. /\ \A x \in unlinked : \A y \in Nodes : Tag[x] # Tag[y]
        /\ \A x, y \in unlinked : Tag[x] = Tag[y] => x = y
    BY DEF ToldApart
  <1>6. QED
    BY <1>2, <1>3, <1>4, <1>5

LEMMA RemoveEntryRemoved ==
  ASSUME Invariant, RemovedFit, NEW t \in Threads, RemoveEntry(t)
  PROVE  RemovedFit'
  <1>1. PICK old : old = MyNode(t)
    OBVIOUS
  <1>2. old \in Nodes /\ old \in Node /\ pc[t] = "removeEntry"
    BY <1>1, RemoveEntryTable
  <1>3. /\ unlinked' = IF Expanding THEN unlinked \cup {old} ELSE unlinked
        /\ UNCHANGED << mix, moved >> /\ pc' = [pc EXCEPT ![t] = "idle"]
    BY <1>1 DEF RemoveEntry, Goto
  <1>4. unlinked' = unlinked \/ (Expanding /\ unlinked' = unlinked \cup {old})
    BY <1>3
  <1>5. Expanding => Expanding'
    BY <1>2, <1>3 DEF Expanding, Invariant, Typed
  <1>6. "remove" \in mix
    BY <1>2 DEF Invariant, NodesStay, Removing
  <1>7. unlinked' \subseteq Node /\ IsFiniteSet(unlinked')
    BY <1>2, <1>4, FS_AddElement DEF RemovedFit
  <1>8. old.by \in moved /\ old.id \in moved
    BY <1>2 DEF Invariant, EntriesAreOwned
  <1>9. \A x \in unlinked' : x.by \in moved' /\ x.id \in moved'
    BY <1>3, <1>4, <1>8 DEF RemovedFit
  <1>10. ToldApart(unlinked, By)' /\ ToldApart(unlinked, Id)'
    <2>1. Distinct(buckets, By) /\ Distinct(buckets, Id)
      BY DEF Invariant, EntriesAreOwned
    <2>2. ToldApart(unlinked, By) /\ ToldApart(unlinked, Id)
      BY DEF RemovedFit
    <2>3. QED
      BY <2>1, <2>2, RemovedApart DEF ToldApart, Nodes
  <1>11. unlinked' # {} => Expanding' /\ "remove" \in mix'
    BY <1>3, <1>4, <1>5, <1>6 DEF RemovedFit
  <1>12. QED
    BY <1>7, <1>9, <1>10, <1>11 DEF RemovedFit

LEMMA NextRemoved == Invariant /\ RemovedFit /\ [Next]_vars => RemovedFit'
  <1> SUFFICES ASSUME Invariant, RemovedFit, [Next]_vars PROVE RemovedFit'
    OBVIOUS
  <1> USE DEF Goto, table, locals, objects, expansion
  <1>t. pc \in [Threads -> Places]
    BY DEF Invariant, Typed
  <1>1. CASE UNCHANGED vars
    BY <1>1, QuietRemoved DEF vars
  <1>2. CASE Destroy
    <2>1. unlinked = {}
      BY <1>2, PutsSeeNone DEF Destroy
    <2>2. QED
      BY <1>2, <2>1, NoneRemoved DEF Destroy
  <1>3. ASSUME NEW t \in Threads, Call(t) PROVE RemovedFit'
    BY <1>t, <1>3, QuietRemoved DEF Call
  <1>4. ASSUME NEW t \in Threads, PutCall(t) PROVE RemovedFit'
    <2>1. CASE PutLock(t)
      BY <1>t, <2>1, QuietRemoved DEF PutLock
    <2>2. CASE PutReplace(t) \/ PutAppend(t)
      <3>1. unlinked = {}
        BY <2>2, LockedOut DEF PutReplace, PutAppend
      <3>2. QED
        BY <2>2, <3>1, NoneRemoved DEF PutReplace, PutAppend
    <2>3. CASE ExpandLock(t)
      BY <1>t, <2>3, QuietRemoved DEF ExpandLock
    <2>4. CASE StaysSmall(t) \/ Grows(t)
      BY <1>t, <2>4, QuietRemoved DEF StaysSmall, Grows
    <2>5. CASE Expand(t)
      BY <2>5, NoneRemoved DEF Expand
    <2>6. QED
      BY <1>4, <2>1, <2>2, <2>3, <2>4, <2>5 DEF PutCall
  <1>5. ASSUME NEW t \in Threads, RemoveCall(t) PROVE RemovedFit'
    <2>1. CASE RemoveLock(t) \/ RemoveBucket(t)
      BY <1>t, <2>1, QuietRemoved DEF RemoveLock, RemoveBucket
    <2>2. CASE RemoveAbsent(t) \/ RemoveFound(t)
      BY <1>t, <2>2, QuietRemoved DEF RemoveAbsent, RemoveFound
    <2>3. CASE RemoveEntry(t)
      BY <2>3, RemoveEntryRemoved
    <2>4. QED
      BY <1>5, <2>1, <2>2, <2>3 DEF RemoveCall
  <1>6. ASSUME NEW t \in Threads, GetCall(t) PROVE RemovedFit'
    <2>1. CASE GetLock(t) \/ GetBucket(t)
      BY <1>t, <2>1, QuietRemoved DEF GetLock, GetBucket
    <2>2. CASE GetAbsent(t) \/ GetFound(t) \/ GetValue(t)
      BY <1>t, <2>2, QuietRemoved DEF GetAbsent, GetFound, GetValue
    <2>3. QED
      BY <1>6, <2>1, <2>2 DEF GetCall
  <1>7. ASSUME NEW t \in Threads, UseFreedMemory(t) PROVE RemovedFit'
    BY <1>7, QuietRemoved DEF UseFreedMemory
  <1>8. QED
    BY <1>1, <1>2, <1>3, <1>4, <1>5, <1>6, <1>7 DEF Next, Step, Stopped

LEMMA InvariantHolds == Spec => [](Invariant /\ RemovedFit)
  <1>1. Init => Invariant /\ RemovedFit
    BY InitHolds, InitRemoved
  <1>2. (Invariant /\ RemovedFit) /\ [Next]_vars => (Invariant /\ RemovedFit)'
    BY NextKeeps, NextRemoved
  <1>3. QED
    BY <1>1, <1>2, PTL DEF Spec

-----------------------------------------------------------------------------
(* Where lookups find the entries                                          *)

\* The entries of n chains are where a lookup of their keys looks for them.
Placed(chains, n) ==
  \A i \in 0..n-1 : \A j \in 1..Len(chains[i]) :
    CalculateIndex(n, Hash[chains[i][j].key]) = i

\* In a narrow table every entry is in its bucket and no two have the same key.
EntriesFit ==
  TableIsNarrow =>
    Placed(buckets, n_buckets) /\ Distinct(buckets, Key) /\ ToldApart(unlinked, Key)

Lookups == EntriesFit /\ RefsFit

\* A search that finds nothing in its bucket would find nothing in another one.
LEMMA AbsentKey ==
  ASSUME Typed, PointersFit, NEW t \in Threads, pc[t] \in AtBucket, ~IsStale(t), ~Present(t),
         Placed(buckets, n_buckets), NEW x \in Nodes
  PROVE  x.key # key[t]
  <1>1. n_buckets \in Nat /\ buckets \in [0..n_buckets-1 -> Seq(Node)]
    BY DEF Typed
  <1>2. \A y : y \in NodesOf(buckets) <=>
                 \E i \in 0..n_buckets-1 : \E j \in 1..Len(buckets[i]) : y = buckets[i][j]
    BY <1>1, NodesInSlots
  <1>3. PICK i \in 0..n_buckets-1 : \E j \in 1..Len(buckets[i]) : x = buckets[i][j]
    BY <1>2 DEF Nodes
  <1>4. PICK j \in 1..Len(buckets[i]) : x = buckets[i][j]
    BY <1>3
  <1>5. CalculateIndex(n_buckets, Hash[x.key]) = i
    BY <1>4 DEF Placed
  <1>6. bucket[t].index = CalculateIndex(n_buckets, Hash[key[t]])
    BY DEF PointersFit
  <1>7. Chain(t) \in Seq(Node)
    BY MyBucket
  <1>8. \A l \in 1..Len(Chain(t)) : Chain(t)[l].key # key[t]
    BY <1>7, PositionFacts
  <1>9. ASSUME x.key = key[t] PROVE FALSE
    <2>1. i = bucket[t].index
      BY <1>5, <1>6, <1>9
    <2>2. Chain(t) = buckets[i]
      BY <2>1 DEF Chain
    <2>3. buckets[i][j].key # key[t]
      BY <1>8, <2>2
    <2>4. QED
      BY <1>4, <1>9, <2>3
  <1>10. QED
    BY <1>9

LEMMA InitLookups == Init => Lookups
  <1> SUFFICES ASSUME Init PROVE Lookups
    OBVIOUS
  <1>1. \A i \in 0..n_buckets-1 : buckets[i] = << >>
    BY DEF Init
  <1>2. DOMAIN buckets = 0..n_buckets-1
    BY DEF Init
  <1>3. EntriesFit
    BY <1>1, <1>2 DEF Init, EntriesFit, Placed, Distinct, ToldApart
  <1>4. RefsFit
    BY DEF Init, RefsFit
  <1>5. QED
    BY <1>3, <1>4 DEF Lookups

\* A step that leaves the chains alone and leads no getter to a node
LEMMA QuietLookups ==
  ASSUME Lookups, UNCHANGED << n_buckets, buckets, moved, key, node_ref, unlinked >>,
         \A u \in Threads : pc'[u] = "getValue" => pc[u] = "getValue"
  PROVE  Lookups'
  <1>1. EntriesFit'
    BY DEF Lookups, EntriesFit, TableIsNarrow, Placed, Distinct, ToldApart, Nodes
  <1>2. RefsFit'
    BY DEF Lookups, RefsFit, Nodes
  <1>3. QED
    BY <1>1, <1>2 DEF Lookups

LEMMA CallLookups ==
  ASSUME Invariant, Lookups, NEW t \in Threads, Call(t)
  PROVE  Lookups'
  <1>1. PICK op \in mix : pc' = [pc EXCEPT ![t] = op]
    BY DEF Call, Goto
  <1>2. op # "getValue"
    BY DEF Invariant, Typed
  <1>3. \A u \in Threads : pc'[u] = "getValue" => u # t /\ pc[u] = "getValue" /\ key'[u] = key[u]
    BY <1>1, <1>2 DEF Invariant, Typed, Call
  <1>4. EntriesFit'
    BY DEF Lookups, EntriesFit, TableIsNarrow, Placed, Distinct, ToldApart,
      Nodes, Call, table, expansion
  <1>5. RefsFit'
    BY <1>3 DEF Lookups, RefsFit, Nodes, Call, table, objects, expansion
  <1>6. QED
    BY <1>4, <1>5 DEF Lookups

LEMMA PutReplaceLookups ==
  ASSUME Invariant, RemovedFit, Lookups, NEW t \in Threads, PutReplace(t)
  PROVE  Lookups'
  <1> DEFINE old == MyNode(t)
             new == Replacement(t)
             b == bucket[t].index
             p == Position(t)
  <1>1. /\ old \in Nodes /\ old \in Node /\ old.key = key[t] /\ old = buckets[b][p]
        /\ new \in Node /\ new.id = old.id /\ new.key = key[t]
        /\ Swapped(buckets', buckets, n_buckets, b, p, new)
        /\ NodesOf(buckets') = (Nodes \ {old}) \cup {new}
    BY PutReplaceTable
  <1>2. /\ n_buckets \in Nat /\ buckets \in [0..n_buckets-1 -> Seq(Node)]
        /\ n_buckets' = n_buckets
    BY DEF Invariant, Typed, PutReplace
  <1>u. unlinked' = {}
    BY LockedOut DEF PutReplace, expansion
  <1>3. /\ UNCHANGED << key, node_ref >> /\ moved \subseteq moved'
        /\ \A u \in Threads : pc'[u] = "getValue" => pc[u] = "getValue"
    BY DEF PutReplace, locals, Goto, Invariant, Typed
  <1> HIDE DEF old, new, b, p
  <1>4. Nodes \subseteq Node
    BY <1>2, NodesInSlots DEF Nodes
  <1>5. ASSUME TableIsNarrow PROVE Placed(buckets', n_buckets)
    <2>1. Placed(buckets, n_buckets)
      BY <1>5 DEF Lookups, EntriesFit
    <2>2. ASSUME NEW i \in 0..n_buckets-1, NEW j \in 1..Len(buckets'[i])
          PROVE  CalculateIndex(n_buckets, Hash[buckets'[i][j].key]) = i
      <3>1. j \in 1..Len(buckets[i]) /\ buckets'[i][j].key = buckets[i][j].key
        <4>1. Len(buckets'[i]) = Len(buckets[i])
          BY <1>1 DEF Swapped
        <4>2. CASE i # b \/ j # p
          BY <1>1, <4>1, <4>2 DEF Swapped
        <4>3. CASE i = b /\ j = p
          BY <1>1, <4>1, <4>3 DEF Swapped
        <4>4. QED
          BY <4>2, <4>3
      <3>2. QED
        BY <2>1, <3>1 DEF Placed
    <2>3. QED
      BY <2>2 DEF Placed
  <1>6. ASSUME TableIsNarrow PROVE Distinct(buckets', Key)
    <2>1. Distinct(buckets, Key)
      BY <1>6 DEF Lookups, EntriesFit
    <2>2. ASSUME NEW x \in NodesOf(buckets), Key[x] = Key[new] PROVE x = buckets[b][p]
      <3>1. Key[new] = Key[old]
        BY <1>1 DEF Key
      <3>2. x = old
        BY <1>1, <1>2, <2>1, <2>2, <3>1, NodesApart DEF Nodes
      <3>3. QED
        BY <1>1, <3>2
    <2>3. QED
      BY <1>1, <2>1, <2>2, SwapDistinct
  <1>7. EntriesFit'
    BY <1>2, <1>5, <1>6, <1>u DEF EntriesFit, TableIsNarrow, ToldApart
  <1>8. RefsFit'
    <2>1. ASSUME NEW u \in Threads, pc'[u] = "getValue"
          PROVE  /\ node_ref'[u].id \in moved'
                 /\ \A x \in NodesOf(buckets') \cup unlinked' :
                      x.id = node_ref'[u].id => x.key = key'[u]
      <3>1. /\ node_ref[u].id \in moved
            /\ \A x \in Nodes : x.id = node_ref[u].id => x.key = key[u]
        BY <1>3, <2>1 DEF Lookups, RefsFit
      <3>2. QED
        BY <1>1, <1>3, <1>u, <3>1
    <2>2. QED
      BY <2>1 DEF RefsFit, Nodes
  <1>9. QED
    BY <1>7, <1>8 DEF Lookups

LEMMA PutAppendLookups ==
  ASSUME Invariant, RemovedFit, Lookups, NEW t \in Threads, PutAppend(t)
  PROVE  Lookups'
  <1> DEFINE new == NewNode(t)
             b == bucket[t].index
  <1>1. /\ pc[t] \in AtBucket /\ ~IsStale(t) /\ MyCall(t) \notin moved
        /\ new \in Node /\ new.id = MyCall(t) /\ new.key = key[t]
        /\ Extended(buckets', buckets, n_buckets, b, new)
        /\ NodesOf(buckets') = Nodes \cup {new}
    BY PutAppendTable
  <1>2. /\ n_buckets \in Nat /\ buckets \in [0..n_buckets-1 -> Seq(Node)]
        /\ n_buckets' = n_buckets /\ ~Present(t)
    BY DEF Invariant, Typed, PutAppend
  <1>u. unlinked' = {}
    BY LockedOut DEF PutAppend, expansion
  <1>3. /\ UNCHANGED << key, node_ref >> /\ moved \subseteq moved'
        /\ \A u \in Threads : pc'[u] = "getValue" => pc[u] = "getValue"
    BY DEF PutAppend, locals, Goto, Invariant, Typed
  <1>4. b = CalculateIndex(n_buckets, Hash[key[t]])
    BY <1>1 DEF Invariant, PointersFit
  <1> HIDE DEF new, b
  <1>5. Nodes \subseteq Node
    BY <1>2, NodesInSlots DEF Nodes
  <1>6. ASSUME TableIsNarrow PROVE Placed(buckets', n_buckets)
    <2>1. Placed(buckets, n_buckets)
      BY <1>6 DEF Lookups, EntriesFit
    <2>2. ASSUME NEW i \in 0..n_buckets-1, NEW j \in 1..Len(buckets'[i])
          PROVE  CalculateIndex(n_buckets, Hash[buckets'[i][j].key]) = i
      <3>1. CASE j \in 1..Len(buckets[i])
        <4>1. buckets'[i][j] = buckets[i][j]
          BY <1>1, <3>1 DEF Extended
        <4>2. QED
          BY <2>1, <3>1, <4>1 DEF Placed
      <3>2. CASE j \notin 1..Len(buckets[i])
        <4>1. i = b /\ j = Len(buckets[b]) + 1
          <5>1. buckets[i] \in Seq(Node) /\ Len(buckets[i]) \in Nat
            BY <1>2
          <5>2. Len(buckets'[i]) = IF i = b THEN Len(buckets[b]) + 1 ELSE Len(buckets[i])
            BY <1>1 DEF Extended
          <5>3. QED
            BY <3>2, <5>1, <5>2
        <4>2. buckets'[i][j] = new
          BY <1>1, <4>1 DEF Extended
        <4>3. QED
          BY <1>1, <1>4, <4>1, <4>2
      <3>3. QED
        BY <3>1, <3>2
    <2>3. QED
      BY <2>2 DEF Placed
  <1>7. ASSUME TableIsNarrow PROVE Distinct(buckets', Key)
    <2>1. Distinct(buckets, Key) /\ Placed(buckets, n_buckets)
      BY <1>7 DEF Lookups, EntriesFit
    <2>2. ASSUME NEW x \in NodesOf(buckets) PROVE Key[x] # Key[new]
      <3>1. x \in Nodes /\ x \in Node
        BY <1>5 DEF Nodes
      <3>2. x.key # key[t]
        BY <1>1, <1>2, <2>1, <3>1, AbsentKey DEF Invariant
      <3>3. QED
        BY <1>1, <3>1, <3>2 DEF Key
    <2>3. QED
      BY <1>1, <2>1, <2>2, ExtendFacts
  <1>8. EntriesFit'
    BY <1>2, <1>6, <1>7, <1>u DEF EntriesFit, TableIsNarrow, ToldApart
  <1>9. RefsFit'
    <2>1. ASSUME NEW u \in Threads, pc'[u] = "getValue"
          PROVE  /\ node_ref'[u].id \in moved'
                 /\ \A x \in NodesOf(buckets') \cup unlinked' :
                      x.id = node_ref'[u].id => x.key = key'[u]
      <3>1. /\ node_ref[u].id \in moved
            /\ \A x \in Nodes : x.id = node_ref[u].id => x.key = key[u]
        BY <1>3, <2>1 DEF Lookups, RefsFit
      <3>2. QED
        BY <1>1, <1>3, <1>u, <3>1
    <2>2. QED
      BY <2>1 DEF RefsFit, Nodes
  <1>10. QED
    BY <1>8, <1>9 DEF Lookups

LEMMA RemoveEntryLookups ==
  ASSUME Invariant, Lookups, NEW t \in Threads, RemoveEntry(t)
  PROVE  Lookups'
  <1> DEFINE old == MyNode(t)
             b == bucket[t].index
             p == Position(t)
  <1>1. /\ Shortened(buckets', buckets, n_buckets, b, p)
        /\ NodesOf(buckets') = Nodes \ {old} /\ old \in Nodes
    BY RemoveEntryTable
  <1>u. unlinked' \subseteq unlinked \cup {old}
    BY DEF RemoveEntry
  <1>2. /\ n_buckets \in Nat /\ buckets \in [0..n_buckets-1 -> Seq(Node)]
        /\ n_buckets' = n_buckets
    BY DEF Invariant, Typed, RemoveEntry
  <1>3. /\ UNCHANGED << key, node_ref, moved >>
        /\ \A u \in Threads : pc'[u] = "getValue" => pc[u] = "getValue"
    BY DEF RemoveEntry, locals, Goto, Invariant, Typed
  <1> HIDE DEF old, b, p
  <1>4. ASSUME TableIsNarrow PROVE Placed(buckets', n_buckets)
    <2>1. Placed(buckets, n_buckets)
      BY <1>4 DEF Lookups, EntriesFit
    <2>2. ASSUME NEW i \in 0..n_buckets-1, NEW j \in 1..Len(buckets'[i])
          PROVE  CalculateIndex(n_buckets, Hash[buckets'[i][j].key]) = i
      <3>1. \E l \in 1..Len(buckets[i]) : buckets'[i][j] = buckets[i][l]
        <4>1. CASE i # b
          BY <1>1, <4>1 DEF Shortened
        <4>2. CASE i = b
          <5>1. buckets[b] \in Seq(Node) /\ Len(buckets[b]) \in Nat
            BY <1>1 DEF Shortened
          <5>2. j \in 1..Len(buckets[b])-1
            BY <1>1, <4>2 DEF Shortened
          <5>3. j \in 1..Len(buckets[b]) /\ j+1 \in 1..Len(buckets[b])
            BY <5>1, <5>2
          <5>4. buckets'[b][j] = buckets[b][j] \/ buckets'[b][j] = buckets[b][j+1]
            BY <1>1, <5>2 DEF Shortened
          <5>5. QED
            BY <4>2, <5>3, <5>4
        <4>3. QED
          BY <4>1, <4>2
      <3>2. QED
        BY <2>1, <3>1 DEF Placed
    <2>3. QED
      BY <2>2 DEF Placed
  <1>5. ASSUME TableIsNarrow PROVE Distinct(buckets', Key)
    <2>1. Distinct(buckets, Key)
      BY <1>5 DEF Lookups, EntriesFit
    <2>2. QED
      BY <1>1, <2>1, ShortenFacts
  <1>a. ASSUME TableIsNarrow PROVE ToldApart(unlinked, Key)'
    <2>1. Distinct(buckets, Key) /\ ToldApart(unlinked, Key)
      BY <1>a DEF Lookups, EntriesFit
    <2>2. QED
      BY <2>1, RemovedApart DEF ToldApart, Nodes
  <1>6. EntriesFit'
    BY <1>2, <1>4, <1>5, <1>a DEF EntriesFit, TableIsNarrow
  <1>7. RefsFit'
    <2>1. ASSUME NEW u \in Threads, pc'[u] = "getValue"
          PROVE  /\ node_ref'[u].id \in moved'
                 /\ \A x \in NodesOf(buckets') \cup unlinked' :
                      x.id = node_ref'[u].id => x.key = key'[u]
      <3>1. /\ node_ref[u].id \in moved
            /\ \A x \in Nodes \cup unlinked : x.id = node_ref[u].id => x.key = key[u]
        BY <1>3, <2>1 DEF Lookups, RefsFit
      <3>2. QED
        BY <1>1, <1>3, <1>u, <3>1
    <2>2. QED
      BY <2>1 DEF RefsFit, Nodes
  <1>8. QED
    BY <1>6, <1>7 DEF Lookups

LEMMA ExpandLookups ==
  ASSUME Invariant, RemovedFit, Lookups, NEW t \in Threads, Expand(t)
  PROVE  Lookups'
  <1>1. n_buckets \in Nat \ {0} /\ buckets \in [0..n_buckets-1 -> Seq(Node)]
    BY DEF Invariant, Typed
  <1>2. /\ n_buckets' = 2 * n_buckets /\ unlinked' = {}
        /\ UNCHANGED << key, node_ref, moved >>
        /\ \A u \in Threads : pc'[u] = "getValue" => pc[u] = "getValue"
    BY DEF Expand, locals, objects, Goto, Invariant, Typed
  <1>3. /\ buckets' \in [0..2*n_buckets-1 -> Seq(Node)]
        /\ NodesOf(buckets') \subseteq Nodes \cup unlinked
        /\ \A i \in 0..2*n_buckets-1 : \A j \in 1..Len(buckets'[i]) :
             NewIndex(Hash[buckets'[i][j].key]) = i
        /\ \A Tag : Distinct(buckets, Tag) /\ ToldApart(unlinked, Tag) => Distinct(buckets', Tag)
    BY ExpandTable
  <1>4. ASSUME TableIsNarrow' PROVE Placed(buckets', n_buckets') /\ Distinct(buckets', Key)
    <2> DEFINE m == 2 * n_buckets
    <2>1. m \in Nat \ {0} /\ 2^IntBits % m = 0
      BY <1>1, <1>2, <1>4 DEF TableIsNarrow
    <2>2. TableIsNarrow
      <3>1. 2^IntBits \in Int
        BY HashMapAssumption
      <3>2. QED
        BY <1>1, <2>1, <3>1, HalfDivides DEF TableIsNarrow
    <2>3. Distinct(buckets', Key)
      BY <1>3, <2>2 DEF Lookups, EntriesFit
    <2>4. ASSUME NEW i \in 0..m-1, NEW j \in 1..Len(buckets'[i])
          PROVE  CalculateIndex(m, Hash[buckets'[i][j].key]) = i
      <3>1. buckets'[i] \in Seq(Node)
        BY <1>3
      <3>2. buckets'[i][j] \in Node
        BY <3>1
      <3>3. Hash[buckets'[i][j].key] \in Nat
        BY <3>2, HashMapAssumption DEF Node
      <3>4. NewIndex(Hash[buckets'[i][j].key]) = i
        BY <1>3
      <3> DEFINE h == Hash[buckets'[i][j].key]
      <3>5. h \in Nat /\ ThroughInt(h) % m = i
        BY <3>3, <3>4 DEF NewIndex, CalculateIndex
      <3> HIDE DEF h, m
      <3>6. h % m = i
        BY <2>1, <3>5, IntIsEnough
      <3>7. QED
        BY <3>6 DEF CalculateIndex, h
    <2>5. n_buckets' = m
      BY <1>2
    <2> HIDE DEF m
    <2>6. Placed(buckets', m)
      BY <2>4 DEF Placed
    <2>7. QED
      BY <2>3, <2>5, <2>6
  <1>5. EntriesFit'
    BY <1>2, <1>4 DEF EntriesFit, ToldApart
  <1>6. RefsFit'
    BY <1>2, <1>3 DEF Lookups, RefsFit, Nodes
  <1>7. QED
    BY <1>5, <1>6 DEF Lookups

LEMMA GetFoundLookups ==
  ASSUME Invariant, RemovedFit, Lookups, NEW t \in Threads, GetFound(t)
  PROVE  Lookups'
  <1>1. EntriesFit'
    BY DEF Lookups, EntriesFit, TableIsNarrow, Placed, Distinct, ToldApart,
      Nodes, GetFound, expansion
  <1>2. MyNode(t) \in Nodes /\ MyNode(t) \in Node /\ MyNode(t).key = key[t]
    BY MyBucket DEF GetFound, Invariant, AtBucket, Scanning
  <1>3. /\ UNCHANGED << key, moved, buckets, unlinked >>
        /\ node_ref' = [node_ref EXCEPT ![t] = [gen |-> generation, id |-> MyNode(t).id]]
        /\ \A u \in Threads : u # t => pc'[u] = pc[u]
    BY DEF GetFound, objects, expansion, Goto, Invariant, Typed
  <1>4. ASSUME NEW u \in Threads, pc'[u] = "getValue"
        PROVE  /\ node_ref'[u].id \in moved
               /\ \A x \in Nodes \cup unlinked : x.id = node_ref'[u].id => x.key = key[u]
    <2>1. CASE u # t
      BY <1>3, <1>4, <2>1 DEF Lookups, RefsFit, Invariant, Typed
    <2>2. CASE u = t
      <3>1. node_ref'[t].id = MyNode(t).id
        BY <1>3 DEF Invariant, Typed
      <3>2. MyNode(t).id \in moved
        BY <1>2 DEF Invariant, EntriesAreOwned
      <3>3. ASSUME NEW x \in Nodes, x.id = MyNode(t).id PROVE x = MyNode(t)
        <4>1. n_buckets \in Nat /\ buckets \in [0..n_buckets-1 -> Seq(Node)]
              /\ Distinct(buckets, Id)
          BY DEF Invariant, Typed, EntriesAreOwned
        <4>2. x \in Node
          BY <4>1, NodesInSlots DEF Nodes
        <4>3. Id[x] = Id[MyNode(t)]
          BY <1>2, <3>3, <4>2 DEF Id
        <4>4. QED
          BY <1>2, <4>1, <4>3, NodesApart DEF Nodes
      <3>4. ASSUME NEW x \in unlinked, x.id = MyNode(t).id PROVE FALSE
        <4>1. x \in Node /\ \A y \in Nodes : Id[x] # Id[y]
          BY DEF RemovedFit, ToldApart
        <4>2. Id[x] = Id[MyNode(t)]
          BY <1>2, <3>4, <4>1 DEF Id
        <4>3. QED
          BY <1>2, <4>1, <4>2
      <3>5. QED
        BY <1>2, <2>2, <3>1, <3>2, <3>3, <3>4
    <2>3. QED
      BY <2>1, <2>2
  <1>5. RefsFit'
    BY <1>3, <1>4 DEF RefsFit, Nodes
  <1>6. QED
    BY <1>1, <1>5 DEF Lookups

LEMMA DestroyLookups ==
  ASSUME Invariant, RemovedFit, Lookups, Destroy
  PROVE  Lookups'
  <1>1. /\ DOMAIN buckets' = 0..n_buckets-1 /\ \A i \in 0..n_buckets-1 : buckets'[i] = << >>
        /\ n_buckets' = n_buckets
    BY DEF Destroy, Invariant, Typed
  <1>u. unlinked' = {}
    BY PutsSeeNone DEF Destroy, expansion
  <1>2. EntriesFit'
    BY <1>1, <1>u DEF EntriesFit, Placed, Distinct, ToldApart
  <1>3. RefsFit'
    BY DEF Destroy, RefsFit
  <1>4. QED
    BY <1>2, <1>3 DEF Lookups

LEMMA NextLookups == Invariant /\ RemovedFit /\ Lookups /\ [Next]_vars => Lookups'
  <1> SUFFICES ASSUME Invariant, RemovedFit, Lookups, [Next]_vars PROVE Lookups'
    OBVIOUS
  <1> USE DEF expansion
  <1>1. CASE UNCHANGED vars
    BY <1>1, QuietLookups DEF vars, table, locals, objects
  <1>2. CASE Destroy
    BY <1>2, DestroyLookups
  <1>3. ASSUME NEW t \in Threads, Call(t) PROVE Lookups'
    BY <1>3, CallLookups
  <1>4. ASSUME NEW t \in Threads, PutCall(t) PROVE Lookups'
    <2>1. CASE PutLock(t)
      BY <2>1, QuietLookups DEF PutLock, Goto, table, objects, Invariant, Typed
    <2>2. CASE ExpandLock(t)
      BY <2>2, QuietLookups DEF ExpandLock, Goto, table, objects, Invariant, Typed
    <2>3. CASE StaysSmall(t) \/ Grows(t)
      BY <2>3, QuietLookups DEF StaysSmall, Grows, Goto, table, locals, objects, Invariant, Typed
    <2>4. QED
      BY <1>4, <2>1, <2>2, <2>3, PutReplaceLookups, PutAppendLookups, ExpandLookups DEF PutCall
  <1>5. ASSUME NEW t \in Threads, RemoveCall(t) PROVE Lookups'
    <2>1. CASE RemoveLock(t)
      BY <2>1, QuietLookups DEF RemoveLock, Goto, table, objects, Invariant, Typed
    <2>2. CASE RemoveBucket(t)
      BY <2>2, QuietLookups DEF RemoveBucket, Goto, locals, objects, Invariant, Typed
    <2>3. CASE RemoveAbsent(t)
      BY <2>3, QuietLookups DEF RemoveAbsent, Goto, locals, objects, Invariant, Typed
    <2>4. CASE RemoveFound(t)
      BY <2>4, QuietLookups DEF RemoveFound, Goto, table, objects, Invariant, Typed
    <2>5. QED
      BY <1>5, <2>1, <2>2, <2>3, <2>4, RemoveEntryLookups DEF RemoveCall
  <1>6. ASSUME NEW t \in Threads, GetCall(t) PROVE Lookups'
    <2>1. CASE GetLock(t)
      BY <2>1, QuietLookups DEF GetLock, Goto, table, objects, Invariant, Typed
    <2>2. CASE GetBucket(t)
      BY <2>2, QuietLookups DEF GetBucket, Goto, locals, objects, Invariant, Typed
    <2>3. CASE GetAbsent(t)
      BY <2>3, QuietLookups DEF GetAbsent, Goto, objects, Invariant, Typed
    <2>4. CASE GetValue(t)
      BY <2>4, QuietLookups DEF GetValue, Goto, table, objects, Invariant, Typed
    <2>5. QED
      BY <1>6, <2>1, <2>2, <2>3, <2>4, GetFoundLookups DEF GetCall
  <1>7. ASSUME NEW t \in Threads, UseFreedMemory(t) PROVE Lookups'
    BY <1>7, QuietLookups DEF UseFreedMemory, table, locals, objects
  <1>8. QED
    BY <1>1, <1>2, <1>3, <1>4, <1>5, <1>6, <1>7 DEF Next, Step, Stopped

LEMMA LookupsHold == Spec => []Lookups
  <1>1. QED
    BY InvariantHolds, InitLookups, NextLookups, PTL DEF Spec

-----------------------------------------------------------------------------
(* What size counts                                                        *)

\* There are not as many calls as values of a size_t.
SizeIsWide == Cardinality(Calls) < 2^SizeBits

LEMMA FiniteCalls ==
  /\ IsFiniteSet(Calls)
  /\ \A S \in SUBSET Calls : IsFiniteSet(S) /\ Cardinality(S) \in Nat
                             /\ Cardinality(S) <= Cardinality(Calls)
  /\ \A S \in SUBSET Threads : IsFiniteSet(S) /\ Cardinality(S) \in Nat
  <1>1. IsFiniteSet(Threads) /\ IsFiniteSet(1..MaxCalls)
    BY HashMapAssumption, FS_Interval
  <1>2. IsFiniteSet(Calls)
    BY <1>1, FS_Product DEF Calls
  <1>3. QED
    BY <1>1, <1>2, FS_Subset, FS_CardinalityType

LEMMA InitSize == Init => SizeFits
  <1> SUFFICES ASSUME Init PROVE SizeFits
    OBVIOUS
  <1>1. Growing = {}
    BY DEF Init, Growing
  <1>2. Held = {}
    <2>1. \A i \in DOMAIN buckets : buckets[i] = << >>
      BY DEF Init
    <2>2. \A i \in DOMAIN buckets : ToSet(buckets[i]) = {}
      BY <2>1 DEF ToSet
    <2>3. QED
      BY <2>2 DEF Held
  <1>3. Cardinality({}) = 0
    BY FS_EmptySet
  <1>4. QED
    BY <1>1, <1>2, <1>3 DEF Init, SizeFits

\* A step that changes neither the entries nor size, and after which the same puts are
\* about to count theirs
LEMMA QuietSize ==
  ASSUME SizeFits, UNCHANGED << mix, size, buckets, open >>, Growing' = Growing,
         \A u \in Threads : pc'[u] = "grow" => pc[u] = "grow" /\ register'[u] = register[u],
         \A u \in Threads : ~open => pc'[u] = "idle"
  PROVE  SizeFits'
  <1>1. Held' = Held
    BY DEF Held
  <1>2. QED
    BY <1>1 DEF SizeFits

LEMMA HeldCalls ==
  ASSUME Invariant
  PROVE  Held \subseteq Calls
  BY HeldNodes DEF Invariant, EntriesAreOwned, Typed

LEMMA PutReplaceSize ==
  ASSUME Invariant, SizeFits, NEW t \in Threads, PutReplace(t)
  PROVE  SizeFits'
  <1> DEFINE old == MyNode(t)
             me == MyCall(t)
             new == Replacement(t)
  <1>1. /\ old \in Nodes /\ old \in Node /\ me \in Calls \ moved /\ new.by = me
        /\ NodesOf(buckets') = (Nodes \ {old}) \cup {new}
    BY PutReplaceTable
  <1>2. /\ UNCHANGED << mix, size, open, register >> /\ pc' = [pc EXCEPT ![t] = "idle"]
        /\ pc[t] = "putBucket"
    BY DEF PutReplace, locals, Goto
  <1>3. Growing' = Growing
    BY <1>2 DEF Growing, Invariant, Typed
  <1> HIDE DEF old, me, new
  <1>4. Held' = (Held \ {old.by}) \cup {me}
    <2>1. /\ n_buckets \in Nat /\ buckets \in [0..n_buckets-1 -> Seq(Node)]
          /\ Distinct(buckets, By)
      BY DEF Invariant, Typed, EntriesAreOwned
    <2>2. Nodes \subseteq Node
      BY <2>1, NodesInSlots DEF Nodes
    <2>3. ASSUME NEW x \in Nodes, x.by = old.by PROVE x = old
      <3>1. By[x] = By[old]
        BY <1>1, <2>2, <2>3 DEF By
      <3>2. QED
        BY <1>1, <2>1, <3>1, NodesApart DEF Nodes
    <2>4. Held' = { node.by : node \in NodesOf(buckets') }
      BY DEF Held, NodesOf
    <2>5. QED
      BY <1>1, <2>3, <2>4, HeldNodes
  <1>5. Cardinality(Held') = Cardinality(Held)
    <2>1. Held \subseteq Calls /\ old.by \in Held /\ me \notin Held
      BY <1>1, HeldCalls, HeldNodes DEF Invariant, EntriesAreOwned
    <2>2. IsFiniteSet(Held) /\ IsFiniteSet(Held \ {old.by}) /\ Cardinality(Held) \in Nat
      BY <2>1, FiniteCalls
    <2>3. Cardinality(Held \ {old.by}) = Cardinality(Held) - 1
      BY <2>1, <2>2, FS_RemoveElement
    <2>4. Cardinality((Held \ {old.by}) \cup {me}) = Cardinality(Held \ {old.by}) + 1
      BY <2>1, <2>2, FS_AddElement
    <2>5. QED
      BY <1>4, <2>2, <2>3, <2>4
  <1>6. QED
    BY <1>2, <1>3, <1>5 DEF SizeFits, Invariant, Typed

LEMMA PutAppendSize ==
  ASSUME Invariant, SizeFits, NEW t \in Threads, PutAppend(t)
  PROVE  SizeFits'
  <1> DEFINE me == MyCall(t)
             new == NewNode(t)
  <1>1. /\ me \in Calls \ moved /\ new.by = me /\ pc[t] = "putBucket"
        /\ NodesOf(buckets') = Nodes \cup {new}
    BY PutAppendTable
  <1>2. /\ UNCHANGED << mix, size, open, register >> /\ pc' = [pc EXCEPT ![t] = "expand"]
        /\ \A u \in Threads : pc'[u] = "grow" => pc[u] = "grow"
    BY DEF PutAppend, locals, Goto, Invariant, Typed
  <1> HIDE DEF me, new
  <1>3. Cardinality(Growing') = Cardinality(Growing) + 1 /\ Cardinality(Growing) \in Nat
    <2>1. Growing' = Growing \cup {t} /\ t \notin Growing
      BY <1>1, <1>2 DEF Growing, Invariant, Typed
    <2>2. IsFiniteSet(Growing) /\ Cardinality(Growing) \in Nat
      BY FiniteCalls DEF Growing
    <2>3. QED
      BY <2>1, <2>2, FS_AddElement
  <1>4. Cardinality(Held') = Cardinality(Held) + 1 /\ Cardinality(Held) \in Nat
    <2>1. Held' = { node.by : node \in NodesOf(buckets') }
      BY DEF Held, NodesOf
    <2>2. Held' = Held \cup {me}
      BY <1>1, <2>1, HeldNodes
    <2>3. Held \subseteq Calls /\ me \notin Held
      BY <1>1, HeldCalls, HeldNodes DEF Invariant, EntriesAreOwned
    <2>4. IsFiniteSet(Held) /\ Cardinality(Held) \in Nat
      BY <2>3, FiniteCalls
    <2>5. QED
      BY <2>2, <2>3, <2>4, FS_AddElement
  <1>5. size \in Int /\ ("remove" \notin mix /\ open => size + Cardinality(Growing) = Cardinality(Held))
    <2>1. 2^SizeBits \in Int
      BY HashMapAssumption
    <2>2. QED
      BY <2>1 DEF SizeFits, Invariant, Typed
  <1>6. "remove" \notin mix /\ open => size + Cardinality(Growing') = Cardinality(Held')
    BY <1>3, <1>4, <1>5
  <1>7. open
    BY <1>1 DEF SizeFits
  <1>8. QED
    BY <1>2, <1>6, <1>7 DEF SizeFits

LEMMA ExpandLockSize ==
  ASSUME SizeIsWide, Invariant, SizeFits, NEW t \in Threads, ExpandLock(t)
  PROVE  SizeFits'
  <1>1. /\ UNCHANGED << mix, size, open, buckets >> /\ pc' = [pc EXCEPT ![t] = "grow"]
        /\ pc[t] = "expand" /\ lock = NoThread
        /\ register' = [register EXCEPT ![t] = (size + 1) % 2^SizeBits]
    BY DEF ExpandLock, LockMap, Goto, table
  <1>2. Growing' = Growing /\ t \in Growing
    BY <1>1 DEF Growing, Invariant, Typed
  <1>3. Held' = Held
    BY <1>1 DEF Held
  <1>4. open
    BY <1>1 DEF SizeFits
  <1>5. \A u \in Threads : pc[u] # "grow"
    BY <1>1, HashMapAssumption DEF Invariant, LocksHeld
  <1>6. ASSUME "remove" \notin mix PROVE register'[t] = size + 1
    <2> DEFINE m == 2^SizeBits
               n == Cardinality(Held)
               g == Cardinality(Growing)
    <2>1. m \in Int /\ m > 0 /\ size \in Nat /\ n \in Nat /\ g \in Nat
      <3>1. m \in Int
        BY HashMapAssumption
      <3>2. m > 0
        BY PowersAssumption
      <3>3. size \in Nat
        BY <3>1 DEF Invariant, Typed
      <3>4. n \in Nat
        BY HeldCalls, FiniteCalls
      <3>5. g \in Nat
        BY FiniteCalls DEF Growing
      <3>6. QED
        BY <3>1, <3>2, <3>3, <3>4, <3>5
    <2>2. g # 0
      <3>1. IsFiniteSet(Growing)
        BY FiniteCalls DEF Growing
      <3>2. QED
        BY <1>2, <3>1, FS_EmptySet
    <2>3. n < m
      <3>1. n <= Cardinality(Calls) /\ Cardinality(Calls) \in Nat
        BY HeldCalls, FiniteCalls
      <3>2. QED
        BY <2>1, <3>1 DEF SizeIsWide
    <2>4. size + g = n
      BY <1>4, <1>6 DEF SizeFits
    <2>5. register'[t] = (size + 1) % m
      BY <1>1 DEF Invariant, Typed
    <2> HIDE DEF m, n, g
    <2>6. size + 1 \in 0..m-1
      BY <2>1, <2>2, <2>3, <2>4
    <2>7. QED
      BY <2>1, <2>5, <2>6
  <1>7. QED
    BY <1>1, <1>2, <1>3, <1>4, <1>5, <1>6 DEF SizeFits, Invariant, Typed

\* The put whose entry is counted at last
LEMMA CountedSize ==
  ASSUME Invariant, SizeFits, NEW t \in Threads, pc[t] = "grow",
         NEW where, where \in {"idle", "copy"}, pc' = [pc EXCEPT ![t] = where],
         size' = register[t], UNCHANGED << mix, open, register >>, Held' = Held
  PROVE  SizeFits'
  <1>1. Growing' = Growing \ {t} /\ t \in Growing
    BY DEF Growing, Invariant, Typed
  <1>2. IsFiniteSet(Growing) /\ Cardinality(Growing) \in Nat
    BY FiniteCalls DEF Growing
  <1>3. Cardinality(Growing') = Cardinality(Growing) - 1
    BY <1>1, <1>2, FS_RemoveElement
  <1>4. \A u \in Threads : pc'[u] # "grow"
    BY DEF Invariant, LocksHeld, Typed
  <1>5. size \in Int
    <2>1. 2^SizeBits \in Int
      BY HashMapAssumption
    <2>2. QED
      BY <2>1 DEF Invariant, Typed
  <1>6. ASSUME "remove" \notin mix, open
        PROVE  size' + Cardinality(Growing') = Cardinality(Held)
    <2>1. size' = size + 1 /\ size + Cardinality(Growing) = Cardinality(Held)
      BY <1>6 DEF SizeFits
    <2>2. QED
      BY <1>2, <1>3, <1>5, <2>1
  <1>7. open
    BY DEF SizeFits
  <1>8. QED
    BY <1>4, <1>6, <1>7 DEF SizeFits

\* Without removals an expansion moves the entries and no others.
LEMMA ExpandSize ==
  ASSUME Invariant, RemovedFit, SizeFits, NEW t \in Threads, Expand(t)
  PROVE  SizeFits'
  <1>1. /\ pc[t] = "copy" /\ pc' = [pc EXCEPT ![t] = "idle"]
        /\ UNCHANGED << mix, size, open, register >>
    BY DEF Expand, Goto, locals
  <1>2. Growing' = Growing /\ \A u \in Threads : pc'[u] = "grow" => pc[u] = "grow"
    BY <1>1 DEF Growing, Invariant, Typed
  <1>3. ASSUME "remove" \notin mix PROVE Held' = Held
    <2>1. unlinked = {}
      BY <1>3 DEF RemovedFit
    <2>2. NodesOf(buckets') = Nodes
      BY <2>1, ExpandTable
    <2>3. Held' = { node.by : node \in NodesOf(buckets') }
      BY DEF Held, NodesOf
    <2>4. QED
      BY <2>2, <2>3, HeldNodes
  <1>4. open
    BY <1>1 DEF SizeFits
  <1>5. QED
    BY <1>1, <1>2, <1>3, <1>4 DEF SizeFits

LEMMA NextSize ==
  SizeIsWide /\ Invariant /\ RemovedFit /\ SizeFits /\ [Next]_vars => SizeFits'
  <1> SUFFICES ASSUME SizeIsWide, Invariant, RemovedFit, SizeFits, [Next]_vars PROVE SizeFits'
    OBVIOUS
  <1>1. CASE UNCHANGED vars
    BY <1>1, QuietSize DEF vars, table, locals, Growing, SizeFits
  <1>2. CASE Destroy
    BY <1>2 DEF Destroy, SizeFits
  <1>3. ASSUME NEW t \in Threads, Call(t) PROVE SizeFits'
    <2>1. PICK op \in mix : pc' = [pc EXCEPT ![t] = op]
      BY <1>3 DEF Call, Goto
    <2>2. op \in {"put", "remove", "get"}
      BY DEF Invariant, Typed
    <2>3. Growing' = Growing
      BY <1>3, <2>1, <2>2 DEF Call, Growing, Invariant, Typed
    <2>4. \A u \in Threads : pc'[u] = "grow" => pc[u] = "grow"
      BY <2>1, <2>2 DEF Invariant, Typed
    <2>5. QED
      BY <1>3, <2>3, <2>4, QuietSize DEF Call, table
  <1>4. ASSUME NEW t \in Threads, PutCall(t) PROVE SizeFits'
    <2>1. CASE PutLock(t)
      BY <2>1, QuietSize DEF PutLock, Goto, table, SizeFits, Growing, Invariant, Typed
    <2>2. CASE StaysSmall(t)
      <3>1. /\ pc[t] = "grow" /\ pc' = [pc EXCEPT ![t] = "idle"] /\ size' = register[t]
            /\ UNCHANGED << mix, open, register, buckets >>
        BY <2>2 DEF StaysSmall, Goto, table, locals
      <3>2. Held' = Held
        BY <3>1 DEF Held
      <3>3. QED
        BY <3>1, <3>2, CountedSize
    <2>3. CASE Grows(t)
      <3>1. /\ pc[t] = "grow" /\ pc' = [pc EXCEPT ![t] = "copy"] /\ size' = register[t]
            /\ UNCHANGED << mix, open, register, buckets >>
        BY <2>3 DEF Grows, Goto, table, locals
      <3>2. Held' = Held
        BY <3>1 DEF Held
      <3>3. QED
        BY <3>1, <3>2, CountedSize
    <2>4. QED
      BY <1>4, <2>1, <2>2, <2>3, PutReplaceSize, PutAppendSize, ExpandLockSize, ExpandSize
         DEF PutCall
  <1>5. ASSUME NEW t \in Threads, RemoveCall(t) PROVE SizeFits'
    <2>1. CASE RemoveLock(t)
      BY <2>1, QuietSize DEF RemoveLock, Goto, table, SizeFits, Growing, Invariant, Typed
    <2>2. CASE RemoveBucket(t)
      BY <2>2, QuietSize DEF RemoveBucket, Goto, locals, SizeFits, Growing, Invariant, Typed
    <2>3. CASE RemoveAbsent(t)
      BY <2>3, QuietSize DEF RemoveAbsent, Goto, locals, SizeFits, Growing, Invariant, Typed
    <2>4. CASE RemoveFound(t)
      BY <2>4, QuietSize DEF RemoveFound, Goto, table, SizeFits, Growing, Invariant, Typed
    <2>5. CASE RemoveEntry(t)
      <3>1. "remove" \in mix
        BY <2>5 DEF RemoveEntry, Invariant, NodesStay, Removing
      <3>2. UNCHANGED << mix, open >> /\ \A u \in Threads : pc'[u] # "idle" => pc[u] # "idle"
        BY <2>5 DEF RemoveEntry, Goto, Invariant, Typed
      <3>3. QED
        BY <3>1, <3>2 DEF SizeFits
    <2>6. QED
      BY <1>5, <2>1, <2>2, <2>3, <2>4, <2>5 DEF RemoveCall
  <1>6. ASSUME NEW t \in Threads, GetCall(t) PROVE SizeFits'
    <2>1. CASE GetLock(t)
      BY <2>1, QuietSize DEF GetLock, Goto, table, SizeFits, Growing, Invariant, Typed
    <2>2. CASE GetBucket(t)
      BY <2>2, QuietSize DEF GetBucket, Goto, locals, SizeFits, Growing, Invariant, Typed
    <2>3. CASE GetAbsent(t)
      BY <2>3, QuietSize DEF GetAbsent, Goto, SizeFits, Growing, Invariant, Typed
    <2>4. CASE GetFound(t)
      BY <2>4, QuietSize DEF GetFound, Goto, SizeFits, Growing, Invariant, Typed
    <2>5. CASE GetValue(t)
      BY <2>5, QuietSize DEF GetValue, Goto, table, SizeFits, Growing, Invariant, Typed
    <2>6. QED
      BY <1>6, <2>1, <2>2, <2>3, <2>4, <2>5 DEF GetCall
  <1>7. ASSUME NEW t \in Threads, UseFreedMemory(t) PROVE SizeFits'
    BY <1>7, QuietSize DEF UseFreedMemory, table, locals, SizeFits, Growing
  <1>8. QED
    BY <1>1, <1>2, <1>3, <1>4, <1>5, <1>6, <1>7 DEF Next, Step, Stopped

LEMMA SizeHolds ==
  ASSUME SizeIsWide
  PROVE  Spec => []SizeFits
  <1>1. Invariant /\ RemovedFit /\ SizeFits /\ [Next]_vars => SizeFits'
    BY NextSize
  <1>2. QED
    BY <1>1, InvariantHolds, InitSize, PTL DEF Spec

-----------------------------------------------------------------------------
(* Every call takes effect at one point in time                            *)

\* The map an atomic map would be in, and its calls
MapOn(N) ==
  [k \in Keys |-> LET entries == { node \in N : node.key = k }
                  IN  IF entries = {} THEN NoCall
                      ELSE (CHOOSE node \in entries : TRUE).by]

TheMap == MapOn(Nodes)

TheCalls ==
  [t \in Threads |->
     IF Operation(t) = "none" THEN [op |-> "none"]
     ELSE [op |-> Operation(t), key |-> key[t], value |-> MyCall(t)]]

OneEach(N) == N \subseteq Node /\ \A x, y \in N : x.key = y.key => x = y

LEMMA MapHasIts ==
  ASSUME NEW N, OneEach(N)
  PROVE  /\ \A x \in N : MapOn(N)[x.key] = x.by
         /\ \A k \in Keys : (\A x \in N : x.key # k) => MapOn(N)[k] = NoCall
         /\ DOMAIN MapOn(N) = Keys
  <1>1. ASSUME NEW x \in N PROVE MapOn(N)[x.key] = x.by
    <2> DEFINE entries == { node \in N : node.key = x.key }
    <2>1. x.key \in Keys
      BY DEF OneEach, Node
    <2>2. x \in entries /\ \A y \in entries : y = x
      BY DEF OneEach
    <2>3. (CHOOSE node \in entries : TRUE) = x
      BY <2>2
    <2>4. entries # {}
      BY <2>2
    <2>5. MapOn(N)[x.key] = IF entries = {} THEN NoCall ELSE (CHOOSE node \in entries : TRUE).by
      BY <2>1 DEF MapOn
    <2> HIDE DEF entries
    <2>6. QED
      BY <2>3, <2>4, <2>5
  <1>2. ASSUME NEW k \in Keys, \A x \in N : x.key # k PROVE MapOn(N)[k] = NoCall
    <2>1. { node \in N : node.key = k } = {}
      BY <1>2
    <2>2. QED
      BY <2>1 DEF MapOn
  <1>3. QED
    BY <1>1, <1>2 DEF MapOn

\* Two sets of entries that differ in those of one key
LEMMA MapDiffers ==
  ASSUME NEW N, NEW M, NEW key0, NEW v, OneEach(N), OneEach(M), key0 \in Keys,
         \A x \in N : x.key # key0 => x \in M, \A x \in M : x.key # key0 => x \in N,
         MapOn(M)[key0] = v
  PROVE  MapOn(M) = [MapOn(N) EXCEPT ![key0] = v]
  <1>1. ASSUME NEW k \in Keys PROVE MapOn(M)[k] = [MapOn(N) EXCEPT ![key0] = v][k]
    <2>1. CASE k = key0
      BY <2>1, MapHasIts
    <2>2. CASE k # key0
      <3>1. [MapOn(N) EXCEPT ![key0] = v][k] = MapOn(N)[k]
        BY <2>2, MapHasIts
      <3>2. CASE \E x \in N : x.key = k
        <4>1. PICK x \in N : x.key = k
          BY <3>2
        <4>2. x \in M
          BY <2>2, <4>1
        <4>3. MapOn(N)[k] = x.by /\ MapOn(M)[k] = x.by
          BY <4>1, <4>2, MapHasIts
        <4>4. QED
          BY <3>1, <4>3
      <3>3. CASE \A x \in N : x.key # k
        <4>1. \A x \in M : x.key # k
          BY <2>2, <3>3
        <4>2. MapOn(N)[k] = NoCall /\ MapOn(M)[k] = NoCall
          BY <3>3, <4>1, MapHasIts
        <4>3. QED
          BY <3>1, <4>2
      <3>4. QED
        BY <3>2, <3>3
    <2>3. QED
      BY <2>1, <2>2
  <1>2. /\ MapOn(M) = [k \in Keys |-> MapOn(M)[k]] /\ MapOn(N) = [k \in Keys |-> MapOn(N)[k]]
    BY DEF MapOn
  <1>3. QED
    BY <1>1, <1>2

\* What a put over an entry, a put of a new entry and a removal do to the map
LEMMA MapReplaces ==
  ASSUME NEW N, NEW M, NEW old, NEW new, NEW key0, NEW v, OneEach(N), old \in N, new \in Node,
         new.key = key0, old.key = key0, new.by = v, M = (N \ {old}) \cup {new}
  PROVE  MapOn(M) = [MapOn(N) EXCEPT ![key0] = v]
  <1>1. OneEach(M) /\ new \in M /\ key0 \in Keys
    BY DEF OneEach, Node
  <1>2. MapOn(M)[key0] = v
    BY <1>1, MapHasIts
  <1>3. QED
    BY <1>1, <1>2, MapDiffers

LEMMA MapGrows ==
  ASSUME NEW N, NEW M, NEW new, NEW key0, NEW v, OneEach(N), new \in Node,
         new.key = key0, new.by = v, M = N \cup {new}, \A x \in N : x.key # key0
  PROVE  MapOn(M) = [MapOn(N) EXCEPT ![key0] = v]
  <1>1. OneEach(M) /\ new \in M /\ key0 \in Keys
    BY DEF OneEach, Node
  <1>2. MapOn(M)[key0] = v
    BY <1>1, MapHasIts
  <1>3. QED
    BY <1>1, <1>2, MapDiffers

LEMMA MapRemoves ==
  ASSUME NEW N, NEW M, NEW old, NEW key0, OneEach(N), old \in N, old.key = key0,
         \A x : x \in M <=> x \in N /\ x # old
  PROVE  MapOn(M) = [MapOn(N) EXCEPT ![key0] = NoCall]
  <1>1. OneEach(M) /\ key0 \in Keys /\ \A x \in M : x.key # key0
    BY DEF OneEach, Node
  <1>2. MapOn(M)[key0] = NoCall
    BY <1>1, MapHasIts
  <1>3. QED
    BY <1>1, <1>2, MapDiffers

LEMMA TableHasOneEach ==
  ASSUME Typed, EntriesFit, TableIsNarrow
  PROVE  OneEach(Nodes) /\ Placed(buckets, n_buckets)
  <1>1. /\ n_buckets \in Nat /\ buckets \in [0..n_buckets-1 -> Seq(Node)]
        /\ Distinct(buckets, Key) /\ Placed(buckets, n_buckets)
    BY DEF Typed, EntriesFit
  <1>2. Nodes \subseteq Node
    BY <1>1, NodesInSlots DEF Nodes
  <1>3. ASSUME NEW x \in Nodes, NEW y \in Nodes, x.key = y.key PROVE x = y
    <2>1. Key[x] = Key[y]
      BY <1>2, <1>3 DEF Key
    <2>2. QED
      BY <1>1, <2>1, NodesApart DEF Nodes
  <1>4. QED
    BY <1>1, <1>2, <1>3 DEF OneEach

LEMMA OperationOf ==
  ASSUME NEW t \in Threads
  PROVE  /\ pc[t] \in Putting => Operation(t) = "put"
         /\ pc[t] \in Removing => Operation(t) = "remove"
         /\ pc[t] \in Getting => Operation(t) = "get"
         /\ pc[t] \in {"idle", "expand", "grow", "copy"} => Operation(t) = "none"
         /\ pc'[t] \in Putting => Operation(t)' = "put"
         /\ pc'[t] \in Removing => Operation(t)' = "remove"
         /\ pc'[t] \in Getting => Operation(t)' = "get"
         /\ pc'[t] \in {"idle", "expand", "grow", "copy"} => Operation(t)' = "none"
  BY DEF Operation, Putting, Removing, Getting

\* A thread that stays in the same operation, or outside of every operation
LEMMA CallsStay ==
  ASSUME Typed, NEW t \in Threads, NEW where, pc' = [pc EXCEPT ![t] = where],
         \/ pc[t] \in Putting /\ where \in Putting
         \/ pc[t] \in Removing /\ where \in Removing
         \/ pc[t] \in Getting /\ where \in Getting
         \/ {pc[t], where} \subseteq {"idle", "expand", "grow", "copy"},
         UNCHANGED << key, calls >>
  PROVE  TheCalls' = TheCalls
  <1>1. ASSUME NEW u \in Threads PROVE Operation(u)' = Operation(u)
    <2>1. CASE u = t
      BY <2>1, OperationOf DEF Typed
    <2>2. CASE u # t
      BY <2>2 DEF Typed, Operation
    <2>3. QED
      BY <2>1, <2>2
  <1>2. QED
    BY <1>1 DEF TheCalls, MyCall

\* A thread whose operation takes effect
LEMMA CallEnds ==
  ASSUME Typed, NEW t \in Threads, NEW where, where \in {"idle", "expand"},
         pc' = [pc EXCEPT ![t] = where], pc[t] \in Putting \cup Removing \cup Getting,
         UNCHANGED << key, calls >>
  PROVE  /\ TheCalls' = [TheCalls EXCEPT ![t] = [op |-> "none"]]
         /\ TheCalls[t] = [op |-> Operation(t), key |-> key[t], value |-> MyCall(t)]
         /\ TheCalls[t] # [op |-> "none"]
  <1>1. Operation(t)' = "none" /\ Operation(t) \in {"put", "remove", "get"}
    BY OperationOf DEF Typed
  <1>2. \A u \in Threads : u # t => Operation(u)' = Operation(u)
    BY DEF Typed, Operation
  <1>3. TheCalls' = [TheCalls EXCEPT ![t] = [op |-> "none"]]
    BY <1>1, <1>2 DEF TheCalls, MyCall
  <1>4. TheCalls[t] = [op |-> Operation(t), key |-> key[t], value |-> MyCall(t)]
    BY <1>1 DEF TheCalls
  <1>5. TheCalls[t].op = Operation(t) /\ Operation(t) # "none" /\ [op |-> "none"].op = "none"
    BY <1>1, <1>4
  <1>6. QED
    BY <1>3, <1>4, <1>5

AtomicMapStep == [Atomic!Next]_(Atomic!vars)

\* What an action has to show: a stutter, or the performance of a call
LEMMA StutterOfMap ==
  ASSUME TheMap' = TheMap, TheCalls' = TheCalls, answer' = answer
  PROVE  AtomicMapStep
  BY DEF AtomicMapStep, Atomic!vars, TheMap, TheCalls, MapOn, Nodes, NodesOf

LEMMA SameTable ==
  ASSUME NodesOf(buckets') = Nodes
  PROVE  TheMap' = TheMap
  <1>1. TheMap' = MapOn(NodesOf(buckets'))
    BY DEF TheMap, MapOn, Nodes, NodesOf
  <1>2. QED
    BY <1>1 DEF TheMap

\* The steps of the atomic map, told of the map and the calls above
LEMMA AbstractSteps ==
  /\ \A t : Atomic!Perform(t) <=>
       /\ TheCalls[t] # [op |-> "none"]
       /\ TheCalls' = [TheCalls EXCEPT ![t] = [op |-> "none"]]
       /\ CASE TheCalls[t].op = "put" ->
                 /\ TheMap' = [TheMap EXCEPT ![TheCalls[t].key] = TheCalls[t].value]
                 /\ UNCHANGED answer
            [] TheCalls[t].op = "remove" ->
                 /\ TheMap' = [TheMap EXCEPT ![TheCalls[t].key] = NoCall]
                 /\ UNCHANGED answer
            [] TheCalls[t].op = "get" ->
                 /\ answer' = [answer EXCEPT ![t] = TheMap[TheCalls[t].key]]
                 /\ UNCHANGED TheMap
  /\ \A t : Atomic!Begin(t) <=>
       /\ TheCalls[t] = [op |-> "none"]
       /\ \E op \in {"put", "remove", "get"}, k \in Keys, v \in Calls :
            TheCalls' = [TheCalls EXCEPT ![t] = [op |-> op, key |-> k, value |-> v]]
       /\ UNCHANGED << TheMap, answer >>
  <1>1. ASSUME NEW t
        PROVE  Atomic!Perform(t) <=>
       /\ TheCalls[t] # [op |-> "none"]
       /\ TheCalls' = [TheCalls EXCEPT ![t] = [op |-> "none"]]
       /\ CASE TheCalls[t].op = "put" ->
                 /\ TheMap' = [TheMap EXCEPT ![TheCalls[t].key] = TheCalls[t].value]
                 /\ UNCHANGED answer
            [] TheCalls[t].op = "remove" ->
                 /\ TheMap' = [TheMap EXCEPT ![TheCalls[t].key] = NoCall]
                 /\ UNCHANGED answer
            [] TheCalls[t].op = "get" ->
                 /\ answer' = [answer EXCEPT ![t] = TheMap[TheCalls[t].key]]
                 /\ UNCHANGED TheMap
    BY DEF Atomic!Perform, Atomic!Idle, TheMap, TheCalls, MapOn, Nodes, NodesOf
  <1>2. ASSUME NEW t
        PROVE  Atomic!Begin(t) <=>
       /\ TheCalls[t] = [op |-> "none"]
       /\ \E op \in {"put", "remove", "get"}, k \in Keys, v \in Calls :
            TheCalls' = [TheCalls EXCEPT ![t] = [op |-> op, key |-> k, value |-> v]]
       /\ UNCHANGED << TheMap, answer >>
    BY DEF Atomic!Begin, Atomic!Idle, TheMap, TheCalls, MapOn, Nodes, NodesOf
  <1>3. QED
    BY <1>1, <1>2

LEMMA PerformsPut ==
  ASSUME NEW t \in Threads, TheCalls' = [TheCalls EXCEPT ![t] = [op |-> "none"]],
         TheCalls[t] = [op |-> "put", key |-> key[t], value |-> MyCall(t)],
         TheMap' = [TheMap EXCEPT ![key[t]] = MyCall(t)], answer' = answer
  PROVE  AtomicMapStep
  <1>1. TheCalls[t].op = "put" /\ TheCalls[t] # [op |-> "none"]
    <2>1. TheCalls[t].op = "put" /\ [op |-> "none"].op = "none"
      OBVIOUS
    <2>2. QED
      BY <2>1
  <1>2. TheCalls[t].key = key[t] /\ TheCalls[t].value = MyCall(t)
    OBVIOUS
  <1>3. Atomic!Perform(t)
    BY <1>1, <1>2, AbstractSteps
  <1>4. QED
    BY <1>3 DEF AtomicMapStep, Atomic!Next

LEMMA PerformsRemove ==
  ASSUME NEW t \in Threads, TheCalls' = [TheCalls EXCEPT ![t] = [op |-> "none"]],
         TheCalls[t] = [op |-> "remove", key |-> key[t], value |-> MyCall(t)],
         TheMap' = [TheMap EXCEPT ![key[t]] = NoCall], answer' = answer
  PROVE  AtomicMapStep
  <1>1. TheCalls[t].op = "remove" /\ TheCalls[t] # [op |-> "none"]
    <2>1. TheCalls[t].op = "remove" /\ [op |-> "none"].op = "none"
      OBVIOUS
    <2>2. QED
      BY <2>1
  <1>2. TheCalls[t].key = key[t]
    OBVIOUS
  <1>3. Atomic!Perform(t)
    BY <1>1, <1>2, AbstractSteps
  <1>4. QED
    BY <1>3 DEF AtomicMapStep, Atomic!Next

LEMMA PerformsGet ==
  ASSUME NEW t \in Threads, TheCalls' = [TheCalls EXCEPT ![t] = [op |-> "none"]],
         TheCalls[t] = [op |-> "get", key |-> key[t], value |-> MyCall(t)],
         answer' = [answer EXCEPT ![t] = TheMap[key[t]]], TheMap' = TheMap
  PROVE  AtomicMapStep
  <1>1. TheCalls[t].op = "get" /\ TheCalls[t] # [op |-> "none"]
    <2>1. TheCalls[t].op = "get" /\ [op |-> "none"].op = "none"
      OBVIOUS
    <2>2. QED
      BY <2>1
  <1>2. TheCalls[t].key = key[t]
    OBVIOUS
  <1>3. Atomic!Perform(t)
    BY <1>1, <1>2, AbstractSteps
  <1>4. QED
    BY <1>3 DEF AtomicMapStep, Atomic!Next

LEMMA CallBegins ==
  ASSUME Typed, NEW t \in Threads, Call(t)
  PROVE  AtomicMapStep
  <1>1. PICK op \in mix : pc' = [pc EXCEPT ![t] = op]
    BY DEF Call, Goto
  <1>2. PICK k \in Keys : key' = [key EXCEPT ![t] = k]
    BY DEF Call
  <1>3. /\ pc[t] = "idle" /\ op \in {"put", "remove", "get"} /\ calls[t] < MaxCalls
        /\ calls' = [calls EXCEPT ![t] = calls[t] + 1] /\ answer' = answer /\ buckets' = buckets
    BY DEF Call, table, Typed
  <1>4. Operation(t) = "none" /\ Operation(t)' = op
    BY <1>1, <1>3, OperationOf DEF Typed, Putting, Removing, Getting
  <1>5. \A u \in Threads : u # t => /\ Operation(u)' = Operation(u) /\ key'[u] = key[u]
                                    /\ MyCall(u)' = MyCall(u)
    BY <1>1, <1>2, <1>3 DEF Typed, Operation, MyCall
  <1>6. MyCall(t)' = << t, calls[t] + 1 >> /\ key'[t] = k
    BY <1>2, <1>3 DEF Typed, MyCall
  <1>7. << t, calls[t] + 1 >> \in Calls
    <2>1. MaxCalls \in Nat /\ calls[t] \in 0..MaxCalls
      BY HashMapAssumption DEF Typed
    <2>2. calls[t] + 1 \in 1..MaxCalls
      BY <1>3, <2>1
    <2>3. QED
      BY <2>2 DEF Calls
  <1>8. TheCalls' = [TheCalls EXCEPT ![t] = [op |-> op, key |-> k, value |-> << t, calls[t] + 1 >>]]
    BY <1>3, <1>4, <1>5, <1>6 DEF TheCalls
  <1>9. TheCalls[t] = [op |-> "none"]
    BY <1>4 DEF TheCalls
  <1>10. TheMap' = TheMap
    BY <1>3 DEF TheMap, MapOn, Nodes, NodesOf
  <1>11. Atomic!Begin(t)
    BY <1>3, <1>7, <1>8, <1>9, <1>10, AbstractSteps
  <1>12. QED
    BY <1>11 DEF AtomicMapStep, Atomic!Next

LEMMA PutTakesEffect ==
  ASSUME Invariant, Lookups, TableIsNarrow, NEW t \in Threads, PutReplace(t) \/ PutAppend(t)
  PROVE  AtomicMapStep
  <1>1. OneEach(Nodes) /\ Placed(buckets, n_buckets)
    BY TableHasOneEach DEF Invariant, Lookups
  <1>2. CASE PutReplace(t)
    <2>1. /\ pc[t] = "putBucket" /\ pc' = [pc EXCEPT ![t] = "idle"]
          /\ UNCHANGED << key, calls, answer >>
      BY <1>2 DEF PutReplace, Goto, locals
    <2>2. /\ MyNode(t) \in Nodes /\ MyNode(t).key = key[t]
          /\ Replacement(t) \in Node /\ Replacement(t).by = MyCall(t) /\ Replacement(t).key = key[t]
          /\ NodesOf(buckets') = (Nodes \ {MyNode(t)}) \cup {Replacement(t)}
      BY <1>2, PutReplaceTable
    <2>3. MapOn(NodesOf(buckets')) = [MapOn(Nodes) EXCEPT ![key[t]] = MyCall(t)]
      <3> DEFINE old == MyNode(t)
                 new == Replacement(t)
      <3>1. /\ old \in Nodes /\ new \in Node /\ new.key = key[t] /\ old.key = key[t]
            /\ new.by = MyCall(t) /\ NodesOf(buckets') = (Nodes \ {old}) \cup {new}
        BY <2>2
      <3> HIDE DEF old, new
      <3>2. QED
        BY <1>1, <3>1, MapReplaces
    <2>4. TheMap' = [TheMap EXCEPT ![key[t]] = MyCall(t)]
      BY <2>3 DEF TheMap, MapOn, Nodes, NodesOf
    <2>5. Operation(t) = "put"
      BY <2>1, OperationOf DEF Putting
    <2>6. QED
      BY <2>1, <2>4, <2>5, CallEnds, PerformsPut DEF Invariant, Putting
  <1>3. CASE PutAppend(t)
    <2>1. /\ pc[t] = "putBucket" /\ pc' = [pc EXCEPT ![t] = "expand"] /\ ~Present(t)
          /\ UNCHANGED << key, calls, answer >>
      BY <1>3 DEF PutAppend, Goto, locals
    <2>2. /\ pc[t] \in AtBucket /\ ~IsStale(t)
          /\ NewNode(t) \in Node /\ NewNode(t).by = MyCall(t) /\ NewNode(t).key = key[t]
          /\ NodesOf(buckets') = Nodes \cup {NewNode(t)}
      BY <1>3, PutAppendTable
    <2>3. \A x \in Nodes : x.key # key[t]
      BY <1>1, <2>1, <2>2, AbsentKey DEF Invariant
    <2>4. MapOn(NodesOf(buckets')) = [MapOn(Nodes) EXCEPT ![key[t]] = MyCall(t)]
      BY <1>1, <2>2, <2>3, MapGrows
    <2>5. TheMap' = [TheMap EXCEPT ![key[t]] = MyCall(t)]
      BY <2>4 DEF TheMap, MapOn, Nodes, NodesOf
    <2>6. Operation(t) = "put"
      BY <2>1, OperationOf DEF Putting
    <2>7. QED
      BY <2>1, <2>5, <2>6, CallEnds, PerformsPut DEF Invariant, Putting
  <1>4. QED
    BY <1>2, <1>3

LEMMA RemoveTakesEffect ==
  ASSUME Invariant, Lookups, TableIsNarrow, NEW t \in Threads, RemoveAbsent(t) \/ RemoveEntry(t)
  PROVE  AtomicMapStep
  <1>1. OneEach(Nodes) /\ Placed(buckets, n_buckets)
    BY TableHasOneEach DEF Invariant, Lookups
  <1>2. CASE RemoveAbsent(t)
    <2>1. /\ pc[t] = "removeScan" /\ pc' = [pc EXCEPT ![t] = "idle"] /\ ~Present(t) /\ ~IsStale(t)
          /\ UNCHANGED << key, calls, answer, buckets >>
      BY <1>2 DEF RemoveAbsent, Goto, locals
    <2>2. \A x \in Nodes : x.key # key[t]
      BY <1>1, <2>1, AbsentKey DEF Invariant, AtBucket, Scanning
    <2>3. key[t] \in Keys
      BY DEF Invariant, Typed
    <2>4. MapOn(Nodes)[key[t]] = NoCall /\ MapOn(Nodes) = [k \in Keys |-> MapOn(Nodes)[k]]
      <3>1. MapOn(Nodes)[key[t]] = NoCall
        BY <1>1, <2>2, <2>3, MapHasIts
      <3>2. QED
        BY <3>1 DEF MapOn
    <2>5. TheMap' = MapOn(Nodes) /\ TheMap = MapOn(Nodes)
      BY <2>1 DEF TheMap, MapOn, Nodes, NodesOf
    <2>6. TheMap' = [TheMap EXCEPT ![key[t]] = NoCall]
      BY <2>3, <2>4, <2>5
    <2>7. Operation(t) = "remove"
      BY <2>1, OperationOf DEF Removing
    <2>8. QED
      BY <2>1, <2>6, <2>7, CallEnds, PerformsRemove DEF Invariant, Removing
  <1>3. CASE RemoveEntry(t)
    <2>1. /\ pc[t] = "removeEntry" /\ pc' = [pc EXCEPT ![t] = "idle"]
          /\ UNCHANGED << key, calls, answer >>
      BY <1>3 DEF RemoveEntry, Goto, locals
    <2>2. /\ MyNode(t) \in Nodes /\ MyNode(t) \in Node /\ MyNode(t).key = key[t]
          /\ NodesOf(buckets') = Nodes \ {MyNode(t)}
      BY <1>3, RemoveEntryTable
    <2>3. MapOn(NodesOf(buckets')) = [MapOn(Nodes) EXCEPT ![key[t]] = NoCall]
      BY <1>1, <2>2, MapRemoves
    <2>4. TheMap' = [TheMap EXCEPT ![key[t]] = NoCall]
      BY <2>3 DEF TheMap, MapOn, Nodes, NodesOf
    <2>5. Operation(t) = "remove"
      BY <2>1, OperationOf DEF Removing
    <2>6. QED
      BY <2>1, <2>4, <2>5, CallEnds, PerformsRemove DEF Invariant, Removing
  <1>4. QED
    BY <1>2, <1>3

LEMMA GetTakesEffect ==
  ASSUME Invariant, Lookups, TableIsNarrow, NEW t \in Threads, GetAbsent(t) \/ GetValue(t)
  PROVE  AtomicMapStep
  <1>1. OneEach(Nodes) /\ Placed(buckets, n_buckets)
    BY TableHasOneEach DEF Invariant, Lookups
  <1>2. CASE GetAbsent(t)
    <2>1. /\ pc[t] = "getScan" /\ pc' = [pc EXCEPT ![t] = "idle"] /\ ~Present(t) /\ ~IsStale(t)
          /\ answer' = [answer EXCEPT ![t] = NoCall] /\ UNCHANGED << key, calls, buckets >>
      BY <1>2 DEF GetAbsent, Goto
    <2>2. \A x \in Nodes : x.key # key[t]
      BY <1>1, <2>1, AbsentKey DEF Invariant, AtBucket, Scanning
    <2>3. key[t] \in Keys
      BY DEF Invariant, Typed
    <2>4. TheMap[key[t]] = NoCall
      BY <1>1, <2>2, <2>3, MapHasIts DEF TheMap
    <2>5. TheMap' = TheMap
      BY <2>1 DEF TheMap, MapOn, Nodes, NodesOf
    <2>6. Operation(t) = "get"
      BY <2>1, OperationOf DEF Getting
    <2>7. QED
      BY <2>1, <2>4, <2>5, <2>6, CallEnds, PerformsGet DEF Invariant, Getting
  <1>3. CASE GetValue(t)
    <2> DEFINE found == NodeAt(node_ref[t])
    <2>1. /\ pc[t] = "getValue" /\ pc' = [pc EXCEPT ![t] = "idle"] /\ NodeIsAlive(node_ref[t])
          /\ answer' = [answer EXCEPT ![t] = found.by] /\ UNCHANGED << key, calls, buckets >>
      BY <1>3 DEF GetValue, Goto, table
    <2>2. \E node \in Nodes : node.id = node_ref[t].id
      BY <2>1 DEF NodeIsAlive, Nodes, NodesOf
    <2>3. found \in Nodes /\ found.id = node_ref[t].id
      BY <2>2 DEF NodeAt, Nodes, NodesOf
    <2> HIDE DEF found
    <2>4. found.key = key[t]
      BY <2>1, <2>3 DEF Lookups, RefsFit
    <2>5. TheMap[key[t]] = found.by
      BY <1>1, <2>3, <2>4, MapHasIts DEF TheMap
    <2>6. TheMap' = TheMap
      BY <2>1 DEF TheMap, MapOn, Nodes, NodesOf
    <2>7. Operation(t) = "get"
      BY <2>1, OperationOf DEF Getting
    <2>8. QED
      BY <2>1, <2>5, <2>6, <2>7, CallEnds, PerformsGet DEF Invariant, Getting
  <1>4. QED
    BY <1>2, <1>3

LEMMA DestroyClears ==
  ASSUME Typed, Destroy
  PROVE  AtomicMapStep
  <1>1. /\ \A t \in Threads : pc[t] = "idle"
        /\ UNCHANGED << pc, key, calls, answer >>
        /\ buckets' = [i \in DOMAIN buckets |-> << >>]
    BY DEF Destroy, locals
  <1>2. \A t \in Threads : TheCalls[t] = [op |-> "none"]
    BY <1>1, OperationOf DEF TheCalls
  <1>3. TheCalls' = TheCalls
    BY <1>1 DEF TheCalls, Operation, MyCall
  <1>4. TheMap' = [k \in Keys |-> NoCall]
    <2>1. \A i \in DOMAIN buckets' : ToSet(buckets'[i]) = {}
      BY <1>1 DEF ToSet
    <2>2. NodesOf(buckets') = {}
      BY <2>1 DEF NodesOf
    <2>3. \A k \in Keys : { node \in {} : node.key = k } = {}
      OBVIOUS
    <2>4. MapOn({}) = [k \in Keys |-> NoCall]
      BY <2>3 DEF MapOn
    <2>5. TheMap' = MapOn(NodesOf(buckets'))
      BY DEF TheMap, MapOn, Nodes, NodesOf
    <2>6. QED
      BY <2>2, <2>4, <2>5
  <1>5. Atomic!Clear
    BY <1>1, <1>2, <1>3, <1>4
       DEF Atomic!Clear, Atomic!Idle, TheMap, TheCalls, MapOn, Nodes, NodesOf
  <1>6. QED
    BY <1>5 DEF AtomicMapStep, Atomic!Next

\* An expansion does not change the map, or publishes what was removed meanwhile.
LEMMA ExpandMovesMap ==
  ASSUME Invariant, RemovedFit, NEW t \in Threads, Expand(t)
  PROVE  AtomicMapStep \/ UndoesRemovals
  <1>1. /\ pc[t] = "copy" /\ pc' = [pc EXCEPT ![t] = "idle"]
        /\ generation' = generation + 1 /\ UNCHANGED << answer, key, calls >>
    BY DEF Expand, Goto, locals
  <1>2. Nodes \subseteq NodesOf(buckets') /\ NodesOf(buckets') \subseteq Nodes \cup unlinked
    BY ExpandTable
  <1>3. Held' = { node.by : node \in NodesOf(buckets') } /\ Held = { node.by : node \in Nodes }
    BY HeldNodes DEF Held, NodesOf
  <1>4. CASE Held' = Held
    <2>1. TheCalls' = TheCalls
      BY <1>1, CallsStay DEF Invariant
    <2>2. ASSUME NEW x \in NodesOf(buckets'), x \notin Nodes PROVE FALSE
      <3>1. x \in unlinked /\ x \in Node
        BY <1>2, <2>2 DEF RemovedFit
      <3>2. PICK y \in Nodes : y.by = x.by
        BY <1>3, <1>4
      <3>3. y \in Node
        BY NodesInSlots DEF Nodes, Invariant, Typed
      <3>4. By[x] = By[y]
        BY <3>1, <3>2, <3>3 DEF By
      <3>5. QED
        BY <3>1, <3>4 DEF RemovedFit, ToldApart
    <2>3. NodesOf(buckets') = Nodes
      BY <1>2, <2>2
    <2>4. QED
      BY <1>1, <2>1, <2>3, SameTable, StutterOfMap
  <1>5. CASE Held' # Held
    <2>1. Expanding
      BY <1>1 DEF Expanding
    <2>2. Held \subseteq Held'
      BY <1>2, <1>3
    <2>3. Held' \ Held \subseteq { node.by : node \in unlinked }
      BY <1>2, <1>3
    <2>4. QED
      BY <1>1, <1>5, <2>1, <2>2, <2>3 DEF UndoesRemovals
  <1>6. QED
    BY <1>4, <1>5

LEMMA StepsAreMapSteps ==
  ASSUME Invariant, RemovedFit, Lookups, TableIsNarrow, [Next]_vars
  PROVE  AtomicMapStep \/ UndoesRemovals
  <1> USE DEF Goto, locals, table
  <1>1. CASE UNCHANGED vars
    <2>1. UNCHANGED << buckets, answer, pc, key, calls >>
      BY <1>1 DEF vars
    <2>2. TheMap' = TheMap /\ TheCalls' = TheCalls
      BY <2>1 DEF TheMap, MapOn, Nodes, NodesOf, TheCalls, Operation, MyCall
    <2>3. QED
      BY <2>1, <2>2, StutterOfMap
  <1>2. CASE Destroy
    BY <1>2, DestroyClears DEF Invariant
  <1>3. ASSUME NEW t \in Threads, Call(t) PROVE AtomicMapStep
    BY <1>3, CallBegins DEF Invariant
  <1>4. ASSUME NEW t \in Threads, PutCall(t) PROVE AtomicMapStep \/ UndoesRemovals
    <2>1. CASE PutLock(t) \/ ExpandLock(t) \/ StaysSmall(t) \/ Grows(t)
      <3>1. UNCHANGED << buckets, answer, key, calls >>
        BY <2>1 DEF PutLock, ExpandLock, StaysSmall, Grows
      <3>2. TheMap' = TheMap
        BY <3>1 DEF TheMap, MapOn, Nodes, NodesOf
      <3>3. TheCalls' = TheCalls
        BY <2>1, <3>1, CallsStay
           DEF PutLock, ExpandLock, StaysSmall, Grows, Putting, Invariant
      <3>4. QED
        BY <3>1, <3>2, <3>3, StutterOfMap
    <2>2. QED
      BY <1>4, <2>1, PutTakesEffect, ExpandMovesMap DEF PutCall
  <1>5. ASSUME NEW t \in Threads, RemoveCall(t) PROVE AtomicMapStep
    <2>1. CASE RemoveLock(t) \/ RemoveBucket(t) \/ RemoveFound(t)
      <3>1. UNCHANGED << buckets, answer, key, calls >>
        BY <2>1 DEF RemoveLock, RemoveBucket, RemoveFound
      <3>2. TheMap' = TheMap
        BY <3>1 DEF TheMap, MapOn, Nodes, NodesOf
      <3>3. TheCalls' = TheCalls
        BY <2>1, <3>1, CallsStay DEF RemoveLock, RemoveBucket, RemoveFound, Removing, Invariant
      <3>4. QED
        BY <3>1, <3>2, <3>3, StutterOfMap
    <2>2. QED
      BY <1>5, <2>1, RemoveTakesEffect DEF RemoveCall
  <1>6. ASSUME NEW t \in Threads, GetCall(t) PROVE AtomicMapStep
    <2>1. CASE GetLock(t) \/ GetBucket(t) \/ GetFound(t)
      <3>1. UNCHANGED << buckets, answer, key, calls >>
        BY <2>1 DEF GetLock, GetBucket, GetFound
      <3>2. TheMap' = TheMap
        BY <3>1 DEF TheMap, MapOn, Nodes, NodesOf
      <3>3. TheCalls' = TheCalls
        BY <2>1, <3>1, CallsStay DEF GetLock, GetBucket, GetFound, Getting, Invariant
      <3>4. QED
        BY <3>1, <3>2, <3>3, StutterOfMap
    <2>2. QED
      BY <1>6, <2>1, GetTakesEffect DEF GetCall
  <1>7. ASSUME NEW t \in Threads, UseFreedMemory(t) PROVE AtomicMapStep
    <2>1. UNCHANGED << buckets, answer, pc, key, calls >>
      BY <1>7 DEF UseFreedMemory
    <2>2. TheMap' = TheMap /\ TheCalls' = TheCalls
      BY <2>1 DEF TheMap, MapOn, Nodes, NodesOf, TheCalls, Operation, MyCall
    <2>3. QED
      BY <2>1, <2>2, StutterOfMap
  <1>8. QED
    BY <1>1, <1>2, <1>3, <1>4, <1>5, <1>6, <1>7 DEF Next, Step, Stopped

-----------------------------------------------------------------------------
(* Theorems                                                                *)

\* An object the map has taken, whatever is put over it, removed, moved to a larger
\* table or destroyed with the map, is in the table or has gone to its destructor
\* exactly once, unless its entry came back: an expansion has locked the map and not the
\* buckets, and may have copied an entry before a removal that is under way destructs it.
THEOREM ObjectsOwned == Spec => []ObjectsAreOwned
  <1>1. Invariant => ObjectsAreOwned
    BY DEF Invariant
  <1>2. QED
    BY <1>1, InvariantHolds, PTL

\* As long as the table has not been expanded, freed memory is touched only in a program
\* that both removes entries and looks entries up, or by an expansion from which a
\* removal took an entry.
THEOREM MisuseIsKnown == Spec => []OnlyKnownMisuse
  <1>1. Invariant => OnlyKnownMisuse
    BY DEF Invariant
  <1>2. QED
    BY <1>1, InvariantHolds, PTL

\* As long as an int can hold every number of buckets, and there are fewer calls than
\* values of a size_t: every key has at most one entry, the entry is where a lookup
\* looks for it, and without removals size counts the entries.
THEOREM TableStaysSound ==
  ASSUME SizeIsWide
  PROVE  Spec /\ []TableIsNarrow => []TableIsSound
  <1>1. Invariant /\ Lookups /\ SizeFits /\ TableIsNarrow => TableIsSound
    <2> SUFFICES ASSUME Invariant, Lookups, SizeFits, TableIsNarrow PROVE TableIsSound
      OBVIOUS
    <2>1. TypeOK
      <3>1. /\ n_buckets \in Nat \ {0} /\ size \in 0..2^SizeBits-1
            /\ buckets \in [0..n_buckets-1 -> Seq(Node)]
            /\ lock \in Threads \cup {NoThread}
            /\ bucketLock \in [0..n_buckets-1 -> Threads \cup {NoThread}]
            /\ register \in [Threads -> 0..2^SizeBits-1]
            /\ pc \in [Threads -> Places]
        BY DEF Invariant, Typed
      <3>2. Places = {"idle", "put", "putBucket", "expand", "grow", "copy", "remove",
                      "removeBucket", "removeScan", "removeEntry",
                      "get", "getBucket", "getScan", "getValue"}
        BY DEF Places, Putting, Removing, Getting
      <3>3. \A i \in DOMAIN buckets : buckets[i] \in Seq([key : Keys, by : Calls, id : Calls])
        BY <3>1 DEF Node
      <3>4. QED
        BY <3>1, <3>2, <3>3 DEF TypeOK
    <2>2. EntriesInTheirBucket
      <3>1. /\ n_buckets \in Nat /\ buckets \in [0..n_buckets-1 -> Seq(Node)]
            /\ Placed(buckets, n_buckets) /\ Distinct(buckets, Key)
        BY DEF Invariant, Typed, Lookups, EntriesFit
      <3>2. ASSUME NEW i \in DOMAIN buckets PROVE DOMAIN buckets[i] = 1..Len(buckets[i])
        BY <3>1, LenProperties
      <3>3. ASSUME NEW i \in DOMAIN buckets, NEW node \in ToSet(buckets[i])
            PROVE  i = CalculateIndex(n_buckets, Hash[node.key])
        <4>1. PICK j \in 1..Len(buckets[i]) : node = buckets[i][j]
          BY <3>2 DEF ToSet
        <4>2. QED
          BY <3>1, <4>1 DEF Placed
      <3>4. ASSUME NEW i \in DOMAIN buckets, NEW j \in DOMAIN buckets[i],
                   NEW l \in DOMAIN buckets[i], buckets[i][j].key = buckets[i][l].key
            PROVE  j = l
        <4>1. buckets[i] \in Seq(Node) /\ j \in 1..Len(buckets[i]) /\ l \in 1..Len(buckets[i])
          BY <3>1, <3>2
        <4>2. buckets[i][j] \in Node /\ buckets[i][l] \in Node
          BY <4>1, ElementOfSeq
        <4>3. Key[buckets[i][j]] = Key[buckets[i][l]]
          BY <3>4, <4>2 DEF Key
        <4>4. QED
          BY <3>1, <4>1, <4>3 DEF Distinct
      <3>5. QED
        BY <3>3, <3>4 DEF EntriesInTheirBucket
    <2>3. SizeWithoutRemoval
      BY DEF SizeFits, Growing, SizeWithoutRemoval
    <2>4. QED
      BY <2>1, <2>2, <2>3 DEF TableIsSound
  <1>2. QED
    BY <1>1, InvariantHolds, LookupsHold, SizeHolds, PTL

\* As long as an int can hold every number of buckets, the hash map is one on which every
\* call takes effect at one point between its beginning and its return, until freed
\* memory is touched: a put and a removal under the lock of the bucket, a get when it
\* reads the value, although no lock is held then.  Only the end of an expansion may undo
\* removals, and only such as took effect since it began.
THEOREM CallsAreAtomic == Spec /\ []TableIsNarrow => ImplementsAtomicMap
  <1>1. Init => Atomic!Init
    <2> SUFFICES ASSUME Init PROVE Atomic!Init
      OBVIOUS
    <2>1. NodesOf(buckets) = {}
      <3>1. \A i \in DOMAIN buckets : buckets[i] = << >>
        BY DEF Init
      <3>2. \A i \in DOMAIN buckets : ToSet(buckets[i]) = {}
        BY <3>1 DEF ToSet
      <3>3. QED
        BY <3>2 DEF NodesOf
    <2>2. MapOn({}) = [k \in Keys |-> NoCall]
      <3>1. \A k \in Keys : { node \in {} : node.key = k } = {}
        OBVIOUS
      <3>2. QED
        BY <3>1 DEF MapOn
    <2>3. TheMap = [k \in Keys |-> NoCall]
      BY <2>1, <2>2 DEF TheMap, Nodes
    <2>4. \A t \in Threads : Operation(t) = "none"
      BY OperationOf DEF Init
    <2>5. TheCalls = [t \in Threads |-> [op |-> "none"]]
      BY <2>4 DEF TheCalls
    <2>6. answer = [t \in Threads |-> NoCall]
      BY DEF Init
    <2>7. QED
      BY <2>3, <2>5, <2>6 DEF Atomic!Init, Atomic!Idle, TheMap, TheCalls, MapOn, Nodes, NodesOf
  <1>2. Invariant /\ RemovedFit /\ Lookups /\ TableIsNarrow /\ [Next]_vars
          => [Atomic!Next \/ UndoesRemovals]_(Atomic!vars)
    BY StepsAreMapSteps DEF AtomicMapStep
  <1>3. QED
    BY <1>1, <1>2, InvariantHolds, LookupsHold, PTL DEF Spec, ImplementsAtomicMap

===============================================================================
