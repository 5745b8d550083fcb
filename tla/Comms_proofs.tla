---------------------------- MODULE Comms_proofs ----------------------------
(***************************************************************************)
(* Theorems about Comms for any number of storages, any bound on commands  *)
(* and any values.                                                         *)
(***************************************************************************)
EXTENDS Comms, FiniteSetTheorems, SequenceTheorems, WellFoundedInduction, TLAPS

-----------------------------------------------------------------------------
(* The inductive invariant                                                 *)

\* What goes through a request pipe.
Items == {"s", "g"} \cup Values

Typed ==
    /\ coor \in Ids \cup {Ready, Exited, Finished}
    /\ list \in Seq(Ids)
    /\ globalId \in 0 .. MaxStorages
    /\ requests \in [Ids -> Seq(Items)]
    /\ answers \in [Ids -> Seq(Seq(Values))]
    /\ proc \in [Ids -> {"none", "read", "integer", "store", "answer", "overrun", "dead"}]
    /\ last \in [Ids -> [request : Items \cup {"unset"}, integer : Values \cup {"s", "g", 0}]]
    /\ values \in [Ids -> Seq(Values)]
    /\ mutable \in [Ids -> BOOLEAN]
    /\ signal \in [Ids -> BOOLEAN]
    /\ sent \in [Ids -> Seq(Values)]
    /\ toggled \in [Ids -> BOOLEAN]

\* The list is in the order of the launches and holds what runs; the storages that were
\* not launched yet are as they were at the start.
Ordered(l) == \A i, j \in 1 .. Len(l) : i < j => l[i] < l[j]
Live(c) == c \notin {Exited, Finished}
Launched ==
    /\ Ordered(list)
    /\ Live(coor) => Listed = Up
    /\ coor = Exited => Up = {}
    /\ \A s \in Ids : proc[s] = "none" <=> s >= globalId
    /\ \A s \in Ids : s >= globalId =>
          /\ requests[s] = << >> /\ values[s] = << >> /\ sent[s] = << >>
          /\ last[s].request = "unset"

\* The pipe q of a storage with n stores and g GETs in it. Of the first store only the
\* integer may be left (h = 1); the stores are the last n of those that were sent.
Pipe(q, n, h, g, b) ==
    /\ n \in 0 .. Len(b) /\ (h = 1 => n >= 1)
    /\ Len(q) = 2 * n - h + g
    /\ \A i \in 1 .. n : q[2 * i - h] = b[Len(b) - n + i]
    /\ \A i \in 1 .. n : i > h => q[2 * i - h - 1] = "s"
    /\ g = 1 => q[2 * n - h + 1] = "g"

\* a holds some of the first c values of b, in their order.
KeptFrom(a, b, c) ==
    \E places \in SUBSET (1 .. c) :
       /\ Cardinality(places) = Len(a)
       /\ \A i \in places : b[i] = a[Cardinality({j \in places : j <= i})]

\* The array a of a storage that has worked off c of the values b sent to it: all of them
\* are there unless it was toggled.
Caught(a, b, c, tog) ==
    /\ c >= 0
    /\ KeptFrom(a, b, c)
    /\ tog = FALSE => Len(a) = c /\ \A i \in 1 .. c : a[i] = b[i]

Half(p) == IF p = "integer" THEN 1 ELSE 0
Taken(p) == IF p = "store" THEN 1 ELSE 0
\* A GET that the storage has not read yet.
Asked(s, c, a, p) == IF c = s /\ a = << >> /\ p # "answer" THEN 1 ELSE 0

Stream(s, c, q, a, p, m, w, b, tog, n) ==
    /\ Pipe(q, n, Half(p), Asked(s, c, a, p), b)
    /\ p = "answer" => n = 0
    /\ Live(c) => /\ Caught(w, b, Len(b) - n - Taken(p), tog)
                  /\ p = "store" => m.integer = b[Len(b) - n]

\* A storage s: its pipes q and a, what it does (p), its last request m, its array w and
\* the values b sent to it.
Sound(s, c, q, a, p, m, w, b, tog) ==
    /\ a # << >> => c = s /\ p # "answer" /\ Len(a) = 1 /\ (tog = FALSE => a[1] = b)
    /\ p = "answer" => c = s
    /\ p \in {"read", "integer", "store", "answer"} =>
          \E n \in Nat : Stream(s, c, q, a, p, m, w, b, tog, n)
    /\ p \in {"read", "answer"} /\ m.request = "s" => m.integer \in Values
    /\ p = "store" => m.integer \in Values
    /\ Live(c) => KeptFrom(w, b, Len(b))
    /\ Len(w) <= MaxBuff

SoundAt(s) == Sound(s, coor, requests[s], answers[s], proc[s], last[s], values[s], sent[s],
                    toggled[s])

\* SIGUSR1 only comes from TOGGLE.
Quiet(s) == toggled[s] = FALSE => mutable[s] = TRUE /\ signal[s] = FALSE

Invariant == /\ Typed
             /\ Launched
             /\ \A s \in Ids : SoundAt(s) /\ Quiet(s)

-----------------------------------------------------------------------------
(* The pipe                                                                *)

\* STORE writes its request and its integer behind everything else.
LEMMA PipeStored ==
  ASSUME NEW q, q \in Seq(Items), NEW n, NEW h, h \in {0, 1}, NEW b, b \in Seq(Values),
         Pipe(q, n, h, 0, b), NEW v, v \in Values
  PROVE  Pipe(q \o << "s", v >>, n + 1, h, 0, Append(b, v))
  <1> DEFINE e  == << "s", v >>
             q2 == q \o e
             b2 == Append(b, v)
             k  == Len(b)
             l  == Len(q)
  <1>a. e \in Seq(Items) /\ Len(e) = 2 /\ e[1] = "s" /\ e[2] = v
    BY DEF Items
  <1>b. /\ k \in Nat /\ Len(b2) = k + 1 /\ b2[k + 1] = v
        /\ \A i \in 1 .. k : b2[i] = b[i]
    OBVIOUS
  <1>c. /\ l \in Nat /\ n \in 0 .. k /\ l = 2 * n - h /\ (h = 1 => n >= 1)
    BY DEF Pipe
  <1> HIDE DEF e
  <1>d. /\ Len(q2) = l + 2
        /\ \A i \in 1 .. l + 2 : q2[i] = IF i <= l THEN q[i] ELSE e[i - l]
    <2>1. q \in Seq(Items) /\ e \in Seq(Items)
      BY <1>a
    <2>2. /\ Len(q \o e) = Len(q) + Len(e)
          /\ \A i \in 1 .. Len(q) + Len(e) : (q \o e)[i] = IF i <= Len(q) THEN q[i]
                                                             ELSE e[i - Len(q)]
      BY <2>1, ConcatProperties
    <2>3. QED
      BY <1>a, <2>2
  <1> HIDE DEF q2, b2, k, l
  <1>e. 1 + l = l + 1 /\ 2 + l = l + 2 /\ (l + 1) - l = 1 /\ (l + 2) - l = 2
    BY <1>c
  <1>1. /\ l \in Nat /\ k \in Nat /\ n \in 0 .. k /\ l = 2 * n - h /\ (h = 1 => n >= 1)
        /\ Len(b2) = k + 1 /\ Len(q2) = l + 2
        /\ \A i \in 1 .. k : b2[i] = b[i]
        /\ b2[k + 1] = v
        /\ \A i \in 1 .. l : q2[i] = q[i]
        /\ q2[l + 1] = "s" /\ q2[l + 2] = v
    BY <1>a, <1>b, <1>c, <1>d, <1>e
  <1>2. /\ \A i \in 1 .. n : q[2 * i - h] = b[k - n + i]
        /\ \A i \in 1 .. n : i > h => q[2 * i - h - 1] = "s"
    BY DEF Pipe, k
  <1>3. ASSUME NEW i \in 1 .. n + 1
        PROVE  /\ q2[2 * i - h] = b2[k + 1 - (n + 1) + i]
               /\ i > h => q2[2 * i - h - 1] = "s"
    <2>1. CASE i = n + 1
      <3>1. 2 * i - h = l + 2 /\ 2 * i - h - 1 = l + 1 /\ k + 1 - (n + 1) + i = k + 1
        BY <1>1, <2>1
      <3>2. QED
        BY <1>1, <3>1
    <2>2. CASE i \in 1 .. n
      <3>1. /\ 2 * i - h \in 1 .. l /\ (i > h => 2 * i - h - 1 \in 1 .. l)
            /\ k + 1 - (n + 1) + i = k - n + i /\ k - n + i \in 1 .. k
        BY <1>1, <2>2
      <3>2. QED
        BY <1>1, <1>2, <2>2, <3>1
    <2>3. QED
      BY <1>1, <2>1, <2>2
  <1>4. n + 1 \in 0 .. k + 1 /\ (h = 1 => n + 1 >= 1) /\ l + 2 = 2 * (n + 1) - h + 0
    BY <1>1
  <1>5. Pipe(q2, n + 1, h, 0, b2)
    BY <1>1, <1>3, <1>4 DEF Pipe
  <1>6. QED
    BY <1>5 DEF q2, b2, e

\* GET writes its request behind everything else.
LEMMA PipeAsked ==
  ASSUME NEW q, q \in Seq(Items), NEW n, NEW h, h \in {0, 1}, NEW b, b \in Seq(Values),
         Pipe(q, n, h, 0, b)
  PROVE  Pipe(Append(q, "g"), n, h, 1, b)
  <1> DEFINE q2 == Append(q, "g")
             l  == Len(q)
  <1>1. /\ l \in Nat /\ Len(b) \in Nat /\ n \in 0 .. Len(b) /\ l = 2 * n - h
        /\ (h = 1 => n >= 1)
        /\ Len(q2) = l + 1
        /\ \A i \in 1 .. l : q2[i] = q[i]
        /\ q2[l + 1] = "g"
    BY DEF Pipe, Items
  <1>2. /\ \A i \in 1 .. n : q[2 * i - h] = b[Len(b) - n + i]
        /\ \A i \in 1 .. n : i > h => q[2 * i - h - 1] = "s"
    BY DEF Pipe
  <1> HIDE DEF q2, l
  <1>3. \A i \in 1 .. n : 2 * i - h \in 1 .. l /\ (i > h => 2 * i - h - 1 \in 1 .. l)
    BY <1>1
  <1>4. 2 * n - h + 1 = l + 1
    BY <1>1
  <1>5. QED
    BY <1>1, <1>2, <1>3, <1>4 DEF Pipe, q2

\* Between two requests the pipe shows a store, or the GET alone.
LEMMA PipeRead ==
  ASSUME NEW q, q \in Seq(Items), q # << >>, NEW n, NEW g, g \in {0, 1},
         NEW b, b \in Seq(Values), Pipe(q, n, 0, g, b)
  PROVE  /\ Head(q) = "s" => Pipe(Tail(q), n, 1, g, b)
         /\ Head(q) # "s" => g = 1 /\ n = 0 /\ Pipe(Tail(q), 0, 0, 0, b)
  <1> DEFINE q2 == Tail(q)
             l  == Len(q)
  <1>1. /\ l \in Nat \ {0} /\ Len(b) \in Nat /\ n \in 0 .. Len(b) /\ l = 2 * n + g
        /\ q2 \in Seq(Items) /\ Len(q2) = l - 1
        /\ \A i \in 1 .. l - 1 : q2[i] = q[i + 1]
        /\ Head(q) = q[1]
    BY DEF Pipe, Items
  <1>2. /\ \A i \in 1 .. n : q[2 * i] = b[Len(b) - n + i]
        /\ \A i \in 1 .. n : q[2 * i - 1] = "s"
        /\ g = 1 => q[2 * n + 1] = "g"
    BY <1>1 DEF Pipe
  <1> HIDE DEF q2, l
  <1>3. CASE n = 0
    <2>1. g = 1 /\ l = 1 /\ q[1] = "g"
      BY <1>1, <1>2, <1>3
    <2>2. Len(q2) = 0
      BY <1>1, <2>1
    <2>3. Pipe(q2, 0, 0, 0, b)
      BY <1>1, <2>2 DEF Pipe
    <2>4. QED
      BY <1>1, <1>3, <2>1, <2>3 DEF q2
  <1>4. CASE n # 0
    <2>1. n >= 1 /\ 1 \in 1 .. n /\ 2 * 1 - 1 = 1
      BY <1>1, <1>4
    <2>2. q[1] = "s"
      BY <1>2, <2>1
    <2>3. ASSUME NEW i \in 1 .. n
          PROVE  /\ q2[2 * i - 1] = b[Len(b) - n + i]
                 /\ i > 1 => q2[2 * i - 1 - 1] = "s"
      <3>1. /\ 2 * i - 1 \in 1 .. l - 1 /\ (2 * i - 1) + 1 = 2 * i
            /\ i > 1 => (2 * i - 1 - 1 \in 1 .. l - 1 /\ (2 * i - 1 - 1) + 1 = 2 * i - 1)
        BY <1>1
      <3>2. QED
        BY <1>1, <1>2, <3>1
    <2>4. g = 1 => q2[2 * n - 1 + 1] = "g"
      <3>1. g = 1 => (2 * n - 1 + 1 \in 1 .. l - 1 /\ (2 * n - 1 + 1) + 1 = 2 * n + 1)
        BY <1>1, <2>1
      <3>2. QED
        BY <1>1, <1>2, <3>1
    <2>5. l - 1 = 2 * n - 1 + g
      BY <1>1
    <2>6. Pipe(q2, n, 1, g, b)
      BY <1>1, <2>1, <2>3, <2>4, <2>5 DEF Pipe
    <2>7. QED
      BY <1>1, <2>2, <2>6 DEF q2
  <1>5. QED
    BY <1>3, <1>4

\* Behind the request to store comes its integer.
LEMMA PipeInteger ==
  ASSUME NEW q, q \in Seq(Items), NEW n, NEW g, g \in {0, 1},
         NEW b, b \in Seq(Values), Pipe(q, n, 1, g, b)
  PROVE  /\ n \in 1 .. Len(b) /\ q # << >> /\ Head(q) = b[Len(b) - n + 1]
         /\ Pipe(Tail(q), n - 1, 0, g, b)
  <1> DEFINE q2 == Tail(q)
             l  == Len(q)
  <1>0. /\ l \in Nat /\ Len(b) \in Nat /\ n \in 0 .. Len(b) /\ l = 2 * n - 1 + g /\ n >= 1
    BY DEF Pipe
  <1>a. l \in Nat \ {0}
    BY <1>0
  <1>1. /\ q # << >> /\ Len(q2) = l - 1
        /\ \A i \in 1 .. l - 1 : q2[i] = q[i + 1]
        /\ Head(q) = q[1]
    BY <1>a
  <1>2. /\ \A i \in 1 .. n : q[2 * i - 1] = b[Len(b) - n + i]
        /\ \A i \in 1 .. n : i > 1 => q[2 * i - 1 - 1] = "s"
        /\ g = 1 => q[2 * n - 1 + 1] = "g"
    BY DEF Pipe
  <1> HIDE DEF q2, l
  <1>3. q[1] = b[Len(b) - n + 1]
    <2>1. 1 \in 1 .. n /\ 2 * 1 - 1 = 1
      BY <1>0
    <2>2. QED
      BY <1>2, <2>1
  <1>4. ASSUME NEW i \in 1 .. n - 1
        PROVE  q2[2 * i - 0] = b[Len(b) - (n - 1) + i] /\ q2[2 * i - 0 - 1] = "s"
    <2>1. /\ i + 1 \in 1 .. n /\ i + 1 > 1
          /\ 2 * i - 0 \in 1 .. l - 1 /\ (2 * i - 0) + 1 = 2 * (i + 1) - 1
          /\ 2 * i - 0 - 1 \in 1 .. l - 1 /\ (2 * i - 0 - 1) + 1 = 2 * (i + 1) - 1 - 1
          /\ Len(b) - (n - 1) + i = Len(b) - n + (i + 1)
      BY <1>0
    <2>2. q[2 * (i + 1) - 1] = b[Len(b) - n + (i + 1)] /\ q[2 * (i + 1) - 1 - 1] = "s"
      BY <1>2, <2>1
    <2>3. q2[2 * i - 0] = q[(2 * i - 0) + 1] /\ q2[2 * i - 0 - 1] = q[(2 * i - 0 - 1) + 1]
      BY <1>1, <2>1
    <2>4. QED
      BY <2>1, <2>2, <2>3
  <1>5. g = 1 => q2[2 * (n - 1) - 0 + 1] = "g"
    <2>1. g = 1 => (2 * (n - 1) - 0 + 1 \in 1 .. l - 1
                    /\ (2 * (n - 1) - 0 + 1) + 1 = 2 * n - 1 + 1)
      BY <1>0
    <2>2. QED
      BY <1>1, <1>2, <2>1
  <1>6. l - 1 = 2 * (n - 1) - 0 + g /\ n - 1 \in 0 .. Len(b) /\ ~(0 = 1)
    BY <1>0
  <1>7. Pipe(q2, n - 1, 0, g, b)
    BY <1>1, <1>4, <1>5, <1>6 DEF Pipe
  <1>8. QED
    BY <1>0, <1>1, <1>3, <1>7 DEF q2

-----------------------------------------------------------------------------
(* The array                                                               *)

LEMMA KeptNone ==
  ASSUME NEW b
  PROVE  KeptFrom(<< >>, b, 0)
  <1>1. {} \in SUBSET (1 .. 0) /\ Cardinality({}) = 0 /\ Len(<< >>) = 0
    BY FS_EmptySet
  <1>2. \A i \in {} : b[i] = << >>[Cardinality({j \in {} : j <= i})]
    OBVIOUS
  <1>3. QED
    BY <1>1, <1>2 DEF KeptFrom

\* Values that are passed over change nothing.
LEMMA KeptOver ==
  ASSUME NEW a, NEW b, NEW c, c \in Nat, KeptFrom(a, b, c), NEW d, d \in Nat, c <= d
  PROVE  KeptFrom(a, b, d)
  <1>1. PICK P \in SUBSET (1 .. c) :
           /\ Cardinality(P) = Len(a)
           /\ \A i \in P : b[i] = a[Cardinality({j \in P : j <= i})]
    BY DEF KeptFrom
  <1>2. P \in SUBSET (1 .. d)
    OBVIOUS
  <1>3. QED
    BY <1>1, <1>2 DEF KeptFrom

LEMMA KeptSent ==
  ASSUME NEW a, NEW b, b \in Seq(Values), NEW c, c \in Nat, c <= Len(b), KeptFrom(a, b, c),
         NEW v, v \in Values
  PROVE  KeptFrom(a, Append(b, v), c)
  <1>1. PICK P \in SUBSET (1 .. c) :
           /\ Cardinality(P) = Len(a)
           /\ \A i \in P : b[i] = a[Cardinality({j \in P : j <= i})]
    BY DEF KeptFrom
  <1>2. \A i \in P : Append(b, v)[i] = b[i]
    OBVIOUS
  <1>3. \A i \in P : Append(b, v)[i] = a[Cardinality({j \in P : j <= i})]
    BY <1>1, <1>2
  <1>4. QED
    BY <1>1, <1>3 DEF KeptFrom

\* The next value goes to the end of the array.
LEMMA KeptOne ==
  ASSUME NEW a, a \in Seq(Values), NEW b, b \in Seq(Values), NEW c, c \in Nat,
         c + 1 <= Len(b), KeptFrom(a, b, c)
  PROVE  KeptFrom(Append(a, b[c + 1]), b, c + 1)
  <1> DEFINE UpTo(Q, i) == {j \in Q : j <= i}
             e == b[c + 1]
  <1>0. e \in Values
    OBVIOUS
  <1>1. PICK P \in SUBSET (1 .. c) :
           /\ Cardinality(P) = Len(a)
           /\ \A i \in P : b[i] = a[Cardinality(UpTo(P, i))]
    BY DEF KeptFrom
  <1> DEFINE R == P \cup {c + 1}
  <1>2. IsFiniteSet(P)
    <2>1. 1 \in Int /\ c \in Int
      OBVIOUS
    <2>2. IsFiniteSet(1 .. c)
      BY <2>1, FS_Interval
    <2>3. QED
      BY <1>1, <2>2, FS_Subset
  <1>3. c + 1 \notin P
    OBVIOUS
  <1>4. Cardinality(R) = Len(a) + 1
    <2>1. Cardinality(R) = Cardinality(P) + 1
      BY <1>2, <1>3, FS_AddElement
    <2>2. QED
      BY <1>1, <2>1
  <1>5. R \in SUBSET (1 .. c + 1)
    OBVIOUS
  <1>6. Len(Append(a, e)) = Len(a) + 1 /\ Append(a, e)[Len(a) + 1] = e
        /\ \A k \in 1 .. Len(a) : Append(a, e)[k] = a[k]
    BY <1>0
  <1>7. ASSUME NEW i \in P PROVE b[i] = Append(a, e)[Cardinality(UpTo(R, i))]
    <2>1. UpTo(R, i) = UpTo(P, i)
      OBVIOUS
    <2>2. UpTo(P, i) \subseteq P /\ i \in UpTo(P, i)
      OBVIOUS
    <2>3. IsFiniteSet(UpTo(P, i)) /\ Cardinality(UpTo(P, i)) <= Cardinality(P)
      BY <1>2, <2>2, FS_Subset
    <2>4. Cardinality(UpTo(P, i)) \in Nat /\ Cardinality(UpTo(P, i)) # 0
      <3>1. UpTo(P, i) # {}
        BY <2>2
      <3>2. QED
        BY <2>3, <3>1, FS_CardinalityType, FS_EmptySet
    <2>5. b[i] = a[Cardinality(UpTo(P, i))]
      BY <1>1
    <2> DEFINE k == Cardinality(UpTo(P, i))
    <2>6. k \in 1 .. Len(a)
      <3>1. k \in Nat /\ k # 0 /\ k <= Len(a)
        BY <1>1, <2>3, <2>4
      <3> HIDE DEF k
      <3>2. QED
        BY <3>1
    <2> HIDE DEF k, e
    <2>7. Append(a, e)[k] = a[k]
      BY <1>6, <2>6
    <2>8. QED
      BY <2>1, <2>5, <2>7 DEF k
  <1>8. b[c + 1] = Append(a, e)[Cardinality(UpTo(R, c + 1))]
    <2>1. UpTo(R, c + 1) = R
      <3>1. \A j \in R : j <= c + 1
        BY <1>5
      <3> HIDE DEF R
      <3>2. QED
        BY <3>1
    <2>2. QED
      BY <1>4, <1>6, <2>1
  <1>9. \A i \in R : b[i] = Append(a, e)[Cardinality(UpTo(R, i))]
    BY <1>7, <1>8
  <1>10. Cardinality(R) = Len(Append(a, e))
    BY <1>4, <1>6
  <1> HIDE DEF R
  <1>11. KeptFrom(Append(a, e), b, c + 1)
    BY <1>5, <1>9, <1>10 DEF KeptFrom
  <1>12. QED
    BY <1>11

\* Whatever comes next may be passed over by a storage that was toggled.
LEMMA CaughtOver ==
  ASSUME NEW a, NEW b, b \in Seq(Values), NEW c, c \in Int, NEW tog, tog # FALSE,
         Caught(a, b, c, tog)
  PROVE  Caught(a, b, c + 1, tog)
  <1>1. c \in Nat /\ KeptFrom(a, b, c)
    BY DEF Caught
  <1>2. c + 1 \in Nat /\ c <= c + 1
    BY <1>1
  <1>3. KeptFrom(a, b, c + 1)
    BY <1>1, <1>2, KeptOver
  <1>4. c + 1 >= 0
    BY <1>1
  <1>5. QED
    BY <1>3, <1>4 DEF Caught

LEMMA CaughtOne ==
  ASSUME NEW a, a \in Seq(Values), NEW b, b \in Seq(Values), NEW c, c \in Int,
         c + 1 <= Len(b), NEW tog, Caught(a, b, c, tog)
  PROVE  Caught(Append(a, b[c + 1]), b, c + 1, tog)
  <1>1. c \in Nat /\ KeptFrom(a, b, c)
    BY DEF Caught
  <1>2. KeptFrom(Append(a, b[c + 1]), b, c + 1)
    BY <1>1, KeptOne
  <1>3. ASSUME tog = FALSE
        PROVE  /\ Len(Append(a, b[c + 1])) = c + 1
               /\ \A i \in 1 .. c + 1 : Append(a, b[c + 1])[i] = b[i]
    <2>1. Len(a) = c /\ \A i \in 1 .. c : a[i] = b[i]
      BY <1>3 DEF Caught
    <2> DEFINE e == b[c + 1]
    <2>2. e \in Values
      BY <1>1
    <2> HIDE DEF e
    <2>3. /\ Len(Append(a, e)) = c + 1 /\ Append(a, e)[c + 1] = e
          /\ \A i \in 1 .. c : Append(a, e)[i] = a[i]
      BY <2>1, <2>2
    <2>4. \A i \in 1 .. c + 1 : i \in 1 .. c \/ i = c + 1
      BY <1>1
    <2>5. \A i \in 1 .. c + 1 : Append(a, e)[i] = b[i]
      BY <2>1, <2>3, <2>4 DEF e
    <2>6. QED
      BY <2>3, <2>5 DEF e
  <1>4. c + 1 >= 0
    BY <1>1
  <1>5. QED
    BY <1>2, <1>3, <1>4 DEF Caught

LEMMA CaughtSent ==
  ASSUME NEW a, NEW b, b \in Seq(Values), NEW c, c \in Int, c <= Len(b), NEW tog,
         Caught(a, b, c, tog), NEW v, v \in Values
  PROVE  Caught(a, Append(b, v), c, tog)
  <1>1. c \in Nat /\ KeptFrom(a, b, c)
    BY DEF Caught
  <1>2. KeptFrom(a, Append(b, v), c)
    BY <1>1, KeptSent
  <1>3. \A i \in 1 .. c : Append(b, v)[i] = b[i]
    BY <1>1
  <1>4. QED
    BY <1>2, <1>3 DEF Caught

-----------------------------------------------------------------------------
(* One storage under the coordinator's steps                               *)

LEMMA AskedFacts ==
  ASSUME NEW s, NEW c, NEW a, NEW p
  PROVE  /\ Asked(s, c, a, p) \in {0, 1} /\ Half(p) \in {0, 1} /\ Taken(p) \in {0, 1}
         /\ c # s => Asked(s, c, a, p) = 0
  BY DEF Asked, Half, Taken

\* A storage does not notice what the coordinator does with others.
LEMMA SoundElsewhere ==
  ASSUME NEW s, NEW c, NEW q, NEW a, NEW p, NEW m, NEW w, NEW b, NEW tog,
         Sound(s, c, q, a, p, m, w, b, tog),
         NEW d, c # s, d # s, Live(d) => Live(c)
  PROVE  Sound(s, d, q, a, p, m, w, b, tog)
  <1>1. Asked(s, c, a, p) = 0 /\ Asked(s, d, a, p) = 0
    BY AskedFacts
  <1>2. \A n \in Nat : Stream(s, c, q, a, p, m, w, b, tog, n)
                         => Stream(s, d, q, a, p, m, w, b, tog, n)
    BY <1>1 DEF Stream
  <1>3. QED
    BY <1>2 DEF Sound

LEMMA SoundLaunched ==
  ASSUME NEW s, NEW c, c # s, NEW a, NEW p, NEW m, NEW tog,
         Sound(s, c, << >>, a, p, m, << >>, << >>, tog), m.request # "s"
  PROVE  Sound(s, c, << >>, a, "read", m, << >>, << >>, tog)
  <1>1. Asked(s, c, a, "read") = 0
    BY AskedFacts
  <1>2. Pipe(<< >>, 0, 0, 0, << >>)
    BY DEF Pipe
  <1>3. Caught(<< >>, << >>, 0, tog)
    BY KeptNone DEF Caught
  <1>4. Len(<< >>) - 0 - Taken("read") = 0 /\ Half("read") = 0
    BY DEF Taken, Half
  <1>5. Stream(s, c, << >>, a, "read", m, << >>, << >>, tog, 0)
    BY <1>1, <1>2, <1>3, <1>4 DEF Stream
  <1>6. QED
    BY <1>5 DEF Sound

LEMMA SoundStored ==
  ASSUME NEW s, NEW c, c # s, NEW q, q \in Seq(Items), NEW a, NEW p, NEW m,
         NEW w, NEW b, b \in Seq(Values), NEW tog,
         Sound(s, c, q, a, p, m, w, b, tog), NEW v, v \in Values
  PROVE  Sound(s, c, q \o << "s", v >>, a, p, m, w, Append(b, v), tog)
  <1> DEFINE q2 == q \o << "s", v >>
             b2 == Append(b, v)
  <1>1. Asked(s, c, a, p) = 0 /\ Half(p) \in {0, 1} /\ Taken(p) \in {0, 1}
    BY AskedFacts
  <1>2. a = << >> /\ p # "answer"
    BY DEF Sound
  <1>3. Len(b) \in Nat /\ Len(b2) = Len(b) + 1 /\ \A i \in 1 .. Len(b) : b2[i] = b[i]
    OBVIOUS
  <1>4. ASSUME NEW n \in Nat, Stream(s, c, q, a, p, m, w, b, tog, n)
        PROVE  Stream(s, c, q2, a, p, m, w, b2, tog, n + 1)
    <2>1. Pipe(q, n, Half(p), 0, b) /\ n \in 0 .. Len(b)
      BY <1>1, <1>4 DEF Stream, Pipe
    <2>2. Pipe(q2, n + 1, Half(p), 0, b2)
      BY <1>1, <2>1, PipeStored
    <2> DEFINE k == Len(b) - n - Taken(p)
    <2>3. k \in Int /\ k <= Len(b) /\ Len(b2) - (n + 1) - Taken(p) = k
      BY <1>1, <1>3, <2>1
    <2>4. ASSUME Live(c)
          PROVE  /\ Caught(w, b2, k, tog)
                 /\ p = "store" => m.integer = b2[Len(b2) - (n + 1)]
      <3>1. Caught(w, b, k, tog) /\ (p = "store" => m.integer = b[Len(b) - n])
        BY <1>4, <2>4 DEF Stream
      <3>2. p = "store" => Len(b) - n \in 1 .. Len(b)
        <4>1. p = "store" => k = Len(b) - n - 1
          BY DEF Taken
        <4>2. k >= 0
          BY <3>1 DEF Caught
        <4>3. QED
          BY <1>3, <2>1, <4>1, <4>2
      <3> HIDE DEF k
      <3>3. Caught(w, b2, k, tog)
        BY <2>3, <3>1, CaughtSent
      <3>4. Len(b2) - (n + 1) = Len(b) - n
        BY <1>3, <2>1
      <3> HIDE DEF b2
      <3>5. QED
        BY <1>3, <3>1, <3>2, <3>3, <3>4
    <2>5. QED
      BY <1>1, <1>2, <2>2, <2>3, <2>4 DEF Stream
  <1>5. \A n \in Nat : n + 1 \in Nat
    OBVIOUS
  <1>6. Live(c) => KeptFrom(w, b2, Len(b2))
    <2>1. Live(c) => KeptFrom(w, b, Len(b))
      BY DEF Sound
    <2>2. Live(c) => KeptFrom(w, b2, Len(b))
      BY <1>3, <2>1, KeptSent
    <2>3. Len(b2) \in Nat /\ Len(b) <= Len(b2)
      BY <1>3
    <2>4. QED
      BY <1>3, <2>2, <2>3, KeptOver
  <1> HIDE DEF q2, b2
  <1>7. Sound(s, c, q2, a, p, m, w, b2, tog)
    BY <1>2, <1>4, <1>5, <1>6 DEF Sound
  <1>8. QED
    BY <1>7 DEF q2, b2

LEMMA SoundAsked ==
  ASSUME NEW s, NEW c, c # s, Live(c), NEW q, q \in Seq(Items), NEW a, NEW p, NEW m,
         NEW w, NEW b, b \in Seq(Values), NEW tog,
         Sound(s, c, q, a, p, m, w, b, tog), Live(s)
  PROVE  Sound(s, s, Append(q, "g"), a, p, m, w, b, tog)
  <1> DEFINE q2 == Append(q, "g")
  <1>1. Asked(s, c, a, p) = 0 /\ Half(p) \in {0, 1}
    BY AskedFacts
  <1>2. a = << >> /\ p # "answer"
    BY DEF Sound
  <1>3. Asked(s, s, a, p) = 1
    BY <1>2 DEF Asked
  <1>4. ASSUME NEW n \in Nat, Stream(s, c, q, a, p, m, w, b, tog, n)
        PROVE  Stream(s, s, q2, a, p, m, w, b, tog, n)
    <2>1. Pipe(q, n, Half(p), 0, b)
      BY <1>1, <1>4 DEF Stream
    <2>2. Pipe(q2, n, Half(p), 1, b)
      BY <1>1, <2>1, PipeAsked
    <2> HIDE DEF q2
    <2>3. QED
      BY <1>2, <1>3, <1>4, <2>2 DEF Stream
  <1> HIDE DEF q2
  <1>5. Sound(s, s, q2, a, p, m, w, b, tog)
    BY <1>2, <1>4 DEF Sound
  <1>6. QED
    BY <1>5 DEF q2

\* The answer of a storage that was not toggled shows every value sent.
Whole(a, b, tog) == tog = FALSE => Head(a) = b

\* After the answer nothing of the GET is left.
LEMMA SoundTold ==
  ASSUME NEW s, NEW q, NEW a, a \in Seq(Seq(Values)), a # << >>, NEW p, NEW m, NEW w, NEW b,
         NEW tog, Sound(s, s, q, a, p, m, w, b, tog), NEW d, d # s, Live(s)
  PROVE  Sound(s, d, q, Tail(a), p, m, w, b, tog)
  <1>1. Len(a) = 1 /\ p # "answer"
    BY DEF Sound
  <1>2. Tail(a) = << >>
    <2>1. Tail(a) \in Seq(Seq(Values)) /\ Len(Tail(a)) = 0
      BY <1>1, HeadTailProperties
    <2>2. QED
      BY <2>1, EmptySeq
  <1>3. Asked(s, s, a, p) = 0 /\ Asked(s, d, << >>, p) = 0
    BY DEF Asked
  <1>4. \A n \in Nat : Stream(s, s, q, a, p, m, w, b, tog, n)
                         => Stream(s, d, q, << >>, p, m, w, b, tog, n)
    BY <1>3 DEF Stream
  <1>5. Sound(s, d, q, << >>, p, m, w, b, tog)
    BY <1>1, <1>4 DEF Sound
  <1>6. QED
    BY <1>2, <1>5

LEMMA ToldWhole ==
  ASSUME NEW s, NEW q, NEW a, a \in Seq(Seq(Values)), a # << >>, NEW p, NEW m, NEW w, NEW b,
         NEW tog, Sound(s, s, q, a, p, m, w, b, tog)
  PROVE  Whole(a, b, tog)
  <1>1. (tog = FALSE => a[1] = b) /\ Head(a) = a[1]
    BY DEF Sound
  <1>2. QED
    BY <1>1 DEF Whole

LEMMA SoundToggled ==
  ASSUME NEW s, NEW c, NEW q, NEW a, NEW p, NEW m, NEW w, NEW b, NEW tog,
         Sound(s, c, q, a, p, m, w, b, tog)
  PROVE  Sound(s, c, q, a, p, m, w, b, TRUE)
  <1>1. \A k : Caught(w, b, k, tog) => Caught(w, b, k, TRUE)
    BY DEF Caught
  <1>2. \A n \in Nat : Stream(s, c, q, a, p, m, w, b, tog, n)
                         => Stream(s, c, q, a, p, m, w, b, TRUE, n)
    BY <1>1 DEF Stream
  <1>3. QED
    BY <1>2 DEF Sound

\* Killed, overrun: only what was kept remains.
LEMMA SoundStopped ==
  ASSUME NEW s, NEW c, NEW q, NEW a, NEW p, NEW m, NEW w, NEW b, NEW tog,
         Sound(s, c, q, a, p, m, w, b, tog), NEW stop, stop \in {"dead", "overrun"}
  PROVE  Sound(s, c, q, a, stop, m, w, b, tog)
  BY DEF Sound

-----------------------------------------------------------------------------
(* One storage under its own steps                                         *)

\* At the pipe: a request to store, or the GET the coordinator waits for.
LEMMA SoundRead ==
  ASSUME NEW s, NEW c, NEW q, q \in Seq(Items), q # << >>, NEW a, NEW m, NEW w,
         NEW b, b \in Seq(Values), NEW tog, Sound(s, c, q, a, "read", m, w, b, tog),
         NEW r, r.request = Head(q)
  PROVE  /\ Head(q) = "s" => Sound(s, c, Tail(q), a, "integer", r, w, b, tog)
         /\ Head(q) # "s" => Sound(s, c, Tail(q), a, "answer", r, w, b, tog)
  <1>1. PICK n \in Nat : Stream(s, c, q, a, "read", m, w, b, tog, n)
    BY DEF Sound
  <1> DEFINE g == Asked(s, c, a, "read")
  <1>2. /\ g \in {0, 1} /\ Half("read") = 0 /\ Half("integer") = 1 /\ Half("answer") = 0
        /\ Taken("read") = 0 /\ Taken("integer") = 0 /\ Taken("answer") = 0
    BY AskedFacts DEF Half, Taken
  <1>3. Pipe(q, n, 0, g, b)
    BY <1>1, <1>2 DEF Stream
  <1>4. Live(c) => Caught(w, b, Len(b) - n - 0, tog)
    BY <1>1, <1>2 DEF Stream
  <1>a. /\ Head(q) = "s" => Pipe(Tail(q), n, 1, g, b)
        /\ Head(q) # "s" => g = 1 /\ n = 0 /\ Pipe(Tail(q), 0, 0, 0, b)
    <2>1. g \in {0, 1}
      BY <1>2
    <2> HIDE DEF g
    <2>2. QED
      BY <1>3, <2>1, PipeRead
  <1>5. ASSUME Head(q) = "s" PROVE Sound(s, c, Tail(q), a, "integer", r, w, b, tog)
    <2>1. Pipe(Tail(q), n, 1, g, b)
      BY <1>5, <1>a
    <2>2. Asked(s, c, a, "integer") = g
      BY DEF Asked
    <2>3. Stream(s, c, Tail(q), a, "integer", r, w, b, tog, n)
      BY <1>2, <1>4, <2>1, <2>2 DEF Stream
    <2>4. QED
      BY <2>3 DEF Sound
  <1>6. ASSUME Head(q) # "s" PROVE Sound(s, c, Tail(q), a, "answer", r, w, b, tog)
    <2>1. g = 1 /\ n = 0 /\ Pipe(Tail(q), 0, 0, 0, b)
      BY <1>6, <1>a
    <2>2. c = s /\ a = << >>
      BY <2>1 DEF Asked, g
    <2>3. Asked(s, c, a, "answer") = 0
      BY DEF Asked
    <2>4. Stream(s, c, Tail(q), a, "answer", r, w, b, tog, 0)
      BY <1>2, <1>4, <2>1, <2>3 DEF Stream
    <2>5. QED
      BY <1>6, <2>2, <2>4 DEF Sound
  <1>7. QED
    BY <1>5, <1>6

LEMMA SoundInteger ==
  ASSUME NEW s, NEW c, NEW q, q \in Seq(Items), NEW a, NEW m, NEW w,
         NEW b, b \in Seq(Values), NEW tog, Sound(s, c, q, a, "integer", m, w, b, tog),
         NEW r, r.integer = Head(q)
  PROVE  Sound(s, c, Tail(q), a, "store", r, w, b, tog)
  <1>1. PICK n \in Nat : Stream(s, c, q, a, "integer", m, w, b, tog, n)
    BY DEF Sound
  <1> DEFINE g == Asked(s, c, a, "integer")
  <1>2. /\ g \in {0, 1} /\ Half("integer") = 1 /\ Half("store") = 0
        /\ Taken("integer") = 0 /\ Taken("store") = 1
    BY AskedFacts DEF Half, Taken
  <1>3. Pipe(q, n, 1, g, b)
    BY <1>1, <1>2 DEF Stream
  <1>4. /\ n \in 1 .. Len(b) /\ Head(q) = b[Len(b) - n + 1]
        /\ Pipe(Tail(q), n - 1, 0, g, b)
    BY <1>2, <1>3, PipeInteger
  <1>5. Live(c) => Caught(w, b, Len(b) - n - 0, tog)
    BY <1>1, <1>2 DEF Stream
  <1>6. /\ Len(b) \in Nat /\ n - 1 \in Nat /\ Len(b) - n - 0 = Len(b) - (n - 1) - 1
        /\ Len(b) - n + 1 = Len(b) - (n - 1) /\ Len(b) - n + 1 \in 1 .. Len(b)
    BY <1>4
  <1>7. Asked(s, c, a, "store") = g
    BY DEF Asked
  <1>8. Stream(s, c, Tail(q), a, "store", r, w, b, tog, n - 1)
    BY <1>2, <1>4, <1>5, <1>6, <1>7 DEF Stream
  <1>9. r.integer \in Values
    BY <1>4, <1>6
  <1>10. QED
    BY <1>6, <1>8, <1>9 DEF Sound

\* The integer goes into the array, or is passed over.
LEMMA SoundKept ==
  ASSUME NEW s, NEW c, NEW q, NEW a, NEW m, NEW w, w \in Seq(Values),
         NEW b, b \in Seq(Values), NEW tog, Sound(s, c, q, a, "store", m, w, b, tog)
  PROVE  /\ Len(w) < MaxBuff =>
               Sound(s, c, q, a, "read", m, Append(w, m.integer), b, tog)
         /\ tog # FALSE => Sound(s, c, q, a, "read", m, w, b, tog)
  <1>1. PICK n \in Nat : Stream(s, c, q, a, "store", m, w, b, tog, n)
    BY DEF Sound
  <1> DEFINE g == Asked(s, c, a, "store")
             k == Len(b) - n - 1
  <1>2. /\ g \in {0, 1} /\ Half("read") = 0 /\ Half("store") = 0
        /\ Taken("read") = 0 /\ Taken("store") = 1 /\ Asked(s, c, a, "read") = g
    BY AskedFacts DEF Half, Taken, Asked
  <1>3. Pipe(q, n, 0, g, b)
    BY <1>1, <1>2 DEF Stream
  <1>4. Live(c) => Caught(w, b, k, tog) /\ m.integer = b[Len(b) - n]
    BY <1>1, <1>2 DEF Stream
  <1>5. n \in 0 .. Len(b) /\ Len(b) \in Nat
    BY <1>3 DEF Pipe
  <1>6. k \in Int /\ k + 1 <= Len(b) /\ k + 1 = Len(b) - n - 0 /\ k + 1 = Len(b) - n
    BY <1>5
  <1>7. m.integer \in Values /\ Len(w) <= MaxBuff /\ (Live(c) => KeptFrom(w, b, Len(b)))
    BY DEF Sound
  <1> HIDE DEF k
  <1>8. ASSUME Len(w) < MaxBuff
        PROVE  Sound(s, c, q, a, "read", m, Append(w, m.integer), b, tog)
    <2> DEFINE x == Append(w, m.integer)
    <2>1. Live(c) => Caught(x, b, k + 1, tog)
      <3>1. ASSUME Live(c) PROVE Caught(Append(w, b[k + 1]), b, k + 1, tog)
        BY <1>4, <1>6, <3>1, CaughtOne
      <3>2. Live(c) => m.integer = b[k + 1]
        BY <1>4, <1>6
      <3>3. QED
        BY <3>1, <3>2
    <2>2. Len(x) = Len(w) + 1
      BY <1>7
    <2>3. Len(x) <= MaxBuff
      BY <1>8, <2>2, CommsAssumption
    <2> HIDE DEF x
    <2>4. Stream(s, c, q, a, "read", m, x, b, tog, n)
      BY <1>2, <1>3, <1>6, <2>1 DEF Stream
    <2>5. Live(c) => KeptFrom(x, b, Len(b))
      <3>1. Live(c) => k + 1 \in Nat /\ KeptFrom(x, b, k + 1)
        BY <1>6, <2>1 DEF Caught
      <3>2. QED
        BY <1>5, <1>6, <3>1, KeptOver
    <2>6. Sound(s, c, q, a, "read", m, x, b, tog)
      <3>1. a # << >> => c = s /\ Len(a) = 1 /\ (tog = FALSE => a[1] = b)
        BY DEF Sound
      <3>2. QED
        BY <1>7, <2>3, <2>4, <2>5, <3>1 DEF Sound
    <2>7. QED
      BY <2>6 DEF x
  <1>9. ASSUME tog # FALSE PROVE Sound(s, c, q, a, "read", m, w, b, tog)
    <2>1. Live(c) => Caught(w, b, k + 1, tog)
      BY <1>4, <1>6, <1>9, CaughtOver
    <2>2. Stream(s, c, q, a, "read", m, w, b, tog, n)
      BY <1>2, <1>3, <1>6, <2>1 DEF Stream
    <2>3. a # << >> => c = s /\ Len(a) = 1 /\ (tog = FALSE => a[1] = b)
      BY DEF Sound
    <2>4. QED
      BY <1>7, <2>2, <2>3 DEF Sound
  <1>10. QED
    BY <1>8, <1>9

\* The answer is the array, and nothing is left in the pipe: it has every value sent.
LEMMA SoundAnswered ==
  ASSUME NEW s, NEW c, Live(s), NEW q, NEW a, NEW m, NEW w, w \in Seq(Values),
         NEW b, b \in Seq(Values), NEW tog, Sound(s, c, q, a, "answer", m, w, b, tog)
  PROVE  Sound(s, c, q, Append(a, w), "read", m, w, b, tog)
  <1>1. PICK n \in Nat : Stream(s, c, q, a, "answer", m, w, b, tog, n)
    BY DEF Sound
  <1>2. c = s /\ a = << >> /\ n = 0
    BY <1>1 DEF Sound, Stream
  <1>3. Append(a, w) = << w >> /\ << w >> # << >> /\ Len(<< w >>) = 1 /\ << w >>[1] = w
    BY <1>2
  <1>4. /\ Asked(s, c, a, "answer") = 0 /\ Asked(s, c, << w >>, "read") = 0
        /\ Half("answer") = 0 /\ Half("read") = 0 /\ Taken("answer") = 0 /\ Taken("read") = 0
    BY <1>3 DEF Asked, Half, Taken
  <1>5. Stream(s, c, q, << w >>, "read", m, w, b, tog, 0)
    BY <1>1, <1>2, <1>4 DEF Stream
  <1>6. tog = FALSE => w = b
    <2>1. Caught(w, b, Len(b) - 0 - 0, tog) /\ Len(b) - 0 - 0 = Len(b)
      BY <1>1, <1>2, <1>4 DEF Stream
    <2>2. tog = FALSE => Len(w) = Len(b) /\ \A i \in 1 .. Len(b) : w[i] = b[i]
      BY <2>1 DEF Caught
    <2>3. QED
      BY <2>2, SeqEqual
  <1>7. Sound(s, c, q, << w >>, "read", m, w, b, tog)
    BY <1>2, <1>3, <1>5, <1>6 DEF Sound
  <1>8. QED
    BY <1>3, <1>7

\* After the end of a pipe the storage repeats its last store.
LEMMA SoundRepeats ==
  ASSUME NEW s, NEW c, ~Live(c), NEW q, NEW a, NEW m, NEW w, NEW b, NEW tog,
         Sound(s, c, q, a, "read", m, w, b, tog), m.request = "s"
  PROVE  Sound(s, c, q, a, "store", m, w, b, tog)
  <1>1. PICK n \in Nat : Stream(s, c, q, a, "read", m, w, b, tog, n)
    BY DEF Sound
  <1>2. Half("read") = Half("store") /\ Asked(s, c, a, "read") = Asked(s, c, a, "store")
    BY DEF Half, Asked
  <1>3. Stream(s, c, q, a, "store", m, w, b, tog, n)
    BY <1>1, <1>2 DEF Stream
  <1>4. QED
    BY <1>3 DEF Sound

-----------------------------------------------------------------------------
(* The list of storages                                                    *)

\* Min picks the least element of a nonempty set of naturals.
LEMMA LeastNatural ==
  ASSUME NEW I, I \subseteq Nat, I # {}
  PROVE  Min(I) \in I /\ \A x \in I : Min(I) <= x
  <1> DEFINE R == OpToRel(<, Nat)
  <1>1. IsWellFoundedOn(R, Nat)
    BY NatLessThanWellFounded
  <1>2. R = { ss \in Nat \X Nat : ss[1] < ss[2] }
    BY DEF OpToRel
  <1> HIDE DEF R
  <1>3. PICK least \in I : \A y \in I : ~(<< y, least >> \in R)
    BY <1>1, WFMin
  <1>4. ASSUME NEW y \in I PROVE least <= y
    <2>1. << y, least >> \in Nat \X Nat
      OBVIOUS
    <2>2. ~(y < least)
      BY <1>2, <1>3, <2>1
    <2>3. QED
      BY <2>2
  <1>5. QED
    BY <1>4 DEF Min

\* Removing position i shifts the elements after it back by one.
LEMMA RemoveAtProperties ==
  ASSUME NEW S, NEW s \in Seq(S), NEW i \in 1..Len(s)
  PROVE  /\ RemoveAt(s, i) \in Seq(S)
         /\ Len(RemoveAt(s, i)) = Len(s) - 1
         /\ \A j \in 1..Len(s)-1 :
              RemoveAt(s, i)[j] = IF j < i THEN s[j] ELSE s[j+1]
  <1> DEFINE A == SubSeq(s, 1, i-1)
             B == SubSeq(s, i+1, Len(s))
  <1>1. Len(s) \in Nat /\ \A j \in 1..Len(s) : s[j] \in S
    BY LenProperties
  <1>2. /\ A \in Seq(S) /\ Len(A) = i - 1
        /\ \A j \in 1..i-1 : A[j] = s[j]
    BY <1>1, SubSeqProperties
  <1>3. /\ B \in Seq(S) /\ Len(B) = Len(s) - i
        /\ \A j \in 1..(Len(s)-i) : B[j] = s[i+j]
    BY <1>1, SubSeqProperties
  <1> HIDE DEF A, B
  <1>4. /\ A \o B \in Seq(S)
        /\ Len(A \o B) = Len(A) + Len(B)
        /\ \A j \in 1..Len(A) + Len(B) :
             (A \o B)[j] = IF j <= Len(A) THEN A[j] ELSE B[j - Len(A)]
    BY <1>2, <1>3, ConcatProperties
  <1> DEFINE D == A \o B
  <1>5. RemoveAt(s, i) = D
    BY DEF RemoveAt, A, B
  <1>6. \A j \in 1..Len(s)-1 : j >= i => B[j-(i-1)] = s[j+1]
    BY <1>1, <1>3
  <1> HIDE DEF D
  <1>7. /\ D \in Seq(S) /\ Len(D) = Len(s) - 1
        /\ \A j \in 1..Len(s)-1 :
             D[j] = IF j <= i-1 THEN A[j] ELSE B[j-(i-1)]
    BY <1>1, <1>2, <1>3, <1>4 DEF D
  <1>8. \A j \in 1..Len(s)-1 : D[j] = IF j < i THEN s[j] ELSE s[j+1]
    BY <1>1, <1>2, <1>6, <1>7
  <1>9. QED
    BY <1>5, <1>7, <1>8

\* The list without one of its storages is in order and has all others.
LEMMA UnlinkedFacts ==
  ASSUME list \in Seq(Ids), Ordered(list), NEW s, s \in Listed
  PROVE  /\ Unlinked(s) \in Seq(Ids) /\ Ordered(Unlinked(s))
         /\ \A t : t \in {Unlinked(s)[i] : i \in DOMAIN Unlinked(s)} <=> t \in Listed /\ t # s
  <1> DEFINE I == {i \in 1 .. Len(list) : list[i] = s}
             m == Min(I)
             r == RemoveAt(list, m)
             n == Len(list)
  <1>1. n \in Nat /\ DOMAIN list = 1 .. n /\ \A i \in 1 .. n : list[i] \in Ids
    OBVIOUS
  <1>2. PICK l \in 1 .. n : list[l] = s
    BY <1>1 DEF Listed
  <1>3. m \in I
    <2>1. I \subseteq Nat /\ I # {}
      BY <1>2
    <2> HIDE DEF I
    <2>2. QED
      BY <2>1, LeastNatural
  <1>4. m \in 1 .. n /\ list[m] = s
    BY <1>3
  <1>5. Unlinked(s) = r
    <2>1. SelectInSeq(list, LAMBDA v : v = s) = IF I # {} THEN Min(I) ELSE 0
      BY DEF SelectInSeq
    <2>2. I # {}
      BY <1>3
    <2>3. QED
      BY <1>2, <2>1, <2>2 DEF Unlinked, RemoveFirst
  <1> HIDE DEF m, I
  <1>6. /\ r \in Seq(Ids) /\ Len(r) = n - 1
        /\ \A j \in 1 .. n - 1 : r[j] = IF j < m THEN list[j] ELSE list[j + 1]
    BY <1>4, RemoveAtProperties
  <1>7. DOMAIN r = 1 .. n - 1
    BY <1>6
  <1> HIDE DEF r, n
  <1>8. \A i, j \in 1 .. n : i < j => list[i] < list[j]
    BY DEF Ordered, n
  <1>9. ASSUME NEW i \in 1 .. n - 1, NEW j \in 1 .. n - 1, i < j
        PROVE  r[i] < r[j]
    <2>1. i + 1 \in 1 .. n /\ j + 1 \in 1 .. n /\ i \in 1 .. n /\ j \in 1 .. n
      BY <1>1
    <2>2. list[i] < list[j] /\ list[i] < list[j + 1] /\ list[i + 1] < list[j + 1]
      BY <1>8, <1>9, <2>1
    <2>3. CASE j < m
      <3>1. i < m
        BY <1>4, <1>9, <2>3
      <3>2. r[i] = list[i] /\ r[j] = list[j]
        BY <1>6, <2>3, <3>1
      <3>3. QED
        BY <2>2, <3>2
    <2>4. CASE ~(j < m)
      <3>1. r[j] = list[j + 1] /\ (r[i] = list[i] \/ r[i] = list[i + 1])
        BY <1>6, <2>4
      <3>2. QED
        BY <2>2, <3>1
    <2>5. QED
      BY <2>3, <2>4
  <1>10. ASSUME NEW j \in 1 .. n - 1
         PROVE  r[j] \in Listed /\ r[j] # s
    <2>1. j \in 1 .. n /\ j + 1 \in 1 .. n
      BY <1>1
    <2>2. list[j] \in Listed /\ list[j + 1] \in Listed
      BY <1>1, <2>1 DEF Listed
    <2>3. j < m => list[j] < list[m]
      BY <1>4, <1>8, <2>1
    <2>4. j >= m => list[m] < list[j + 1]
      BY <1>4, <1>8, <2>1
    <2>5. s \in Int /\ list[j] \in Int /\ list[j + 1] \in Int
      BY <1>1, <1>4, <2>1 DEF Ids
    <2>6. CASE j < m
      BY <1>4, <1>6, <2>2, <2>3, <2>5, <2>6
    <2>7. CASE ~(j < m)
      BY <1>4, <1>6, <2>2, <2>4, <2>5, <2>7
    <2>8. QED
      BY <2>6, <2>7
  <1>11. ASSUME NEW t \in Listed, t # s PROVE \E j \in 1 .. n - 1 : r[j] = t
    <2>1. PICK i \in 1 .. n : list[i] = t
      BY <1>1 DEF Listed
    <2>2. i # m
      BY <1>4, <1>11, <2>1
    <2>3. CASE i < m
      <3>1. i \in 1 .. n - 1 /\ r[i] = t
        BY <1>1, <1>4, <1>6, <2>1, <2>3
      <3>2. QED
        BY <3>1
    <2>4. CASE i > m
      <3>1. i - 1 \in 1 .. n - 1 /\ ~(i - 1 < m) /\ (i - 1) + 1 = i
        BY <1>1, <1>4, <2>4
      <3>2. r[i - 1] = t
        BY <1>6, <2>1, <3>1
      <3>3. QED
        BY <3>1, <3>2
    <2>5. QED
      BY <1>4, <2>2, <2>3, <2>4
  <1>12. Ordered(r)
    BY <1>6, <1>9 DEF Ordered
  <1>13. \A t : t \in {r[i] : i \in DOMAIN r} <=> \E j \in 1 .. n - 1 : r[j] = t
    BY <1>7
  <1>14. QED
    BY <1>5, <1>6, <1>10, <1>11, <1>12, <1>13

-----------------------------------------------------------------------------
(* The steps of a storage keep the invariant                               *)

\* Nothing happens at t.
Same(t) == /\ requests'[t] = requests[t] /\ answers'[t] = answers[t] /\ proc'[t] = proc[t]
           /\ last'[t] = last[t] /\ values'[t] = values[t] /\ sent'[t] = sent[t]
           /\ toggled'[t] = toggled[t]

LEMMA SameIsSound ==
  ASSUME NEW t, SoundAt(t), Same(t),
         coor' = coor \/ (coor # t /\ coor' # t /\ (Live(coor') => Live(coor)))
  PROVE  SoundAt(t)'
  <1>1. CASE coor' = coor
    BY <1>1 DEF SoundAt, Same
  <1>2. CASE coor # t /\ coor' # t /\ (Live(coor') => Live(coor))
    <2>1. Sound(t, coor', requests[t], answers[t], proc[t], last[t], values[t], sent[t],
                toggled[t])
      BY <1>2, SoundElsewhere DEF SoundAt
    <2>2. QED
      BY <2>1 DEF SoundAt, Same
  <1>3. QED
    BY <1>1, <1>2

\* A storage that works leaves the list and the other storages alone.
LEMMA WorkKeeps ==
  ASSUME Invariant, Typed', NEW s, s \in Ids, proc[s] \notin {"none", "dead"},
         proc'[s] # "none", proc'[s] = "dead" => ~Live(coor),
         coor' = coor, list' = list, globalId' = globalId,
         \A t \in Ids : t # s => Same(t),
         mutable' = mutable, signal' = signal, toggled' = toggled,
         SoundAt(s)'
  PROVE  Invariant'
  <1>1. Launched'
    <2>1. \A t \in Ids : t # s => proc'[t] = proc[t]
      BY DEF Same
    <2>2. proc'[s] # "dead" => Up' = Up
      BY <2>1 DEF Up
    <2>3. s \in Up
      BY DEF Up
    <2>4. Listed' = Listed /\ Ordered(list')
      BY DEF Listed, Invariant, Launched
    <2>5. Live(coor') => Listed' = Up'
      BY <2>2, <2>4 DEF Invariant, Launched
    <2>6. coor' = Exited => Up' = {}
      BY <2>3 DEF Invariant, Launched
    <2>7. \A t \in Ids : proc'[t] = "none" <=> t >= globalId
      BY <2>1 DEF Invariant, Launched
    <2>8. ASSUME NEW t \in Ids, t >= globalId
          PROVE  /\ requests'[t] = << >> /\ values'[t] = << >> /\ sent'[t] = << >>
                 /\ last'[t].request = "unset"
      <3>1. t # s
        BY <2>8 DEF Invariant, Launched
      <3>2. QED
        BY <2>8, <3>1 DEF Same, Invariant, Launched
    <2>9. QED
      BY <2>4, <2>5, <2>6, <2>7, <2>8 DEF Launched
  <1>2. ASSUME NEW t \in Ids PROVE SoundAt(t)'
    <2>1. SoundAt(t)
      BY DEF Invariant
    <2>2. QED
      BY <2>1, SameIsSound
  <1>3. \A t \in Ids : Quiet(t)'
    BY DEF Invariant, Quiet
  <1>4. QED
    BY <1>1, <1>2, <1>3 DEF Invariant

LEMMA ReadRequestKeeps ==
  ASSUME Invariant, NEW s, s \in Ids, ReadRequest(s)
  PROVE  Invariant'
  <1> DEFINE q == requests[s]
             r == [last[s] EXCEPT !.request = Head(q)]
             p == IF Head(q) = "s" THEN "integer" ELSE "answer"
  <1>1. /\ proc[s] = "read" /\ q # << >> /\ q \in Seq(Items)
        /\ requests' = [requests EXCEPT ![s] = Tail(q)]
        /\ last' = [last EXCEPT ![s] = r]
        /\ proc' = [proc EXCEPT ![s] = p]
        /\ UNCHANGED << coor, list, globalId, answers, values, mutable, signal, sent, toggled >>
    BY DEF ReadRequest, coordinator, Invariant, Typed
  <1>2. /\ Head(q) \in Items /\ Tail(q) \in Seq(Items)
        /\ last[s] \in [request : Items \cup {"unset"}, integer : Values \cup {"s", "g", 0}]
    BY <1>1 DEF Invariant, Typed
  <1>3. /\ r \in [request : Items \cup {"unset"}, integer : Values \cup {"s", "g", 0}]
        /\ r.request = Head(q) /\ r.integer = last[s].integer
    BY <1>2
  <1> HIDE DEF r
  <1>4. Typed'
    BY <1>1, <1>2, <1>3 DEF Invariant, Typed
  <1>5. /\ requests'[s] = Tail(q) /\ last'[s] = r /\ proc'[s] = p
        /\ \A t \in Ids : t # s => Same(t)
    BY <1>1 DEF Same, Invariant, Typed
  <1>6. SoundAt(s)'
    <2>1. /\ Sound(s, coor, q, answers[s], "read", last[s], values[s], sent[s], toggled[s])
          /\ sent[s] \in Seq(Values)
      BY <1>1 DEF Invariant, SoundAt, Typed
    <2>2. Sound(s, coor, Tail(q), answers[s], p, r, values[s], sent[s], toggled[s])
      <3> HIDE DEF q
      <3>1. /\ Head(q) = "s" => Sound(s, coor, Tail(q), answers[s], "integer", r, values[s],
                                      sent[s], toggled[s])
            /\ Head(q) # "s" => Sound(s, coor, Tail(q), answers[s], "answer", r, values[s],
                                      sent[s], toggled[s])
        BY <1>1, <1>3, <2>1, SoundRead
      <3>2. QED
        BY <3>1
    <2>3. QED
      BY <1>1, <1>5, <2>2 DEF SoundAt
  <1>7. proc[s] \notin {"none", "dead"} /\ proc'[s] \notin {"none", "dead"}
    BY <1>1, <1>5
  <1> HIDE DEF p, q
  <1>8. QED
    BY <1>1, <1>4, <1>5, <1>6, <1>7, WorkKeeps

LEMMA ReadIntegerKeeps ==
  ASSUME Invariant, NEW s, s \in Ids, ReadInteger(s)
  PROVE  Invariant'
  <1> DEFINE q == requests[s]
             r == [last[s] EXCEPT !.integer = Head(q)]
  <1>1. /\ proc[s] = "integer" /\ q # << >> /\ q \in Seq(Items)
        /\ requests' = [requests EXCEPT ![s] = Tail(q)]
        /\ last' = [last EXCEPT ![s] = r]
        /\ proc' = [proc EXCEPT ![s] = "store"]
        /\ UNCHANGED << coor, list, globalId, answers, values, mutable, signal, sent, toggled >>
    BY DEF ReadInteger, coordinator, Invariant, Typed
  <1>2. /\ Head(q) \in Items /\ Tail(q) \in Seq(Items)
        /\ last[s] \in [request : Items \cup {"unset"}, integer : Values \cup {"s", "g", 0}]
    BY <1>1 DEF Invariant, Typed
  <1>3. /\ r \in [request : Items \cup {"unset"}, integer : Values \cup {"s", "g", 0}]
        /\ r.integer = Head(q)
    BY <1>2 DEF Items
  <1> HIDE DEF r
  <1>4. Typed'
    BY <1>1, <1>2, <1>3 DEF Invariant, Typed
  <1>5. /\ requests'[s] = Tail(q) /\ last'[s] = r /\ proc'[s] = "store"
        /\ \A t \in Ids : t # s => Same(t)
    BY <1>1 DEF Same, Invariant, Typed
  <1>6. SoundAt(s)'
    <2>1. /\ Sound(s, coor, q, answers[s], "integer", last[s], values[s], sent[s], toggled[s])
          /\ sent[s] \in Seq(Values)
      BY <1>1 DEF Invariant, SoundAt, Typed
    <2> HIDE DEF q
    <2>2. Sound(s, coor, Tail(q), answers[s], "store", r, values[s], sent[s], toggled[s])
      BY <1>1, <1>3, <2>1, SoundInteger
    <2>3. QED
      BY <1>1, <1>5, <2>2 DEF SoundAt
  <1>7. proc[s] \notin {"none", "dead"} /\ proc'[s] \notin {"none", "dead"}
    BY <1>1, <1>5
  <1> HIDE DEF q
  <1>8. QED
    BY <1>1, <1>4, <1>5, <1>6, <1>7, WorkKeeps

LEMMA KeepKeeps ==
  ASSUME Invariant, NEW s, s \in Ids, Keep(s)
  PROVE  Invariant'
  <1> DEFINE full == mutable[s] /\ Len(values[s]) >= MaxBuff
             w == IF mutable[s] THEN Append(values[s], last[s].integer) ELSE values[s]
  <1>1. /\ proc[s] = "store"
        /\ UNCHANGED << coor, list, globalId, requests, answers, last, mutable, signal, sent,
                        toggled >>
    BY DEF Keep, coordinator
  <1>2. /\ Sound(s, coor, requests[s], answers[s], "store", last[s], values[s], sent[s],
                 toggled[s])
        /\ sent[s] \in Seq(Values) /\ values[s] \in Seq(Values) /\ Quiet(s)
        /\ toggled[s] \in BOOLEAN /\ mutable[s] \in BOOLEAN
    BY <1>1 DEF Invariant, SoundAt, Typed
  <1>3. last[s].integer \in Values
    BY <1>2 DEF Sound
  <1>4. CASE full
    <2>1. proc' = [proc EXCEPT ![s] = "overrun"] /\ values' = values
      BY <1>4 DEF Keep
    <2>2. Typed'
      BY <1>1, <2>1 DEF Invariant, Typed
    <2>3. proc'[s] = "overrun" /\ \A t \in Ids : t # s => Same(t)
      BY <1>1, <2>1 DEF Same, Invariant, Typed
    <2>4. Sound(s, coor, requests[s], answers[s], "overrun", last[s], values[s], sent[s],
                toggled[s])
      BY <1>2, SoundStopped
    <2>5. SoundAt(s)'
      BY <1>1, <2>1, <2>3, <2>4 DEF SoundAt
    <2>6. proc[s] \notin {"none", "dead"} /\ proc'[s] \notin {"none", "dead"}
      BY <1>1, <2>3
    <2>7. QED
      BY <1>1, <2>2, <2>3, <2>5, <2>6, WorkKeeps
  <1>5. CASE ~full
    <2>1. proc' = [proc EXCEPT ![s] = "read"] /\ values' = [values EXCEPT ![s] = w]
      <3>1. /\ proc' = [proc EXCEPT ![s] = "read"]
            /\ values' = IF mutable[s] THEN [values EXCEPT ![s] = Append(@, last[s].integer)]
                         ELSE values
        BY <1>5 DEF Keep
      <3>2. values = [values EXCEPT ![s] = values[s]]
        BY DEF Invariant, Typed
      <3>3. QED
        BY <3>1, <3>2
    <2>2. w \in Seq(Values)
      BY <1>2, <1>3
    <2>3. Sound(s, coor, requests[s], answers[s], "read", last[s], w, sent[s], toggled[s])
      <3>1. CASE mutable[s]
        <4>1. Len(values[s]) < MaxBuff
          BY <1>2, <1>5, <3>1, CommsAssumption
        <4>2. QED
          BY <1>2, <3>1, <4>1, SoundKept
      <3>2. CASE ~mutable[s]
        <4>1. toggled[s] # FALSE
          BY <1>2, <3>2 DEF Quiet
        <4>2. QED
          BY <1>2, <3>2, <4>1, SoundKept
      <3>3. QED
        BY <3>1, <3>2
    <2> HIDE DEF w
    <2>4. Typed'
      BY <1>1, <2>1, <2>2 DEF Invariant, Typed
    <2>5. proc'[s] = "read" /\ values'[s] = w /\ \A t \in Ids : t # s => Same(t)
      BY <1>1, <2>1 DEF Same, Invariant, Typed
    <2>6. SoundAt(s)'
      BY <1>1, <2>3, <2>5 DEF SoundAt
    <2>7. proc[s] \notin {"none", "dead"} /\ proc'[s] \notin {"none", "dead"}
      BY <1>1, <2>5
    <2>8. QED
      BY <1>1, <2>4, <2>5, <2>6, <2>7, WorkKeeps
  <1>6. QED
    BY <1>4, <1>5

LEMMA AnswerKeeps ==
  ASSUME Invariant, NEW s, s \in Ids, Answer(s)
  PROVE  Invariant'
  <1> DEFINE a == Append(answers[s], values[s])
  <1>1. /\ proc[s] = "answer"
        /\ answers' = [answers EXCEPT ![s] = a]
        /\ proc' = [proc EXCEPT ![s] = "read"]
        /\ UNCHANGED << coor, list, globalId, requests, last, values, mutable, signal, sent,
                        toggled >>
    BY DEF Answer, coordinator
  <1>2. /\ Sound(s, coor, requests[s], answers[s], "answer", last[s], values[s], sent[s],
                 toggled[s])
        /\ sent[s] \in Seq(Values) /\ values[s] \in Seq(Values)
        /\ answers[s] \in Seq(Seq(Values))
    BY <1>1 DEF Invariant, SoundAt, Typed
  <1>3. a \in Seq(Seq(Values))
    BY <1>2
  <1>4. Live(s)
    BY DEF Live, Ids, Exited, Finished
  <1>5. Sound(s, coor, requests[s], a, "read", last[s], values[s], sent[s], toggled[s])
    BY <1>2, <1>4, SoundAnswered
  <1> HIDE DEF a
  <1>6. Typed'
    BY <1>1, <1>3 DEF Invariant, Typed
  <1>7. answers'[s] = a /\ proc'[s] = "read" /\ \A t \in Ids : t # s => Same(t)
    BY <1>1 DEF Same, Invariant, Typed
  <1>8. SoundAt(s)'
    BY <1>1, <1>5, <1>7 DEF SoundAt
  <1>9. proc[s] \notin {"none", "dead"} /\ proc'[s] \notin {"none", "dead"}
    BY <1>1, <1>7
  <1>10. QED
    BY <1>1, <1>6, <1>7, <1>8, <1>9, WorkKeeps

\* A pipe ends when the coordinator has ended.
LEMMA ReadNothingKeeps ==
  ASSUME Invariant, NEW s, s \in Ids, ReadNothing(s)
  PROVE  Invariant' /\ ~Live(coor) /\ coor' = coor
  <1> DEFINE p == CASE last[s].request = "s" -> "store"
                    [] last[s].request = "g" -> "dead"
                    [] OTHER -> "read"
  <1>1. /\ proc[s] = "read" /\ Ended(s)
        /\ proc' = [proc EXCEPT ![s] = p]
        /\ UNCHANGED << coor, list, globalId, requests, answers, last, values, mutable, signal,
                        sent, toggled >>
    BY DEF ReadNothing, coordinator
  <1>2. ~Live(coor)
    <2>1. s \in Up
      BY <1>1 DEF Up
    <2>2. coor \in {Exited, Finished} \/ s \notin Listed
      BY <1>1 DEF Ended
    <2>3. QED
      BY <2>1, <2>2 DEF Invariant, Launched, Live
  <1>3. Sound(s, coor, requests[s], answers[s], "read", last[s], values[s], sent[s], toggled[s])
    BY <1>1 DEF Invariant, SoundAt
  <1>4. /\ p \in {"store", "dead", "read"}
        /\ p = "store" => last[s].request = "s"
    OBVIOUS
  <1> HIDE DEF p
  <1>5. Sound(s, coor, requests[s], answers[s], p, last[s], values[s], sent[s], toggled[s])
    <2>1. CASE p = "store"
      BY <1>2, <1>3, <1>4, <2>1, SoundRepeats
    <2>2. CASE p = "dead"
      BY <1>3, <2>2, SoundStopped
    <2>3. CASE p = "read"
      BY <1>3, <2>3
    <2>4. QED
      BY <1>4, <2>1, <2>2, <2>3
  <1>6. Typed'
    BY <1>1, <1>4 DEF Invariant, Typed
  <1>7. proc'[s] = p /\ \A t \in Ids : t # s => Same(t)
    BY <1>1 DEF Same, Invariant, Typed
  <1>8. SoundAt(s)'
    BY <1>1, <1>5, <1>7 DEF SoundAt
  <1>9. proc[s] \notin {"none", "dead"} /\ proc'[s] # "none"
    BY <1>1, <1>4, <1>7
  <1>10. Invariant'
    BY <1>1, <1>2, <1>6, <1>7, <1>8, <1>9, WorkKeeps
  <1>11. QED
    BY <1>1, <1>2, <1>10

LEMMA HandlerKeeps ==
  ASSUME Invariant, NEW s, s \in Ids, Handler(s)
  PROVE  Invariant'
  <1>1. /\ signal[s] /\ signal' = [signal EXCEPT ![s] = FALSE]
        /\ mutable' = [mutable EXCEPT ![s] = ~@]
        /\ UNCHANGED << coor, list, globalId, requests, answers, proc, last, values, sent,
                        toggled >>
    BY DEF Handler, coordinator, storageVars
  <1>2. Typed'
    BY <1>1 DEF Invariant, Typed
  <1>3. Launched'
    BY <1>1 DEF Invariant, Launched, Listed, Up
  <1>4. \A t \in Ids : SoundAt(t)'
    BY <1>1 DEF Invariant, SoundAt
  <1>5. ASSUME NEW t \in Ids PROVE Quiet(t)'
    <2>1. Quiet(t) /\ signal \in [Ids -> BOOLEAN] /\ mutable \in [Ids -> BOOLEAN]
      BY DEF Invariant, Typed
    <2>2. CASE t = s
      BY <1>1, <2>1, <2>2 DEF Quiet
    <2>3. CASE t # s
      BY <1>1, <2>1, <2>3 DEF Quiet
    <2>4. QED
      BY <2>2, <2>3
  <1>6. QED
    BY <1>2, <1>3, <1>4, <1>5 DEF Invariant

-----------------------------------------------------------------------------
(* The steps of the coordinator keep the invariant                         *)

LEMMA ReadyFacts ==
  /\ Live(Ready) /\ Ready # Exited /\ Ready # Finished
  /\ ~Live(Exited) /\ ~Live(Finished) /\ Exited # Finished
  /\ \A s \in Ids : Live(s) /\ s # Ready /\ s # Exited /\ s # Finished
  BY DEF Live, Ids, Ready, Exited, Finished

\* A command to one storage leaves the list alone.
LEMMA CommandKeeps ==
  ASSUME Invariant, Typed', NEW s, s \in Ids,
         s < globalId \/ UNCHANGED << requests, values, sent, last >>,
         coor' = coor \/ (coor # s /\ coor' = s) \/ (coor = s /\ coor' = Ready),
         list' = list, globalId' = globalId, proc' = proc,
         Live(coor), Live(coor'),
         \A t \in Ids : t # s => Same(t) /\ mutable'[t] = mutable[t] /\ signal'[t] = signal[t],
         coor' # coor => coor = Ready \/ coor' = Ready,
         SoundAt(s)', Quiet(s)'
  PROVE  Invariant'
  <1>1. Launched'
    <2>1. Up' = Up /\ Listed' = Listed /\ Ordered(list') /\ Listed = Up
      BY DEF Up, Listed, Invariant, Launched
    <2>2. \A t \in Ids : proc'[t] = "none" <=> t >= globalId'
      BY DEF Invariant, Launched
    <2>3. ASSUME NEW t \in Ids, t >= globalId
          PROVE  /\ requests'[t] = << >> /\ values'[t] = << >> /\ sent'[t] = << >>
                 /\ last'[t].request = "unset"
      <3>1. t # s \/ UNCHANGED << requests, values, sent, last >>
        BY <2>3 DEF Ids, Invariant, Typed
      <3>2. QED
        BY <2>3, <3>1 DEF Same, Invariant, Launched
    <2>4. coor' # Exited
      BY DEF Live
    <2>5. QED
      BY <2>1, <2>2, <2>3, <2>4 DEF Launched
  <1>2. ASSUME NEW t \in Ids, t # s PROVE SoundAt(t)' /\ Quiet(t)'
    <2>1. SoundAt(t) /\ Quiet(t) /\ Same(t)
      BY <1>2 DEF Invariant
    <2>2. coor' = coor \/ (coor # t /\ coor' # t /\ (Live(coor') => Live(coor)))
      BY <1>2, ReadyFacts
    <2>3. Quiet(t)'
      BY <1>2, <2>1 DEF Same, Quiet
    <2>4. QED
      BY <2>1, <2>2, <2>3, SameIsSound
  <1>3. QED
    BY <1>1, <1>2 DEF Invariant

\* What is listed was launched.
LEMMA ListedFacts ==
  ASSUME Invariant, NEW s, s \in Listed, Live(coor)
  PROVE  s \in Ids /\ s \in Up /\ s < globalId
  <1>1. s \in Up
    BY DEF Invariant, Launched
  <1>2. s \in Ids /\ proc[s] # "none"
    BY <1>1 DEF Up
  <1>3. ~(s >= globalId)
    BY <1>2 DEF Invariant, Launched
  <1>4. QED
    BY <1>1, <1>2, <1>3 DEF Ids, Invariant, Typed

LEMMA StoreKeeps ==
  ASSUME Invariant, NEW s, s \in Ids, NEW v, v \in Values, Store(s, v)
  PROVE  Invariant'
  <1> DEFINE q == requests[s] \o << "s", v >>
             b == Append(sent[s], v)
  <1>1. /\ coor = Ready /\ s \in Listed
        /\ requests' = [requests EXCEPT ![s] = q]
        /\ sent' = [sent EXCEPT ![s] = b]
        /\ UNCHANGED << coor, list, globalId, answers, proc, last, values, mutable, signal,
                        toggled >>
    BY DEF Store, Command
  <1>2. s < globalId /\ Live(coor) /\ coor # s
    BY <1>1, ReadyFacts, ListedFacts
  <1>3. requests[s] \in Seq(Items) /\ sent[s] \in Seq(Values)
    BY DEF Invariant, Typed
  <1>4. q \in Seq(Items) /\ b \in Seq(Values)
    <2>1. << "s", v >> \in Seq(Items)
      BY DEF Items
    <2>2. QED
      BY <1>3, <2>1, ConcatProperties
  <1>5. Sound(s, coor, q, answers[s], proc[s], last[s], values[s], b, toggled[s])
    BY <1>2, <1>3, SoundStored DEF Invariant, SoundAt
  <1> HIDE DEF q, b
  <1>6. Typed'
    BY <1>1, <1>4 DEF Invariant, Typed
  <1>7. /\ requests'[s] = q /\ sent'[s] = b
        /\ \A t \in Ids : t # s => Same(t) /\ mutable'[t] = mutable[t] /\ signal'[t] = signal[t]
    BY <1>1 DEF Same, Invariant, Typed
  <1>8. SoundAt(s)'
    BY <1>1, <1>5, <1>7 DEF SoundAt
  <1>9. Quiet(s)'
    BY <1>1 DEF Quiet, Invariant
  <1>10. QED
    BY <1>1, <1>2, <1>6, <1>7, <1>8, <1>9, CommandKeeps

LEMMA GetKeeps ==
  ASSUME Invariant, NEW s, s \in Ids, Get(s)
  PROVE  Invariant'
  <1> DEFINE q == Append(requests[s], "g")
  <1>1. /\ coor = Ready /\ s \in Listed /\ coor' = s
        /\ requests' = [requests EXCEPT ![s] = q]
        /\ UNCHANGED << list, globalId, answers, proc, last, values, mutable, signal,
                        sent, toggled >>
    BY DEF Get, Command
  <1>2. s < globalId /\ Live(coor) /\ coor # s /\ Live(s)
    BY <1>1, ReadyFacts, ListedFacts
  <1>3. requests[s] \in Seq(Items) /\ sent[s] \in Seq(Values)
    BY DEF Invariant, Typed
  <1>4. q \in Seq(Items)
    BY <1>3 DEF Items
  <1>5. Sound(s, s, q, answers[s], proc[s], last[s], values[s], sent[s], toggled[s])
    BY <1>2, <1>3, SoundAsked DEF Invariant, SoundAt
  <1> HIDE DEF q
  <1>6. Typed'
    BY <1>1, <1>4 DEF Invariant, Typed
  <1>7. /\ requests'[s] = q
        /\ \A t \in Ids : t # s => Same(t) /\ mutable'[t] = mutable[t] /\ signal'[t] = signal[t]
    BY <1>1 DEF Same, Invariant, Typed
  <1>8. SoundAt(s)'
    BY <1>1, <1>5, <1>7 DEF SoundAt
  <1>9. Quiet(s)'
    BY <1>1 DEF Quiet, Invariant
  <1>10. Live(coor')
    BY <1>1, <1>2
  <1>11. QED
    BY <1>1, <1>2, <1>6, <1>7, <1>8, <1>9, <1>10, CommandKeeps

LEMMA GetAnswerKeeps ==
  ASSUME Invariant, GetAnswer
  PROVE  Invariant' /\ (toggled[coor] = FALSE => Head(answers[coor]) = sent[coor])
  <1>0. PICK s \in Ids : s = coor
    BY DEF GetAnswer
  <1> DEFINE a == answers[s]
  <1>1. /\ a # << >> /\ coor' = Ready
        /\ answers' = [answers EXCEPT ![s] = Tail(a)]
        /\ UNCHANGED << list, globalId, requests, proc, last, values, mutable, signal,
                        sent, toggled >>
    BY <1>0 DEF GetAnswer
  <1>2. Live(s) /\ Ready # s /\ Live(Ready)
    BY <1>1, ReadyFacts
  <1>3. a \in Seq(Seq(Values)) /\ SoundAt(s)
    BY DEF Invariant, Typed
  <1>b. Sound(s, s, requests[s], a, proc[s], last[s], values[s], sent[s], toggled[s])
    BY <1>0, <1>3 DEF SoundAt
  <1> HIDE DEF a
  <1>4. /\ Sound(s, Ready, requests[s], Tail(a), proc[s], last[s], values[s], sent[s], toggled[s])
        /\ Whole(a, sent[s], toggled[s])
    <2>1. a \in Seq(Seq(Values)) /\ a # << >> /\ Ready # s /\ Live(s)
      BY <1>1, <1>2, <1>3
    <2>2. Sound(s, Ready, requests[s], Tail(a), proc[s], last[s], values[s], sent[s], toggled[s])
      BY <1>b, <2>1, SoundTold
    <2>3. Whole(a, sent[s], toggled[s])
      BY <1>b, <2>1, ToldWhole
    <2>4. QED
      BY <2>2, <2>3
  <1>5. Tail(a) \in Seq(Seq(Values))
    BY <1>1, <1>3
  <1>6. Typed'
    BY <1>1, <1>5 DEF Invariant, Typed
  <1>7. /\ answers'[s] = Tail(a)
        /\ \A t \in Ids : t # s => Same(t) /\ mutable'[t] = mutable[t] /\ signal'[t] = signal[t]
    BY <1>1 DEF Same, Invariant, Typed
  <1>8. SoundAt(s)'
    BY <1>1, <1>4, <1>7 DEF SoundAt
  <1>9. Quiet(s)'
    BY <1>1 DEF Quiet, Invariant
  <1>10. Live(coor) /\ coor = s
    BY <1>0, <1>2
  <1>11. Invariant'
    BY <1>1, <1>2, <1>6, <1>7, <1>8, <1>9, <1>10, CommandKeeps
  <1>12. QED
    BY <1>0, <1>4, <1>11 DEF a, Whole

LEMMA ToggleKeeps ==
  ASSUME Invariant, NEW s, s \in Ids, Toggle(s)
  PROVE  Invariant'
  <1>1. /\ coor = Ready /\ s \in Listed
        /\ signal' = [signal EXCEPT ![s] = TRUE]
        /\ toggled' = [toggled EXCEPT ![s] = TRUE]
        /\ UNCHANGED << coor, list, globalId, requests, answers, proc, last, values, mutable,
                        sent >>
    BY DEF Toggle, Command
  <1>2. s < globalId /\ Live(coor) /\ coor # s
    BY <1>1, ReadyFacts, ListedFacts
  <1>3. Sound(s, coor, requests[s], answers[s], proc[s], last[s], values[s], sent[s], TRUE)
    BY SoundToggled DEF Invariant, SoundAt
  <1>4. Typed'
    BY <1>1 DEF Invariant, Typed
  <1>5. /\ toggled'[s] = TRUE
        /\ \A t \in Ids : t # s => Same(t) /\ mutable'[t] = mutable[t] /\ signal'[t] = signal[t]
    BY <1>1 DEF Same, Invariant, Typed
  <1>6. SoundAt(s)'
    BY <1>1, <1>3, <1>5 DEF SoundAt
  <1>7. Quiet(s)'
    BY <1>5 DEF Quiet
  <1>8. QED
    BY <1>1, <1>2, <1>4, <1>5, <1>6, <1>7, CommandKeeps

\* A kill leaves only what the storage kept; with the coordinator's end it does not matter.
LEMMA KilledIsSound ==
  ASSUME Invariant, NEW t, t \in Ids,
         proc'[t] = proc[t] \/ proc'[t] = "dead",
         UNCHANGED << requests, answers, last, values, mutable, signal, sent, toggled >>,
         coor = Ready, coor' \in {Ready, Exited, Finished}
  PROVE  SoundAt(t)' /\ Quiet(t)'
  <1>1. /\ Sound(t, coor, requests[t], answers[t], proc[t], last[t], values[t], sent[t],
                 toggled[t])
        /\ Quiet(t)
    BY DEF Invariant, SoundAt
  <1>2. coor # t /\ coor' # t /\ Live(coor)
    BY ReadyFacts
  <1>3. Sound(t, coor', requests[t], answers[t], proc[t], last[t], values[t], sent[t],
              toggled[t])
    BY <1>1, <1>2, SoundElsewhere
  <1>4. Sound(t, coor', requests[t], answers[t], "dead", last[t], values[t], sent[t],
              toggled[t])
    BY <1>3, SoundStopped
  <1>5. Sound(t, coor', requests[t], answers[t], proc'[t], last[t], values[t], sent[t],
              toggled[t])
    BY <1>3, <1>4
  <1>6. SoundAt(t)'
    BY <1>5 DEF SoundAt
  <1>7. QED
    BY <1>1, <1>6 DEF Quiet

LEMMA DestroyKeeps ==
  ASSUME Invariant, NEW s, s \in Ids, Destroy(s)
  PROVE  Invariant'
  <1>1. /\ coor = Ready /\ s \in Listed
        /\ list' = Unlinked(s)
        /\ proc' = [proc EXCEPT ![s] = "dead"]
        /\ UNCHANGED << coor, globalId, requests, answers, last, values, mutable, signal,
                        sent, toggled >>
    BY DEF Destroy, Command
  <1>2. s < globalId /\ Live(coor)
    BY <1>1, ReadyFacts, ListedFacts
  <1>3. /\ list' \in Seq(Ids) /\ Ordered(list')
        /\ \A t : t \in Listed' <=> t \in Listed /\ t # s
    <2>1. list \in Seq(Ids) /\ Ordered(list)
      BY DEF Invariant, Typed, Launched
    <2>2. /\ Unlinked(s) \in Seq(Ids) /\ Ordered(Unlinked(s))
          /\ \A t : t \in {Unlinked(s)[i] : i \in DOMAIN Unlinked(s)} <=> t \in Listed /\ t # s
      BY <1>1, <2>1, UnlinkedFacts
    <2>3. Listed' = {list'[i] : i \in DOMAIN list'}
      BY DEF Listed
    <2>4. Listed' = {Unlinked(s)[i] : i \in DOMAIN Unlinked(s)}
      BY <1>1, <2>3
    <2>5. QED
      BY <1>1, <2>2, <2>4
  <1>4. Typed'
    BY <1>1, <1>3 DEF Invariant, Typed
  <1>5. proc \in [Ids -> {"none", "read", "integer", "store", "answer", "overrun", "dead"}]
    BY DEF Invariant, Typed
  <1>6. Launched'
    <2>1. \A t \in Ids : t \in Up' <=> t \in Up /\ t # s
      BY <1>1, <1>5 DEF Up
    <2>2. Listed = Up /\ Up \subseteq Ids /\ Up' \subseteq Ids
      BY <1>2 DEF Invariant, Launched, Up
    <2>3. Listed' = Up'
      BY <1>3, <2>1, <2>2
    <2>4. \A t \in Ids : proc'[t] = "none" <=> t >= globalId'
      <3>1. ~(s >= globalId)
        BY <1>2 DEF Ids, Invariant, Typed
      <3>2. QED
        BY <1>1, <1>5, <3>1 DEF Invariant, Launched
    <2>5. coor' # Exited
      BY <1>1, ReadyFacts
    <2>6. QED
      BY <1>1, <1>3, <2>3, <2>4, <2>5 DEF Invariant, Launched
  <1>7. ASSUME NEW t \in Ids PROVE SoundAt(t)' /\ Quiet(t)'
    <2>1. proc'[t] = proc[t] \/ proc'[t] = "dead"
      BY <1>1, <1>5
    <2>2. QED
      BY <1>1, <2>1, KilledIsSound
  <1>8. QED
    BY <1>4, <1>6, <1>7 DEF Invariant

LEMMA ExitKeeps ==
  ASSUME Invariant, Exit
  PROVE  Invariant'
  <1>1. /\ coor = Ready /\ coor' = Exited
        /\ proc' = Killed(Listed)
        /\ UNCHANGED << list, globalId, requests, answers, last, values, mutable, signal,
                        sent, toggled >>
    BY DEF Exit
  <1>2. proc \in [Ids -> {"none", "read", "integer", "store", "answer", "overrun", "dead"}]
    BY DEF Invariant, Typed
  <1>3. /\ proc' \in [Ids -> {"none", "read", "integer", "store", "answer", "overrun", "dead"}]
        /\ \A t \in Ids : proc'[t] = IF t \in Listed THEN "dead" ELSE proc[t]
    BY <1>1, <1>2 DEF Killed
  <1>4. Typed'
    BY <1>1, <1>3 DEF Invariant, Typed
  <1>5. Listed = Up
    BY <1>1, ReadyFacts DEF Invariant, Launched
  <1>6. Launched'
    <2>1. Up' = {}
      BY <1>3, <1>5 DEF Up
    <2>2. ~Live(coor')
      BY <1>1, ReadyFacts
    <2>3. \A t \in Ids : proc'[t] = "none" <=> t >= globalId'
      <3>1. \A t \in Ids : proc'[t] = "none" <=> proc[t] = "none"
        BY <1>3, <1>5 DEF Up
      <3>2. QED
        BY <1>1, <3>1 DEF Invariant, Launched
    <2>4. QED
      BY <1>1, <2>1, <2>2, <2>3 DEF Invariant, Launched
  <1>7. \A t \in Ids : SoundAt(t)' /\ Quiet(t)'
    BY <1>1, <1>3, KilledIsSound
  <1>8. QED
    BY <1>4, <1>6, <1>7 DEF Invariant

LEMMA EndOfInputKeeps ==
  ASSUME Invariant, EndOfInput
  PROVE  Invariant'
  <1>1. /\ coor = Ready /\ coor' = Finished
        /\ UNCHANGED << list, globalId, requests, answers, proc, last, values, mutable, signal,
                        sent, toggled >>
    BY DEF EndOfInput, storageVars
  <1>2. Typed'
    BY <1>1 DEF Invariant, Typed
  <1>3. Launched'
    <2>1. ~Live(coor') /\ coor' # Exited
      BY <1>1, ReadyFacts
    <2>2. QED
      BY <1>1, <2>1 DEF Invariant, Launched
  <1>4. \A t \in Ids : SoundAt(t)' /\ Quiet(t)'
    BY <1>1, KilledIsSound
  <1>5. QED
    BY <1>2, <1>3, <1>4 DEF Invariant

LEMMA LaunchKeeps ==
  ASSUME Invariant, Launch
  PROVE  Invariant'
  <1> DEFINE s == globalId
  <1>1. /\ coor = Ready /\ s < MaxStorages /\ globalId' = s + 1
        /\ list' = Append(list, s)
        /\ proc' = [proc EXCEPT ![s] = "read"]
        /\ UNCHANGED << coor, requests, answers, last, values, mutable, signal, sent, toggled >>
    BY DEF Launch, Command
  <1>2. /\ s \in Ids /\ s \in Nat /\ list \in Seq(Ids)
        /\ proc \in [Ids -> {"none", "read", "integer", "store", "answer", "overrun", "dead"}]
    BY <1>1, CommsAssumption DEF Invariant, Typed, Ids
  <1>3. /\ Live(coor) /\ coor # s /\ coor # Exited /\ Listed = Up
    BY <1>1, <1>2, ReadyFacts DEF Invariant, Launched
  <1>4. /\ proc[s] = "none" /\ requests[s] = << >> /\ values[s] = << >> /\ sent[s] = << >>
        /\ last[s].request = "unset"
    BY <1>2 DEF Invariant, Launched
  <1>5. Typed'
    <2>1. list' \in Seq(Ids) /\ s + 1 \in 0 .. MaxStorages
      BY <1>1, <1>2, CommsAssumption
    <2>2. proc' \in [Ids -> {"none", "read", "integer", "store", "answer", "overrun", "dead"}]
      BY <1>1, <1>2
    <2>3. QED
      BY <1>1, <2>1, <2>2 DEF Invariant, Typed
  <1>6. \A i \in 1 .. Len(list) : list[i] < s
    <2>1. ASSUME NEW i \in 1 .. Len(list) PROVE list[i] < s
      <3>1. list[i] \in Listed
        BY <1>2 DEF Listed
      <3>2. QED
        BY <1>3, <3>1, ListedFacts
    <2>2. QED
      BY <2>1
  <1>7. Launched'
    <2>1. /\ Len(list') = Len(list) + 1 /\ Len(list) \in Nat /\ list'[Len(list) + 1] = s
          /\ \A i \in 1 .. Len(list) : list'[i] = list[i]
          /\ DOMAIN list' = 1 .. Len(list) + 1 /\ DOMAIN list = 1 .. Len(list)
      BY <1>1, <1>2
    <2>2. Ordered(list')
      <3>1. ASSUME NEW i \in 1 .. Len(list'), NEW j \in 1 .. Len(list'), i < j
            PROVE  list'[i] < list'[j]
        <4>1. i \in 1 .. Len(list)
          BY <2>1, <3>1
        <4>2. CASE j \in 1 .. Len(list)
          BY <2>1, <3>1, <4>1, <4>2 DEF Invariant, Launched, Ordered
        <4>3. CASE j = Len(list) + 1
          BY <1>6, <2>1, <4>1, <4>3
        <4>4. QED
          BY <2>1, <4>2, <4>3
      <3>2. QED
        BY <3>1 DEF Ordered
    <2>3. \A t : t \in Listed' <=> t \in Listed \/ t = s
      <3>1. \A t : t \in Listed' <=> \E i \in 1 .. Len(list) + 1 : list'[i] = t
        BY <2>1 DEF Listed
      <3>2. \A t : t \in Listed <=> \E i \in 1 .. Len(list) : list[i] = t
        BY <2>1 DEF Listed
      <3>3. \A i \in 1 .. Len(list) + 1 : i \in 1 .. Len(list) \/ i = Len(list) + 1
        BY <2>1
      <3>4. \A i \in 1 .. Len(list) : i \in 1 .. Len(list) + 1
        BY <2>1
      <3>5. Len(list) + 1 \in 1 .. Len(list) + 1
        BY <2>1
      <3>6. QED
        BY <2>1, <3>1, <3>2, <3>3, <3>4, <3>5
    <2>4. \A t : t \in Up' <=> t \in Up \/ t = s
      BY <1>1, <1>2 DEF Up
    <2>5. Listed' = Up'
      BY <1>3, <2>3, <2>4
    <2>6. \A t \in Ids : proc'[t] = "none" <=> t >= globalId'
      <3>1. \A t \in Ids : proc[t] = "none" <=> t >= s
        BY DEF Invariant, Launched
      <3>2. \A t \in Ids : t >= s + 1 <=> t >= s /\ t # s
        BY <1>2 DEF Ids
      <3>3. \A t \in Ids : proc'[t] = "none" <=> proc[t] = "none" /\ t # s
        BY <1>1, <1>2
      <3>4. QED
        BY <1>1, <3>1, <3>2, <3>3
    <2>7. \A t \in Ids : t >= globalId' => t >= s
      BY <1>1, <1>2 DEF Ids
    <2>8. QED
      BY <1>1, <1>3, <2>2, <2>5, <2>6, <2>7 DEF Invariant, Launched
  <1>8. ASSUME NEW t \in Ids, t # s PROVE SoundAt(t)'
    <2>1. SoundAt(t) /\ Same(t)
      BY <1>1, <1>2, <1>8 DEF Invariant, Same
    <2>2. QED
      BY <1>1, <2>1, SameIsSound
  <1>9. PICK r \in Ids : r = s
    BY <1>2
  <1>10. SoundAt(r)'
    <2>1. Sound(r, coor, << >>, answers[r], proc[r], last[r], << >>, << >>, toggled[r])
      BY <1>4, <1>9 DEF Invariant, SoundAt
    <2>2. last[r].request # "s" /\ coor # r
      BY <1>3, <1>4, <1>9
    <2>3. Sound(r, coor, << >>, answers[r], "read", last[r], << >>, << >>, toggled[r])
      BY <2>1, <2>2, SoundLaunched
    <2>4. proc'[r] = "read" /\ requests'[r] = << >> /\ values'[r] = << >> /\ sent'[r] = << >>
      BY <1>1, <1>2, <1>4, <1>9
    <2>5. QED
      BY <1>1, <2>3, <2>4 DEF SoundAt
  <1>11. \A t \in Ids : Quiet(t)'
    BY <1>1 DEF Quiet, Invariant
  <1>12. QED
    BY <1>5, <1>7, <1>8, <1>9, <1>10, <1>11 DEF Invariant

-----------------------------------------------------------------------------
(* Theorems                                                                *)

LEMMA InitHolds == Init => Invariant
  <1> SUFFICES ASSUME Init PROVE Invariant
    OBVIOUS
  <1>1. Typed
    BY CommsAssumption DEF Init, Typed, Items
  <1>2. Launched
    <2>1. Listed = {} /\ Up = {}
      BY DEF Init, Listed, Up
    <2>2. \A s \in Ids : s >= globalId
      BY DEF Init, Ids
    <2>3. QED
      BY <2>1, <2>2 DEF Init, Launched, Ordered
  <1>3. ASSUME NEW s \in Ids PROVE SoundAt(s) /\ Quiet(s)
    <2>1. KeptFrom(<< >>, << >>, 0)
      BY KeptNone
    <2>2. Sound(s, coor, << >>, << >>, "none", last[s], << >>, << >>, FALSE)
      BY <2>1, CommsAssumption DEF Sound
    <2>3. SoundAt(s)
      BY <2>2 DEF Init, SoundAt
    <2>4. QED
      BY <2>3 DEF Init, Quiet
  <1>4. QED
    BY <1>1, <1>2, <1>3 DEF Invariant

LEMMA NextKeeps == Invariant /\ [Next]_vars => Invariant'
  <1> SUFFICES ASSUME Invariant, [Next]_vars PROVE Invariant'
    OBVIOUS
  <1>1. CASE UNCHANGED vars
    BY <1>1 DEF vars, Invariant, Typed, Launched, Listed, Up, SoundAt, Quiet
  <1>2. CASE Coordinate
    BY <1>2, LaunchKeeps, GetAnswerKeeps, ExitKeeps, EndOfInputKeeps, GetKeeps, ToggleKeeps,
       DestroyKeeps, StoreKeeps DEF Coordinate
  <1>3. ASSUME NEW s \in Ids, Work(s) \/ Handler(s) PROVE Invariant'
    BY <1>3, ReadRequestKeeps, ReadIntegerKeeps, KeepKeeps, AnswerKeeps, ReadNothingKeeps,
       HandlerKeeps DEF Work
  <1>4. QED
    BY <1>1, <1>2, <1>3 DEF Next

\* The coordinator's list and the arrays at any moment: the list holds what runs, in the
\* order of the launches, and every listed storage holds values that were sent to it, in
\* that order and each once, whatever SIGUSR1 comes in between.
THEOREM StoragesStaySound == Spec => []StoragesAreSound
  <1>1. Invariant => StoragesAreSound
    <2> SUFFICES ASSUME Invariant PROVE StoragesAreSound
      OBVIOUS
    <2>1. TypeOK
      <3>1. \A s \in Ids : Len(values[s]) <= MaxBuff /\ Len(answers[s]) <= 1
        <4>1. ASSUME NEW s \in Ids PROVE Len(values[s]) <= MaxBuff /\ Len(answers[s]) <= 1
          <5>1. answers[s] = << >> \/ Len(answers[s]) = 1
            BY DEF Invariant, SoundAt, Sound
          <5>2. Len(values[s]) <= MaxBuff
            BY DEF Invariant, SoundAt, Sound
          <5>3. Len(<< >>) = 0
            OBVIOUS
          <5>4. Len(answers[s]) \in {0, 1}
            BY <5>1, <5>3
          <5>5. Len(answers[s]) <= 1
            <6> DEFINE n == Len(answers[s])
            <6>1. n \in {0, 1}
              BY <5>4
            <6> HIDE DEF n
            <6>2. n <= 1
              BY <6>1
            <6>3. QED
              BY <6>2 DEF n
          <5>6. QED
            BY <5>2, <5>5
        <4>2. QED
          BY <4>1
      <3>2. QED
        BY <3>1 DEF TypeOK, Invariant, Typed
    <2>2. ListIsWhatRuns
      <3>1. DOMAIN list = 1 .. Len(list)
        BY DEF Invariant, Typed
      <3>2. QED
        BY <3>1 DEF ListIsWhatRuns, Invariant, Launched, Ordered, Live
    <2>3. KeepsWhatWasSent
      <3>1. ASSUME NEW s \in Ids, Live(coor) PROVE IsSubSeq(values[s], sent[s])
        <4>1. KeptFrom(values[s], sent[s], Len(sent[s]))
          BY <3>1 DEF Invariant, SoundAt, Sound
        <4>2. DOMAIN sent[s] = 1 .. Len(sent[s])
          BY DEF Invariant, Typed
        <4>3. QED
          BY <4>1, <4>2 DEF KeptFrom, IsSubSeq
      <3>2. QED
        BY <3>1 DEF KeepsWhatWasSent, Live
    <2>4. QED
      BY <2>1, <2>2, <2>3 DEF StoragesAreSound
  <1>2. QED
    BY <1>1, InitHolds, NextKeeps, PTL DEF Spec

\* What a GET prints for a storage that was never toggled: every value stored before, in
\* their order; no request or answer overtakes another in the pipes.
THEOREM GetsAreComplete == Spec => GetSeesStores
  <1> DEFINE Told == coor' = Ready /\ coor \in Ids /\ answers[coor] # << >> /\ ~toggled[coor]
                       => Head(answers[coor]) = sent[coor]
  <1>1. Invariant /\ [Next]_vars => [Told]_vars
    <2> SUFFICES ASSUME Invariant, [Next]_vars PROVE [Told]_vars
      OBVIOUS
    <2>1. ASSUME coor' = Ready, coor \in Ids, ~toggled[coor], Next
          PROVE  Head(answers[coor]) = sent[coor]
      <3>1. coor # Ready /\ coor' # coor
        BY <2>1, ReadyFacts
      <3>2. GetAnswer
        BY <2>1, <3>1, ReadyFacts DEF Next, Coordinate, Work, Launch, Exit, EndOfInput, Get,
           Toggle, Destroy, Store, Command, ReadRequest, ReadInteger, Keep, Answer,
           ReadNothing, Handler, coordinator
      <3>3. toggled[coor] = FALSE
        BY <2>1 DEF Invariant, Typed
      <3>4. QED
        BY <3>2, <3>3, GetAnswerKeeps
    <2>2. QED
      BY <2>1
  <1>2. QED
    BY <1>1, InitHolds, NextKeeps, PTL DEF Spec, GetSeesStores
=============================================================================
