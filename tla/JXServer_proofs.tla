--------------------------- MODULE JXServer_proofs ---------------------------
(***************************************************************************)
(* Theorems about JXServer for any number of clients, any descriptors and  *)
(* any scripts.                                                            *)
(***************************************************************************)
EXTENDS JXServer, FiniteSetTheorems, SequenceTheorems, WellFoundedInduction, TLAPS

-----------------------------------------------------------------------------
(* Numbers                                                                 *)

\* Min picks the least element of a nonempty set of naturals.
LEMMA LeastNatural ==
  ASSUME NEW I, I \subseteq Nat, I # {}
  PROVE  Min(I) \in I /\ \A x \in I : Min(I) <= x
  <1> DEFINE R == OpToRel(<, Nat)
  <1>1. IsWellFoundedOn(R, Nat)
    BY NatLessThanWellFounded
  <1>2. R = { ss \in Nat \X Nat : ss[1] < ss[2] }
    BY DEF OpToRel
  <1> HIDE DEF R
  <1>3. PICK least \in I : \A y \in I : ~(<< y, least >> \in R)
    BY <1>1, WFMin
  <1>4. ASSUME NEW y \in I PROVE least <= y
    <2>1. << y, least >> \in Nat \X Nat
      OBVIOUS
    <2>2. ~(y < least)
      BY <1>2, <1>3, <2>1
    <2>3. QED
      BY <2>2
  <1>5. QED
    BY <1>4 DEF Min

\* Max picks the greatest element of a nonempty finite set of naturals: a smallest
\* subset without a greatest element would lose one element and then have one.
LEMMA GreatestNatural ==
  ASSUME NEW S, S \subseteq Nat, S # {}, IsFiniteSet(S)
  PROVE  Max(S) \in S /\ \A x \in S : x <= Max(S)
  <1> DEFINE HasMax(A) == \E x \in A : \A y \in A : y <= x
             Sizes     == { Cardinality(A) : A \in { B \in SUBSET S : B # {} /\ ~HasMax(B) } }
  <1>1. Sizes \subseteq Nat
    BY FS_Subset, FS_CardinalityType
  <1>2. Sizes = {}
    <2>1. SUFFICES ASSUME Sizes # {} PROVE FALSE
      OBVIOUS
    <2>2. Min(Sizes) \in Sizes /\ \A k \in Sizes : Min(Sizes) <= k
      <3> HIDE DEF Sizes
      <3> QED BY <1>1, <2>1, LeastNatural
    <2>3. PICK A \in SUBSET S : A # {} /\ ~HasMax(A) /\ Cardinality(A) = Min(Sizes)
      BY <2>2
    <2>4. PICK a \in A : TRUE
      BY <2>3
    <2> DEFINE B == A \ {a}
    <2>5. IsFiniteSet(A) /\ Cardinality(A) \in Nat
      BY FS_Subset, FS_CardinalityType
    <2>6. Cardinality(B) = Cardinality(A) - 1
      BY <2>4, <2>5, FS_RemoveElement
    <2>7. B = {} \/ HasMax(B)
      <3>1. SUFFICES ASSUME B # {}, ~HasMax(B) PROVE FALSE
        OBVIOUS
      <3>2. Cardinality(B) \in Sizes
        BY <3>1
      <3>3. Min(Sizes) <= Cardinality(B)
        BY <2>2, <3>2
      <3>4. QED
        BY <2>3, <2>5, <2>6, <3>3
    <2>8. CASE B = {}
      <3>1. \A y \in A : y <= a
        BY <2>8
      <3>2. QED
        BY <2>3, <2>4, <3>1
    <2>9. CASE HasMax(B)
      <3>1. PICK b \in B : \A y \in B : y <= b
        BY <2>9
      <3>2. CASE a <= b
        <4>1. \A y \in A : y <= b
          BY <3>1, <3>2
        <4>2. QED
          BY <2>3, <4>1
      <3>3. CASE ~(a <= b)
        <4>1. a \in Nat /\ b \in Nat /\ \A y \in B : y \in Nat
          OBVIOUS
        <4>2. \A y \in A : y <= a
          BY <3>1, <3>3, <4>1
        <4>3. QED
          BY <2>3, <2>4, <4>2
      <3>4. QED
        BY <3>2, <3>3
    <2>10. QED
      BY <2>7, <2>8, <2>9
  <1>3. HasMax(S)
    <2>1. Cardinality(S) \notin Sizes
      BY <1>2
    <2>2. QED
      BY <2>1
  <1>4. \E x \in S : \A y \in S : x >= y
    BY <1>3
  <1>5. QED
    BY <1>4 DEF Max

-----------------------------------------------------------------------------
(* The inductive invariants                                                *)

\* The messages of the scripts the clients have chosen
Sent == UNION { Range(script[c]) : c \in Conns }

Parts == [n : Nat, m : Sent, rest : {"all", "payload"}]

Received == [n : Nat, m : Messages \cup {[type |-> "none"]}]

Retrievals == { m \in Messages : m.type = "retrieve" }

Entries == [id : { Parse(m.id) : m \in Retrievals }, target : { m.target : m \in Retrievals },
            name : Conns \X Nat, compress : BOOLEAN]

\* what a response may be
Kinds == {"error", "list", "echo", "size", "empty", "data"}

\* A thread that waits for a payload holds a message that may have one.
Held(m) == m \in Messages /\ m.type \in {"list", "echo", "size", "retrieve"}

\* From the check to the end of a transfer a thread holds a request for a file.
Requested(m) == m \in Messages /\ m.type = "retrieve" /\ m.exists

\* Types of what TypeOK leaves out
Typed ==
  /\ script \in Scenarios
  /\ stream \in [Conns -> Seq(Parts)]
  /\ answers \in [Conns -> Seq(Conns \X Nat \X Kinds)]
  /\ message \in [Conns -> Received]
  /\ payloads \in [Conns -> Nat]
  /\ requests \in Seq(Entries)
  /\ open \in [Conns -> BOOLEAN]
  /\ kept \in Nat /\ lost \in BOOLEAN /\ stolen \in BOOLEAN
  /\ \A c \in Conns : pc[c] \in {"payload", "body"} => Held(message[c].m)
  /\ \A c \in Conns : pc[c] \in {"check", "send", "remove"} => Requested(message[c].m)

\* Only Accept gives a connection a descriptor: what the uniqueness in TypeOK rests on.
NotYetAccepted ==
  \A c \in Conns : pc[c] = "none" => \A d \in Descriptors : table[d] # c

\* the running transfers that will be removed
Compressing == { c \in Conns : Transferring(c) /\ message[c].m.compress }

\* Only transfers with compression are removed.
RemovesCompressed ==
  \A c \in Conns : pc[c] = "remove" => message[c].m.compress

CountInvariant == TypeOK /\ Typed /\ NotYetAccepted /\ RemovesCompressed /\ SizeCountsTransfers

\* Until a removal hits another's entry, every transfer has its own in the array.
TransfersHaveEntries ==
  ~lost => \A c \in Conns : Transferring(c) =>
             \E i \in 1..Len(requests) : requests[i] = Mine(c)

TransferInvariant == CountInvariant /\ TransfersHaveEntries /\ OneTransferPerSession

SomeShutdown == \E c \in Conns : \E i \in DOMAIN script[c] : script[c][i].type = "shutdown"

\* What may make a thread close another's connection
Disturbed == SomeShutdown \/ torn # {}

Active(c) == pc[c] \in {"read", "recv", "payload", "body", "check", "send", "remove"}

\* While its connection is served a thread has its own connection behind its
\* descriptor; when nothing makes it close the descriptor twice, up to its end.
DescriptorsAreOwn ==
  \A c \in Conns :
    /\ ~stolen /\ Active(c) => table[new_socket[c]] = c
    /\ ~stolen /\ pc[c] \in {"recv", "body"} => source[c] = c
    /\ ~Disturbed /\ (Active(c) \/ pc[c] = "free") => table[new_socket[c]] = c

\* the messages a thread has answered: all it has read, except one it is still at
Served(c) ==
  message[c].n - (IF \/ pc[c] \in {"payload", "body"} /\ message[c].m.type # "list"
                     \/ pc[c] \in {"check", "send"} THEN 1 ELSE 0)

AtPayload(c) == pc[c] \in {"payload", "body"} /\ HasPayload(message[c].m)

\* the messages of which nothing is left on the connection
Taken(c) == message[c].n - (IF AtPayload(c) THEN 1 ELSE 0)

\* The message at this place of what is left on the connection
PartOf(c, n) == [n |-> n, m |-> script[c][n],
                 rest |-> IF n = message[c].n THEN "payload" ELSE "all"]

\* What has been read and what is left on a connection make up the script.
RestIsLeft(c) ==
  /\ Taken(c) + Len(stream[c]) = Len(script[c])
  /\ \A j \in 1..Len(stream[c]) : stream[c][j] = PartOf(c, Taken(c) + j)

\* A thread has answered all it has read except the message it is at.
ScriptIsServed(c) ==
  /\ pc[c] = "none" => answers[c] = << >> /\ message[c].n = 0
  /\ Active(c) => RestIsLeft(c) /\ (open[c] => Len(answers[c]) = Served(c))
  /\ pc[c] \in {"payload", "body", "check", "send"} =>
       message[c].n \in 1..Len(script[c]) /\ message[c].m = script[c][message[c].n]

InOrder(c) ==
  \A i \in DOMAIN answers[c] :
    /\ answers[c][i][1] = c /\ answers[c][i][2] = i
    /\ i \in DOMAIN script[c] /\ answers[c][i][3] \in Expected(c, i)

Local(c) == ScriptIsServed(c) /\ InOrder(c)

\* An entry is that of message j of client d, which its thread has checked.
IsEntryOf(entry, d, j) ==
  /\ j \in 1..Len(script[d]) /\ Requested(script[d][j])
  /\ entry.id = Parse(script[d][j].id) /\ entry.target = script[d][j].target
  /\ entry.compress = script[d][j].compress
  /\ j <= message[d].n
  /\ j = message[d].n => pc[d] \notin {"payload", "body", "check"}

EntriesAreRequests ==
  \A k \in 1..Len(requests) : \E d \in Conns, j \in Nat : IsEntryOf(requests[k], d, j)

AnswerInvariant ==
  /\ CountInvariant /\ DescriptorsAreOwn
  /\ stolen => Disturbed
  /\ ~stolen => \A c \in Conns \ torn : Local(c)
  /\ ~stolen /\ torn = {} => EntriesAreRequests

-----------------------------------------------------------------------------
(* What the helpers of the actions do                                      *)

\* The descriptor accept() returns is one that stands for nothing.
LEMMA FreeDescriptorIsFree ==
  ASSUME \E d \in Descriptors : table[d] = NoConn
  PROVE  FreeDescriptor \in Descriptors /\ table[FreeDescriptor] = NoConn
  <1> DEFINE free == { d \in Descriptors : table[d] = NoConn }
  <1>1. free \subseteq Nat /\ free # {}
    BY ServerAssumption
  <1>2. Min(free) \in free
    <2> HIDE DEF free
    <2> QED BY <1>1, LeastNatural
  <1>3. QED
    BY <1>2 DEF FreeDescriptor

\* What is sent is among the messages the assumption speaks of.
LEMMA SentAreMessages ==
  ASSUME script \in Scenarios
  PROVE  Sent \subseteq Messages
  BY ServerAssumption DEF Sent, Messages

\* What a broken recv leaves is still what the client has sent.
LEMMA LeftOutTyped ==
  ASSUME Typed, NEW p \in Conns, stream' = LeftOut(p)
  PROVE  stream' \in [Conns -> Seq(Parts)]
  <1>1. CASE p \in torn /\ stream[p] # << >>
    <2>1. stream' = [stream EXCEPT ![p] = Tail(stream[p])]
      BY <1>1 DEF LeftOut, Typed
    <2>2. Tail(stream[p]) \in Seq(Parts)
      <3>1. stream[p] \in Seq(Parts)
        BY DEF Typed
      <3> HIDE DEF Parts
      <3>2. QED
        BY <1>1, <3>1, HeadTailProperties
    <2>3. QED
      BY <2>1, <2>2 DEF Typed
  <1>2. CASE ~(p \in torn /\ stream[p] # << >>)
    BY <1>2 DEF LeftOut, Typed
  <1>3. QED
    BY <1>1, <1>2

\* The types of what recv has got for a header
HeaderRead(c, types) ==
  /\ pc[c] = "recv" /\ source[c] \in Conns
  /\ stream' \in [Conns -> Seq(Parts)] /\ message' \in [Conns -> Received]
  /\ message'[c].n \in Nat /\ message'[c].m \in Messages /\ message'[c].m.type \in types
  /\ \A d \in Conns \ {c} : message'[d] = message[d]
  /\ torn \subseteq torn' /\ torn' \subseteq Conns

\* A header is that of a message, or what the bytes are taken for.
LEMMA HeaderFacts ==
  ASSUME TypeOK, Typed, NEW c \in Conns, NEW types, ReceiveHeader(c, types)
  PROVE  HeaderRead(c, types)
  <1>1. PICK p \in Conns : p = source[c]
    BY DEF ReceiveHeader, TypeOK
  <1>2. stream[p] \in Seq(Parts) /\ stream[p] # << >>
    BY <1>1 DEF ReceiveHeader, Typed
  <1>3. PICK first \in Parts : first = Head(stream[p])
    <2> HIDE DEF Parts
    <2> QED BY <1>2, HeadTailProperties
  <1>4. Tail(stream[p]) \in Seq(Parts)
    <2> HIDE DEF Parts
    <2> QED BY <1>2, HeadTailProperties
  <1>5. first.n \in Nat /\ first.m \in Messages
    <2>1. first.m \in Sent /\ script \in Scenarios
      BY <1>3 DEF Parts, Typed
    <2>2. QED
      BY <1>3, <2>1, SentAreMessages DEF Parts
  <1>6. /\ stream' \in [Conns -> Seq(Parts)]
        /\ torn \subseteq torn' /\ torn' \subseteq Conns
        /\ \E r : /\ r \in [n : Nat, m : Messages]
                 /\ message' = [message EXCEPT ![c] = r]
    <2>1. CASE HeaderWhole(c)
      <3>1. PICK s : /\ s \in {Tail(stream[p]),
                              << [first EXCEPT !.rest = "payload"] >> \o Tail(stream[p])}
                    /\ stream' = [stream EXCEPT ![p] = s]
        BY <1>1, <1>3, <2>1 DEF HeaderWhole, Typed
      <3>2. PICK x : x = [first EXCEPT !.rest = "payload"]
        OBVIOUS
      <3>3. x \in Parts
        BY <3>2 DEF Parts
      <3>4. << x >> \in Seq(Parts)
        <4> HIDE DEF Parts
        <4> QED BY <3>3
      <3>5. << x >> \o Tail(stream[p]) \in Seq(Parts)
        <4> HIDE DEF Parts
        <4> QED BY <1>4, <3>4, ConcatProperties
      <3>6. s \in Seq(Parts)
        BY <1>4, <3>1, <3>2, <3>5
      <3>7. stream' \in [Conns -> Seq(Parts)]
        BY <3>1, <3>6 DEF Typed
      <3>8. [n |-> first.n, m |-> first.m] \in [n : Nat, m : Messages]
        BY <1>5
      <3>9. message' = [message EXCEPT ![c] = [n |-> first.n, m |-> first.m]]
        BY <1>1, <1>3, <2>1 DEF HeaderWhole
      <3>10. QED
        BY <2>1, <3>7, <3>8, <3>9 DEF HeaderWhole, TypeOK
    <2>2. CASE HeaderBroken(c)
      <3>1. PICK g \in Garbled \cup {first.m} :
              message' = [message EXCEPT ![c] = [n |-> 0, m |-> g]]
        BY <1>1, <1>3, <2>2 DEF HeaderBroken
      <3>2. [n |-> 0, m |-> g] \in [n : Nat, m : Messages]
        BY <1>5, <3>1 DEF Messages
      <3>3. stream' = LeftOut(p) /\ torn' = torn \cup {p}
        BY <1>1, <2>2 DEF HeaderBroken
      <3>4. stream' \in [Conns -> Seq(Parts)]
        BY <3>3, LeftOutTyped
      <3>5. torn' \subseteq Conns
        BY <3>3 DEF TypeOK
      <3>6. QED
        BY <3>1, <3>2, <3>3, <3>4, <3>5
    <2>3. QED
      BY <2>1, <2>2 DEF ReceiveHeader
  <1>7. PICK r \in [n : Nat, m : Messages] : message' = [message EXCEPT ![c] = r]
    BY <1>6
  <1>8. r \in Received
    BY DEF Received
  <1>9. /\ message' \in [Conns -> Received] /\ message'[c] = r
        /\ \A d \in Conns \ {c} : message'[d] = message[d]
    BY <1>7, <1>8 DEF Typed
  <1>10. pc[c] = "recv" /\ message'[c].m.type \in types
    BY DEF ReceiveHeader
  <1>11. QED
    BY <1>1, <1>6, <1>7, <1>9, <1>10 DEF HeaderRead

\* The types of what recv has got for a payload
PayloadRead(c) ==
  /\ pc[c] = "body"
  /\ stream' \in [Conns -> Seq(Parts)] /\ message' \in [Conns -> Received]
  /\ message'[c].n \in Nat /\ message'[c].m \in Messages
  /\ message'[c].m.type = message[c].m.type /\ Held(message'[c].m)
  /\ \A d \in Conns \ {c} : message'[d] = message[d]
  /\ torn \subseteq torn' /\ torn' \subseteq Conns

\* The payload may be any, but the type of the message stays.
LEMMA PayloadFacts ==
  ASSUME TypeOK, Typed, NEW c \in Conns, pc[c] = "body", PayloadWhole(c) \/ PayloadBroken(c)
  PROVE  PayloadRead(c)
  <1>1. source[c] \in Conns \cup {NoConn}
    BY DEF TypeOK
  <1>2. Held(message[c].m) /\ message[c] \in Received /\ message[c].n \in Nat
    BY DEF Typed, Received
  <1>3. CASE PayloadWhole(c)
    <2>1. PICK p \in Conns : p = source[c]
      BY <1>1, <1>3 DEF PayloadWhole
    <2>2. stream[p] \in Seq(Parts) /\ stream[p] # << >>
      BY <1>3, <2>1 DEF PayloadWhole, Typed
    <2>3. Tail(stream[p]) \in Seq(Parts)
      <3> HIDE DEF Parts
      <3> QED BY <2>2, HeadTailProperties
    <2>4. stream' = [stream EXCEPT ![p] = Tail(stream[p])]
      BY <1>3, <2>1 DEF PayloadWhole, Typed
    <2>5. stream' \in [Conns -> Seq(Parts)]
      BY <2>3, <2>4 DEF Typed
    <2>6. message' = message /\ torn' = torn
      BY <1>3 DEF PayloadWhole
    <2>7. QED
      BY <1>2, <2>5, <2>6 DEF PayloadRead, Typed, TypeOK, Held
  <1>4. CASE PayloadBroken(c)
    <2>1. PICK g \in Garbled \cup {message[c].m} :
            g.type = message[c].m.type /\ message' = [message EXCEPT ![c].m = g]
      BY <1>4 DEF PayloadBroken
    <2>2. g \in Messages
      BY <1>2, <2>1 DEF Messages, Held
    <2>3. PICK r : r = [message[c] EXCEPT !.m = g]
      OBVIOUS
    <2>4. r \in Received /\ r.n = message[c].n /\ r.m = g
      BY <1>2, <2>2, <2>3 DEF Received
    <2>5. message' = [message EXCEPT ![c] = r]
      BY <2>1, <2>3 DEF Typed
    <2>6. /\ message' \in [Conns -> Received] /\ message'[c] = r
          /\ \A d \in Conns \ {c} : message'[d] = message[d]
      BY <2>4, <2>5 DEF Typed
    <2>7. stream' \in [Conns -> Seq(Parts)] /\ torn \subseteq torn' /\ torn' \subseteq Conns
      <3>1. CASE source[c] = NoConn /\ UNCHANGED << stream, torn >>
        BY <3>1 DEF Typed, TypeOK
      <3>2. CASE source[c] # NoConn /\ stream' = LeftOut(source[c])
                 /\ torn' = torn \cup {source[c]}
        BY <1>1, <3>2, LeftOutTyped DEF TypeOK
      <3>3. QED
        BY <1>4, <3>1, <3>2 DEF PayloadBroken
    <2>8. QED
      BY <1>2, <2>1, <2>2, <2>4, <2>6, <2>7 DEF PayloadRead, Held
  <1>5. QED
    BY <1>3, <1>4

\* A response keeps the types of what the clients receive.
LEMMA AnswerTyped ==
  ASSUME TypeOK, Typed, NEW c \in Conns, NEW n \in Nat, NEW kind \in Kinds,
         Answer(c, n, kind)
  PROVE  answers' \in [Conns -> Seq(Conns \X Nat \X Kinds)] /\ killed' \in BOOLEAN
  <1> DEFINE p == table[new_socket[c]]
             A == Conns \X Nat \X Kinds
  <1>1. p \in Conns \cup {NoConn} /\ answers \in [Conns -> Seq(A)] /\ killed \in BOOLEAN
    BY DEF TypeOK, Typed
  <1>2. CASE answers' = answers
    BY <1>1, <1>2 DEF Answer
  <1>3. CASE p # NoConn /\ answers' = [answers EXCEPT ![p] = Append(@, << c, n, kind >>)]
    <2>1. << c, n, kind >> \in A
      OBVIOUS
    <2>2. Append(answers[p], << c, n, kind >>) \in Seq(A)
      <3> HIDE DEF A
      <3> QED BY <1>1, <1>3, <2>1, AppendProperties
    <2>3. answers' \in [Conns -> Seq(A)]
      <3> HIDE DEF A, p
      <3> QED BY <1>1, <1>3, <2>2
    <2>4. killed' \in BOOLEAN
      BY <1>1 DEF Answer
    <2>5. QED
      BY <2>3, <2>4
  <1>4. QED
    BY <1>2, <1>3 DEF Answer

\* Closing a descriptor keeps the kernel's table sound and gives nobody a descriptor.
LEMMA CloseTyped ==
  ASSUME TypeOK, NEW c \in Conns, Close(c)
  PROVE  /\ table' \in [Descriptors -> Conns \cup {NoConn}]
         /\ \A d, e \in Descriptors : table'[d] = table'[e] => d = e \/ table'[d] = NoConn
         /\ \A d \in Descriptors : table'[d] # NoConn => table'[d] = table[d]
         /\ stolen' \in BOOLEAN
  BY DEF Close, TypeOK

-----------------------------------------------------------------------------
(* Types and the counting of transfers                                     *)

\* The initial state satisfies the invariant.
LEMMA InitCount == Init => CountInvariant
  <1> SUFFICES ASSUME Init PROVE CountInvariant
    OBVIOUS
  <1>1. new_socket \in [Conns -> Descriptors]
    <2>1. CASE Conns = {}
      BY <2>1 DEF Init
    <2>2. CASE Conns # {}
      <3>1. IsFiniteSet(Descriptors) /\ Descriptors \subseteq Nat
        BY ServerAssumption
      <3>2. Cardinality(Conns) \in Nat \ {0}
        BY <2>2, ServerAssumption, FS_CardinalityType, FS_EmptySet
      <3>3. Descriptors # {}
        BY <3>2, ServerAssumption, FS_EmptySet
      <3>4. Max(Descriptors) \in Descriptors
        BY <3>1, <3>3, GreatestNatural
      <3>5. QED
        BY <3>4 DEF Init
    <2>3. QED
      BY <2>1, <2>2
  <1>2. TypeOK
    BY <1>1, ServerAssumption DEF Init, TypeOK
  <1>3. Typed
    <2>1. stream \in [Conns -> Seq(Parts)]
      BY DEF Init
    <2>2. answers \in [Conns -> Seq(Conns \X Nat \X Kinds)]
      BY DEF Init
    <2>3. message \in [Conns -> Received]
      BY DEF Init, Received
    <2>4. requests \in Seq(Entries)
      BY DEF Init
    <2>5. QED
      BY <2>1, <2>2, <2>3, <2>4 DEF Init, Typed
  <1>4. NotYetAccepted /\ RemovesCompressed
    BY ServerAssumption DEF Init, NotYetAccepted, RemovesCompressed
  <1>5. SizeCountsTransfers
    <2>1. Compressing = {}
      BY DEF Init, Compressing, Transferring
    <2>2. Len(requests) = 0 /\ kept = 0
      BY DEF Init
    <2>3. Len(requests) = kept + Cardinality(Compressing)
      BY <2>1, <2>2, FS_EmptySet
    <2>4. QED
      BY <2>3 DEF SizeCountsTransfers, Compressing
  <1>6. QED
    BY <1>2, <1>3, <1>4, <1>5 DEF CountInvariant

\* Each step keeps the types; the array of sessions is looked at below.
LEMMA StepTypeOK ==
  ASSUME TypeOK, Typed, NotYetAccepted, NEW c \in Conns,
         Accept(c) \/ CloseClient(c) \/ Thread(c)
  PROVE  TypeOK' /\ NotYetAccepted'
  <1> DEFINE Places == {"none", "read", "recv", "payload", "body", "check", "send",
                        "remove", "free", "ended"}
  <1>1. CASE Accept(c)
    <2>1. FreeDescriptor \in Descriptors /\ table[FreeDescriptor] = NoConn
      BY <1>1, FreeDescriptorIsFree DEF Accept
    <2>2. \A d \in Descriptors : table[d] # c
      BY <1>1 DEF Accept, NotYetAccepted
    <2>3. /\ table' = [table EXCEPT ![FreeDescriptor] = c]
          /\ new_socket' = [new_socket EXCEPT ![c] = FreeDescriptor]
          /\ source' = source /\ pc' = [pc EXCEPT ![c] = "read"]
          /\ UNCHANGED << torn, killed >>
      BY <1>1 DEF Accept
    <2> HIDE DEF FreeDescriptor
    <2>4. QED
      BY <2>1, <2>2, <2>3, ServerAssumption DEF TypeOK, NotYetAccepted
  <1>2. CASE CloseClient(c)
    BY <1>2 DEF CloseClient, TypeOK, NotYetAccepted
  <1>3. CASE CallRecv(c) \/ CallRecvPayload(c)
    BY <1>3 DEF CallRecv, CallRecvPayload, Goto, TypeOK, NotYetAccepted
  <1>4. ASSUME Close(c), UNCHANGED << new_socket, source, killed >>, torn' \subseteq Conns,
               pc' \in { [pc EXCEPT ![c] = p] : p \in {"free", "ended"} }
        PROVE  TypeOK' /\ NotYetAccepted'
    <2>1. /\ table' \in [Descriptors -> Conns \cup {NoConn}]
          /\ \A d, e \in Descriptors : table'[d] = table'[e] => d = e \/ table'[d] = NoConn
          /\ \A d \in Descriptors : table'[d] # NoConn => table'[d] = table[d]
      BY <1>4, CloseTyped
    <2>2. pc' \in [Conns -> Places]
      BY <1>4 DEF TypeOK
    <2>3. \A x \in Conns : pc'[x] = "none" => pc[x] = "none"
      BY <1>4 DEF TypeOK
    <2>4. TypeOK'
      BY <1>4, <2>1, <2>2 DEF TypeOK
    <2>5. NotYetAccepted'
      BY <2>1, <2>3, ServerAssumption DEF NotYetAccepted
    <2>6. QED
      BY <2>4, <2>5
  <1>5. ASSUME UNCHANGED << table, new_socket, source >>, torn' \subseteq Conns,
               killed' \in BOOLEAN,
               pc' \in { [pc EXCEPT ![c] = p] : p \in Places \ {"none"} }
        PROVE  TypeOK' /\ NotYetAccepted'
    BY <1>5 DEF TypeOK, NotYetAccepted
  <1>6. torn \subseteq Conns /\ killed \in BOOLEAN
    BY DEF TypeOK
  <1>7. ASSUME NEW types, ReceiveHeader(c, types)
        PROVE  torn' \subseteq Conns /\ message'[c].n \in Nat
    BY <1>7, HeaderFacts DEF HeaderRead
  <1>8. ASSUME pc[c] = "body", PayloadWhole(c) \/ PayloadBroken(c)
        PROVE  torn' \subseteq Conns /\ message'[c].n \in Nat
    BY <1>8, PayloadFacts DEF PayloadRead
  <1>9. ASSUME NEW types, ReceivePayload(c, types)
        PROVE  torn' \subseteq Conns /\ message'[c].n \in Nat
    BY <1>8, <1>9 DEF ReceivePayload
  <1>10. ASSUME NEW n \in Nat, NEW kind \in Kinds, Answer(c, n, kind)
         PROVE  killed' \in BOOLEAN
    BY <1>10, AnswerTyped
  <1>11. CASE ReceiveShutdown(c)
    BY <1>4, <1>7, <1>11 DEF ReceiveShutdown, Goto
  <1>12. CASE FreeData(c)
    BY <1>4, <1>6, <1>12 DEF FreeData, Goto, AfterFree
  <1>13. CASE ReceiveEnd(c) \/ PayloadNone(c) \/ CheckNew(c) \/ RemoveSession(c)
    BY <1>5, <1>6, <1>13
    DEF ReceiveEnd, PayloadNone, CheckNew, RemoveSession, Goto, AfterEmpty
  <1>14. CASE ReceiveInvalid(c)
    BY <1>5, <1>7, <1>10, <1>14 DEF ReceiveInvalid, Goto, AfterError, Kinds
  <1>15. CASE ReceiveList(c)
    BY <1>5, <1>7, <1>10, <1>15 DEF ReceiveList, Goto, Kinds
  <1>16. CASE ReceiveRequest(c)
    BY <1>5, <1>6, <1>7, <1>16 DEF ReceiveRequest, Goto
  <1>17. CASE ServeNothing(c) \/ ReceiveRetrieve(c)
    BY <1>5, <1>6, <1>9, <1>17 DEF ServeNothing, ReceiveRetrieve, Goto
  <1>18. CASE ReceiveEcho(c)
    BY <1>5, <1>9, <1>10, <1>18 DEF ReceiveEcho, Goto, Kinds
  <1>19. CASE ReceiveSize(c)
    BY <1>5, <1>9, <1>10, <1>19 DEF ReceiveSize, Goto, Kinds
  <1>20. CASE ReceiveRefused(c)
    BY <1>5, <1>9, <1>10, <1>20 DEF ReceiveRefused, Goto, Kinds
  <1>21. CASE Crash(c)
    <2>1. pc' = [pc EXCEPT ![c] = "body"]
      BY <1>21 DEF Crash, TypeOK
    <2>2. QED
      BY <1>5, <1>8, <1>21, <2>1 DEF Crash
  <1>22. CASE CheckKnown(c)
    <2>1. PICK kind \in Kinds : Answer(c, message[c].n, kind)
      BY <1>22 DEF CheckKnown, Verdicts, Kinds
    <2>2. message[c].n \in Nat
      BY DEF Typed, Received
    <2>3. QED
      BY <1>5, <1>6, <1>10, <1>22, <2>1, <2>2 DEF CheckKnown, Goto
  <1>23. CASE SendData(c)
    <2>1. message[c].n \in Nat
      BY DEF Typed, Received
    <2>2. QED
      BY <1>5, <1>6, <1>10, <1>23, <2>1 DEF SendData, Goto, Kinds
  <1>24. QED
    BY <1>1, <1>2, <1>3, <1>11, <1>12, <1>13, <1>14, <1>15, <1>16, <1>17, <1>18, <1>19,
       <1>20, <1>21, <1>22, <1>23 DEF Thread

\* The entry of a thread that has been asked for a file
LEMMA MineIsAnEntry ==
  ASSUME Typed, NEW c \in Conns, pc[c] \in {"check", "send", "remove"}
  PROVE  Mine(c) \in Entries /\ message[c].m.compress \in BOOLEAN
  <1>1. message[c].m \in Retrievals
    BY DEF Typed, Requested, Retrievals
  <1>2. message[c].m.compress \in BOOLEAN
    BY <1>1, ServerAssumption DEF Retrievals
  <1>3. << c, payloads[c] >> \in Conns \X Nat
    BY DEF Typed
  <1>4. QED
    BY <1>1, <1>2, <1>3 DEF Mine, Entries

\* A step that starts and ends no transfer with compression and leaves the array alone
\* keeps the count.
LEMMA SameCount ==
  ASSUME SizeCountsTransfers, Compressing' = Compressing,
         requests' = requests, kept' = kept
  PROVE  SizeCountsTransfers'
  BY DEF SizeCountsTransfers, Compressing

\* A thread that is not at a transfer, before or after the step, changes no transfer.
LEMMA OtherTransfers ==
  ASSUME TypeOK, NEW c \in Conns, ~Transferring(c),
         NEW p \in {"none", "read", "recv", "payload", "body", "check", "free", "ended"},
         pc' = [pc EXCEPT ![c] = p],
         \A d \in Conns \ {c} : message'[d] = message[d]
  PROVE  Compressing' = Compressing
  <1>1. \A d \in Conns \ {c} : pc'[d] = pc[d]
    BY DEF TypeOK
  <1>2. pc'[c] = p
    BY DEF TypeOK
  <1>3. \A d \in Conns : Transferring(d)' <=> Transferring(d)
    BY <1>1, <1>2 DEF Transferring
  <1>4. \A d \in Conns : Transferring(d) => d # c
    OBVIOUS
  <1>5. \A d \in Conns : d \in Compressing' <=> d \in Compressing
    BY <1>3, <1>4 DEF Compressing
  <1>6. QED
    BY <1>5 DEF Compressing

\* Reading, and serving a message up to the check of a request for a file
LEMMA ReadCount ==
  ASSUME CountInvariant, NEW c \in Conns, pc[c] \in {"recv", "body"},
         stream' \in [Conns -> Seq(Parts)], message' \in [Conns -> Received],
         \A d \in Conns \ {c} : message'[d] = message[d],
         answers' \in [Conns -> Seq(Conns \X Nat \X Kinds)], stolen' \in BOOLEAN,
         UNCHANGED << script, open, payloads, requests, kept, lost >>,
         NEW p \in {"read", "free", "payload", "body", "check"}, pc' = [pc EXCEPT ![c] = p],
         p \in {"payload", "body"} => Held(message'[c].m),
         p = "check" => Requested(message'[c].m)
  PROVE  Typed' /\ RemovesCompressed' /\ SizeCountsTransfers'
  <1>1. TypeOK /\ Typed /\ RemovesCompressed /\ SizeCountsTransfers
    BY DEF CountInvariant
  <1>2. Parts' = Parts /\ Entries' = Entries
    BY DEF Sent, Parts, Entries
  <1>3. pc'[c] = p /\ \A d \in Conns \ {c} : pc'[d] = pc[d]
    BY <1>1 DEF TypeOK
  <1>4. /\ \A d \in Conns : pc'[d] \in {"payload", "body"} => Held(message'[d].m)
        /\ \A d \in Conns : pc'[d] \in {"check", "send", "remove"} => Requested(message'[d].m)
    BY <1>1, <1>3 DEF Typed
  <1>5. Typed'
    BY <1>1, <1>2, <1>4 DEF Typed
  <1>6. RemovesCompressed'
    BY <1>1, <1>3 DEF RemovesCompressed
  <1>7. Compressing' = Compressing
    BY <1>1, OtherTransfers DEF Transferring
  <1>8. QED
    BY <1>1, <1>5, <1>6, <1>7, SameCount

\* The ways a header is read
LEMMA HeaderCount ==
  ASSUME CountInvariant, NEW c \in Conns,
         \/ ReceiveInvalid(c) \/ ReceiveShutdown(c) \/ ReceiveList(c) \/ ReceiveRequest(c)
  PROVE  Typed' /\ RemovesCompressed' /\ SizeCountsTransfers'
  <1>1. TypeOK /\ Typed
    BY DEF CountInvariant
  <1>2. answers \in [Conns -> Seq(Conns \X Nat \X Kinds)] /\ stolen \in BOOLEAN
    BY <1>1 DEF Typed
  <1>3. ASSUME NEW types, ReceiveHeader(c, types) PROVE HeaderRead(c, types)
    BY <1>1, <1>3, HeaderFacts
  <1>4. ASSUME NEW n \in Nat, NEW kind \in Kinds, Answer(c, n, kind)
        PROVE  answers' \in [Conns -> Seq(Conns \X Nat \X Kinds)]
    BY <1>1, <1>4, AnswerTyped
  <1>5. CASE ReceiveInvalid(c)
    <2>1. HeaderRead(c, {"other"}) /\ Answer(c, message'[c].n, "error")
      BY <1>3, <1>5 DEF ReceiveInvalid
    <2>2. answers' \in [Conns -> Seq(Conns \X Nat \X Kinds)]
      BY <1>4, <2>1 DEF HeaderRead, Kinds
    <2>3. /\ UNCHANGED << script, open, payloads, requests, kept, lost, stolen >>
          /\ pc' = [pc EXCEPT ![c] = "free"]
      BY <1>5 DEF ReceiveInvalid, AfterError, Goto, client
    <2>4. QED
      BY <1>2, <2>1, <2>2, <2>3, ReadCount DEF HeaderRead
  <1>6. CASE ReceiveShutdown(c)
    <2>1. HeaderRead(c, {"shutdown"}) /\ stolen' \in BOOLEAN
      BY <1>1, <1>3, <1>6, CloseTyped DEF ReceiveShutdown
    <2>2. /\ UNCHANGED << script, open, answers, payloads, requests, kept, lost >>
          /\ pc' = [pc EXCEPT ![c] = "free"]
      BY <1>6 DEF ReceiveShutdown, Goto, client
    <2>3. QED
      BY <1>2, <2>1, <2>2, ReadCount DEF HeaderRead
  <1>7. CASE ReceiveList(c)
    <2>1. HeaderRead(c, {"list"}) /\ Answer(c, message'[c].n, "list")
      BY <1>3, <1>7 DEF ReceiveList
    <2>2. answers' \in [Conns -> Seq(Conns \X Nat \X Kinds)]
      BY <1>4, <2>1 DEF HeaderRead, Kinds
    <2>3. /\ UNCHANGED << script, open, payloads, requests, kept, lost, stolen >>
          /\ pc' = [pc EXCEPT ![c] = "payload"]
      BY <1>7 DEF ReceiveList, Goto, client, history
    <2>4. Held(message'[c].m)
      BY <2>1 DEF HeaderRead, Held
    <2>5. QED
      BY <1>2, <2>1, <2>2, <2>3, <2>4, ReadCount DEF HeaderRead
  <1>8. CASE ReceiveRequest(c)
    <2>1. HeaderRead(c, {"echo", "size", "retrieve"})
      BY <1>3, <1>8 DEF ReceiveRequest
    <2>2. /\ UNCHANGED << script, open, answers, payloads, requests, kept, lost, stolen >>
          /\ pc' = [pc EXCEPT ![c] = "payload"]
      BY <1>8 DEF ReceiveRequest, Goto, client, history
    <2>3. Held(message'[c].m)
      BY <2>1 DEF HeaderRead, Held
    <2>4. QED
      BY <1>2, <2>1, <2>2, <2>3, ReadCount DEF HeaderRead
  <1>9. QED
    BY <1>5, <1>6, <1>7, <1>8

\* The ways a payload is read and served
LEMMA PayloadCount ==
  ASSUME CountInvariant, NEW c \in Conns,
         \/ ServeNothing(c) \/ ReceiveEcho(c) \/ ReceiveSize(c) \/ ReceiveRefused(c)
         \/ ReceiveRetrieve(c) \/ Crash(c)
  PROVE  Typed' /\ RemovesCompressed' /\ SizeCountsTransfers'
  <1>1. TypeOK /\ Typed
    BY DEF CountInvariant
  <1>2. answers \in [Conns -> Seq(Conns \X Nat \X Kinds)] /\ stolen \in BOOLEAN
    BY <1>1 DEF Typed
  <1>3. PayloadRead(c)
    BY <1>1, PayloadFacts DEF ServeNothing, ReceiveEcho, ReceiveSize, ReceiveRefused,
                              ReceiveRetrieve, Crash, ReceivePayload
  <1>4. answers' \in [Conns -> Seq(Conns \X Nat \X Kinds)]
    <2>1. CASE answers' = answers
      BY <1>2, <2>1
    <2>2. CASE \E kind \in Kinds : Answer(c, message'[c].n, kind)
      BY <1>1, <1>3, <2>2, AnswerTyped DEF PayloadRead
    <2>3. QED
      BY <2>1, <2>2 DEF ServeNothing, ReceiveEcho, ReceiveSize, ReceiveRefused,
                        ReceiveRetrieve, Crash, Kinds
  <1>5. UNCHANGED << script, open, payloads, requests, kept, lost, stolen >>
    BY DEF ServeNothing, ReceiveEcho, ReceiveSize, ReceiveRefused, ReceiveRetrieve, Crash,
           client, history
  <1>6. CASE ServeNothing(c) \/ ReceiveEcho(c) \/ ReceiveSize(c) \/ ReceiveRefused(c)
    <2>1. pc' = [pc EXCEPT ![c] = "read"]
      BY <1>6 DEF ServeNothing, ReceiveEcho, ReceiveSize, ReceiveRefused, Goto
    <2>2. QED
      BY <1>2, <1>3, <1>4, <1>5, <2>1, ReadCount DEF PayloadRead
  <1>7. CASE ReceiveRetrieve(c)
    <2>1. pc' = [pc EXCEPT ![c] = "check"] /\ Requested(message'[c].m)
      BY <1>3, <1>7 DEF ReceiveRetrieve, ReceivePayload, Goto, PayloadRead, Requested
    <2>2. QED
      BY <1>2, <1>3, <1>4, <1>5, <2>1, ReadCount DEF PayloadRead
  <1>8. CASE Crash(c)
    <2>1. pc' = [pc EXCEPT ![c] = "body"]
      BY <1>1, <1>8 DEF Crash, TypeOK
    <2>2. QED
      BY <1>2, <1>3, <1>4, <1>5, <2>1, ReadCount DEF PayloadRead
  <1>9. QED
    BY <1>6, <1>7, <1>8

\* The steps outside the transfers that read nothing
LEMMA PlainCount ==
  ASSUME CountInvariant, NEW c \in Conns,
         \/ Accept(c) \/ CloseClient(c) \/ CallRecv(c) \/ ReceiveEnd(c)
         \/ CallRecvPayload(c) \/ PayloadNone(c) \/ FreeData(c)
  PROVE  Typed' /\ RemovesCompressed' /\ SizeCountsTransfers'
  <1> USE DEF CallRecvPayload, PayloadNone, AfterEmpty
  <1>1. TypeOK /\ Typed /\ RemovesCompressed /\ SizeCountsTransfers
    BY DEF CountInvariant
  <1>2. Parts' = Parts /\ Entries' = Entries
    BY DEF Sent, Parts, Entries, Accept, CloseClient, CallRecv, ReceiveEnd, FreeData, client
  <1>3. UNCHANGED << script, message, requests, kept, lost >>
    BY DEF Accept, CloseClient, CallRecv, ReceiveEnd, FreeData, client, history
  <1>4. answers' = answers
    BY DEF Accept, CloseClient, CallRecv, ReceiveEnd, FreeData
  <1>5. stolen' \in BOOLEAN
    BY <1>1, CloseTyped DEF Accept, CloseClient, CallRecv, ReceiveEnd, FreeData, history, Typed
  <1>6. open' \in [Conns -> BOOLEAN] /\ payloads' \in [Conns -> Nat]
    <2>1. open' \in {open, [open EXCEPT ![c] = TRUE], [open EXCEPT ![c] = FALSE]}
      BY DEF Accept, CloseClient, CallRecv, ReceiveEnd, FreeData, client
    <2>2. payloads' \in {payloads, [payloads EXCEPT ![c] = @ + 1]}
      BY DEF Accept, CloseClient, CallRecv, ReceiveEnd, FreeData, Reallocated
    <2>3. open \in [Conns -> BOOLEAN] /\ payloads \in [Conns -> Nat]
      BY <1>1 DEF Typed
    <2>4. open' \in [Conns -> BOOLEAN]
      BY <2>1, <2>3
    <2>5. payloads' \in [Conns -> Nat]
      BY <2>2, <2>3
    <2>6. QED
      BY <2>4, <2>5
  <1>7. stream' \in [Conns -> Seq(Parts)]
    <2>1. CASE Accept(c)
      <3> DEFINE s == [n \in DOMAIN script[c] |-> [n |-> n, m |-> script[c][n], rest |-> "all"]]
      <3>1. script[c] \in Seq(Messages)
        BY <1>1, ServerAssumption DEF Typed
      <3>2. DOMAIN script[c] = 1..Len(script[c]) /\ Len(script[c]) \in Nat
        BY <3>1
      <3>3. \A n \in DOMAIN script[c] : script[c][n] \in Sent
        BY DEF Sent, Range
      <3>4. s \in Seq(Parts)
        BY <3>2, <3>3 DEF Parts
      <3>5. stream' = [stream EXCEPT ![c] = s]
        BY <2>1 DEF Accept
      <3>6. QED
        BY <1>1, <3>4, <3>5 DEF Typed
    <2>2. CASE ~Accept(c)
      BY <1>1, <2>2 DEF CloseClient, CallRecv, ReceiveEnd, FreeData, Typed
    <2>3. QED
      BY <2>1, <2>2
  <1>8. \A d \in Conns : pc'[d] = pc[d] \/
          /\ {pc[d], pc'[d]} \cap {"check", "send", "remove"} = {}
          /\ pc'[d] \in {"payload", "body"} => pc[d] = "payload"
    BY <1>1 DEF Accept, CloseClient, CallRecv, ReceiveEnd, FreeData, Goto, AfterFree, TypeOK
  <1>9. /\ \A d \in Conns : pc'[d] \in {"payload", "body"} => Held(message[d].m)
        /\ \A d \in Conns : pc'[d] \in {"check", "send", "remove"} => Requested(message[d].m)
    BY <1>1, <1>8 DEF Typed
  <1>10. Typed'
    BY <1>1, <1>2, <1>3, <1>4, <1>5, <1>6, <1>7, <1>9 DEF Typed
  <1>11. RemovesCompressed'
    BY <1>1, <1>3, <1>8 DEF RemovesCompressed
  <1>12. Compressing' = Compressing
    <2>1. \A d \in Conns : Transferring(d)' <=> Transferring(d)
      BY <1>8 DEF Transferring
    <2>2. QED
      BY <1>3, <2>1 DEF Compressing
  <1>13. QED
    BY <1>1, <1>3, <1>10, <1>11, <1>12, SameCount

\* check_sessions refuses a transfer, or starts one: with compression it is counted,
\* without it its entry stays for ever.
LEMMA CheckCount ==
  ASSUME CountInvariant, NEW c \in Conns, CheckKnown(c) \/ CheckNew(c)
  PROVE  Typed' /\ RemovesCompressed' /\ SizeCountsTransfers'
  <1>1. /\ TypeOK /\ Typed /\ RemovesCompressed /\ SizeCountsTransfers
        /\ pc[c] = "check"
    BY DEF CountInvariant, CheckKnown, CheckNew
  <1>2. Parts' = Parts /\ Entries' = Entries
    BY DEF Sent, Parts, Entries, CheckKnown, CheckNew, client
  <1>3. Mine(c) \in Entries /\ message[c].m.compress \in BOOLEAN /\ message[c].n \in Nat
    BY <1>1, MineIsAnEntry DEF Typed, Received
  <1>4. CASE CheckKnown(c)
    <2>1. PICK kind \in {"empty", "error"} : Answer(c, message[c].n, kind)
      <3>1. PICK kind \in Verdicts(c, requests[Min(Known(c))]) : Answer(c, message[c].n, kind)
        BY <1>4 DEF CheckKnown
      <3>2. kind \in {"empty", "error"}
        BY <3>1 DEF Verdicts
      <3>3. QED
        BY <3>1, <3>2
    <2>2. answers' \in [Conns -> Seq(Conns \X Nat \X Kinds)]
      BY <1>1, <1>3, <2>1, AnswerTyped DEF Kinds
    <2>3. /\ UNCHANGED << script, open, stream, message, payloads, requests, kept, lost, stolen >>
          /\ pc' = [pc EXCEPT ![c] = "read"]
      BY <1>4 DEF CheckKnown, Goto, client, history
    <2>4. \A d \in Conns : pc'[d] = IF d = c THEN "read" ELSE pc[d]
      BY <1>1, <2>3 DEF TypeOK
    <2>5. Typed'
      BY <1>1, <1>2, <2>2, <2>3, <2>4 DEF Typed
    <2>6. RemovesCompressed'
      BY <1>1, <2>3, <2>4 DEF RemovesCompressed
    <2>7. Compressing' = Compressing
      BY <1>1, <2>3, OtherTransfers DEF Transferring
    <2>8. QED
      BY <1>1, <2>3, <2>5, <2>6, <2>7, SameCount
  <1>5. CASE CheckNew(c)
    <2>1. /\ UNCHANGED << script, open, stream, answers, message, payloads, lost, stolen >>
          /\ pc' = [pc EXCEPT ![c] = "send"]
          /\ requests' = Append(requests, Mine(c))
          /\ kept' = kept + (IF message[c].m.compress THEN 0 ELSE 1)
      BY <1>5 DEF CheckNew, Goto, client, Mine
    <2>2. requests' \in Seq(Entries) /\ Len(requests') = Len(requests) + 1
      BY <1>1, <1>3, <2>1, AppendProperties DEF Typed
    <2>3. kept \in Nat /\ kept' \in Nat
      BY <1>1, <2>1 DEF Typed
    <2>4. \A d \in Conns : pc'[d] = IF d = c THEN "send" ELSE pc[d]
      BY <1>1, <2>1 DEF TypeOK
    <2>5. Typed'
      BY <1>1, <1>2, <2>1, <2>2, <2>3, <2>4 DEF Typed
    <2>6. RemovesCompressed'
      BY <1>1, <2>1, <2>4 DEF RemovesCompressed
    <2>7. Compressing' = IF message[c].m.compress THEN Compressing \cup {c} ELSE Compressing
      <3>1. \A d \in Conns : Transferring(d)' <=> (d = c \/ Transferring(d))
        BY <2>4 DEF Transferring
      <3>2. \A d \in Conns : d \in Compressing' <=>
              (d = c /\ message[c].m.compress) \/ d \in Compressing
        BY <1>1, <2>1, <3>1 DEF Compressing, Transferring
      <3>3. Compressing' \subseteq Conns /\ Compressing \subseteq Conns
        BY DEF Compressing
      <3>4. QED
        BY <3>2, <3>3
    <2>8. c \notin Compressing
      BY <1>1 DEF Compressing, Transferring
    <2>9. IsFiniteSet(Compressing) /\ Cardinality(Compressing) \in Nat
      BY ServerAssumption, FS_Subset, FS_CardinalityType DEF Compressing
    <2>10. Len(requests) = kept + Cardinality(Compressing)
      BY <1>1 DEF SizeCountsTransfers, Compressing
    <2>11. Len(requests') = kept' + Cardinality(Compressing')
      <3>1. CASE message[c].m.compress
        <4>1. Cardinality(Compressing') = Cardinality(Compressing) + 1
          BY <2>7, <2>8, <2>9, <3>1, FS_AddElement
        <4>2. QED
          BY <2>1, <2>2, <2>3, <2>9, <2>10, <3>1, <4>1
      <3>2. CASE ~message[c].m.compress
        BY <2>1, <2>2, <2>3, <2>7, <2>9, <2>10, <3>2
      <3>3. QED
        BY <3>1, <3>2
    <2>12. SizeCountsTransfers'
      BY <2>11 DEF SizeCountsTransfers, Compressing
    <2>13. QED
      BY <2>5, <2>6, <2>12
  <1>6. QED
    BY <1>4, <1>5

\* The file goes out; a transfer with compression is still to be removed.
LEMMA SendCount ==
  ASSUME CountInvariant, NEW c \in Conns, SendData(c)
  PROVE  Typed' /\ RemovesCompressed' /\ SizeCountsTransfers'
  <1>1. /\ TypeOK /\ Typed /\ RemovesCompressed /\ SizeCountsTransfers
        /\ pc[c] = "send"
    BY DEF CountInvariant, SendData
  <1>2. Parts' = Parts /\ Entries' = Entries
    BY DEF Sent, Parts, Entries, SendData, client
  <1>3. message[c].m.compress \in BOOLEAN /\ message[c].n \in Nat
    BY <1>1, MineIsAnEntry DEF Typed, Received
  <1>4. answers' \in [Conns -> Seq(Conns \X Nat \X Kinds)]
    BY <1>1, <1>3, AnswerTyped DEF SendData, Kinds
  <1>5. UNCHANGED << script, open, stream, message, payloads, requests, kept, lost, stolen >>
    BY DEF SendData, client, history
  <1>6. \A d \in Conns : pc'[d] = IF d # c THEN pc[d]
                                  ELSE IF message[c].m.compress THEN "remove" ELSE "read"
    BY <1>1 DEF SendData, Goto, Mine, TypeOK
  <1>7. Typed'
    BY <1>1, <1>2, <1>4, <1>5, <1>6 DEF Typed
  <1>8. RemovesCompressed'
    BY <1>1, <1>5, <1>6 DEF RemovesCompressed
  <1>9. Compressing' = Compressing
    <2>1. \A d \in Conns : d \in Compressing' <=> d \in Compressing
      BY <1>1, <1>5, <1>6 DEF Compressing, Transferring
    <2>2. QED
      BY <2>1 DEF Compressing
  <1>10. QED
    BY <1>1, <1>5, <1>7, <1>8, <1>9, SameCount

\* remove_session finds the array not empty and takes one entry off, whichever it is.
LEMMA RemoveCount ==
  ASSUME CountInvariant, NEW c \in Conns, RemoveSession(c)
  PROVE  /\ Typed' /\ RemovesCompressed' /\ SizeCountsTransfers'
         /\ Len(requests) > 0 /\ Len(requests') = Len(requests) - 1
         /\ \A i \in 1..Len(requests)-1 : requests'[i] = requests[i]
  <1>1. /\ TypeOK /\ Typed /\ RemovesCompressed /\ SizeCountsTransfers
        /\ pc[c] = "remove"
    BY DEF CountInvariant, RemoveSession
  <1>2. Parts' = Parts /\ Entries' = Entries
    BY DEF Sent, Parts, Entries, RemoveSession, client
  <1>3. Mine(c) \in Entries
    BY <1>1, MineIsAnEntry
  <1>4. /\ UNCHANGED << script, open, stream, answers, message, payloads, kept, stolen >>
        /\ pc' = [pc EXCEPT ![c] = "read"] /\ lost' \in BOOLEAN
    BY <1>1 DEF RemoveSession, Goto, client, Typed
  <1>5. c \in Compressing
    BY <1>1 DEF Compressing, Transferring, RemovesCompressed
  <1>6. IsFiniteSet(Compressing) /\ Cardinality(Compressing) \in Nat
    BY ServerAssumption, FS_Subset, FS_CardinalityType DEF Compressing
  <1>7. Len(requests) = kept + Cardinality(Compressing)
    BY <1>1 DEF SizeCountsTransfers, Compressing
  <1>8. requests \in Seq(Entries) /\ Len(requests) \in Nat /\ kept \in Nat
    BY <1>1 DEF Typed
  <1>9. Len(requests) > 0
    <2>1. Cardinality(Compressing) # 0
      BY <1>5, <1>6, FS_EmptySet
    <2>2. QED
      BY <1>6, <1>7, <1>8, <2>1
  <1>10. /\ requests' \in Seq(Entries) /\ Len(requests') = Len(requests) - 1
         /\ \A i \in 1..Len(requests)-1 : requests'[i] = requests[i]
    <2>1. PICK s \in { requests, [requests EXCEPT ![Len(requests)] = Mine(c)] } :
            requests' = SubSeq(s, 1, Len(s) - 1)
      BY DEF RemoveSession, Remaining, Front
    <2>2. /\ s \in Seq(Entries) /\ Len(s) = Len(requests)
          /\ \A i \in 1..Len(requests)-1 : s[i] = requests[i]
      <3>1. CASE s = requests
        BY <1>8, <3>1
      <3>2. CASE s = [requests EXCEPT ![Len(requests)] = Mine(c)]
        <4>1. Len(requests) \in 1..Len(requests)
          BY <1>8, <1>9
        <4>2. s \in Seq(Entries) /\ Len(s) = Len(requests)
          BY <1>3, <1>8, <3>2, <4>1, ExceptSeq
        <4>3. \A i \in 1..Len(requests)-1 : s[i] = requests[i]
          BY <1>8, <3>2
        <4>4. QED
          BY <4>2, <4>3
      <3>3. QED
        BY <2>1, <3>1, <3>2
    <2>3. 1 \in 1..Len(s)+1 /\ Len(s) - 1 \in (1 - 1)..Len(s)
      BY <1>8, <1>9, <2>2
    <2>4. /\ requests' \in Seq(Entries) /\ Len(requests') = Len(s) - 1
          /\ \A i \in 1..Len(s)-1 : requests'[i] = s[i]
      BY <1>8, <1>9, <2>1, <2>2, <2>3
    <2>5. QED
      BY <2>2, <2>4
  <1>11. \A d \in Conns : pc'[d] = IF d = c THEN "read" ELSE pc[d]
    BY <1>1, <1>4 DEF TypeOK
  <1>12. Typed'
    BY <1>1, <1>2, <1>4, <1>10, <1>11 DEF Typed
  <1>13. RemovesCompressed'
    BY <1>1, <1>4, <1>11 DEF RemovesCompressed
  <1>14. Compressing' = Compressing \ {c}
    <2>1. \A d \in Conns : d \in Compressing' <=> d \in Compressing /\ d # c
      BY <1>1, <1>4, <1>11 DEF Compressing, Transferring
    <2>2. QED
      BY <2>1 DEF Compressing
  <1>15. Cardinality(Compressing') = Cardinality(Compressing) - 1
    BY <1>5, <1>6, <1>14, FS_RemoveElement
  <1>16. Len(requests') = kept' + Cardinality(Compressing')
    BY <1>4, <1>6, <1>7, <1>8, <1>10, <1>15
  <1>17. SizeCountsTransfers'
    BY <1>16 DEF SizeCountsTransfers, Compressing
  <1>18. QED
    BY <1>9, <1>10, <1>12, <1>13, <1>17

\* Every step keeps the invariant.
LEMMA NextCount == CountInvariant /\ [Next]_vars => CountInvariant'
  <1> SUFFICES ASSUME CountInvariant, [Next]_vars PROVE CountInvariant'
    OBVIOUS
  <1>1. CASE UNCHANGED vars
    <2>1. /\ UNCHANGED << script, open, stream, torn, answers, table, new_socket, source >>
          /\ UNCHANGED << message, payloads, requests, pc, killed, kept, lost, stolen >>
      BY <1>1 DEF vars, client, history
    <2>2. Parts' = Parts /\ Entries' = Entries /\ Compressing' = Compressing
      BY <2>1 DEF Sent, Parts, Entries, Compressing, Transferring
    <2>3. TypeOK' /\ NotYetAccepted' /\ RemovesCompressed'
      BY <2>1 DEF CountInvariant, TypeOK, NotYetAccepted, RemovesCompressed
    <2>4. Typed'
      BY <2>1, <2>2 DEF CountInvariant, Typed
    <2>5. QED
      BY <2>1, <2>2, <2>3, <2>4, SameCount DEF CountInvariant
  <1>2. ASSUME NEW c \in Conns, Accept(c) \/ CloseClient(c) \/ Thread(c)
        PROVE  CountInvariant'
    <2>1. TypeOK' /\ NotYetAccepted'
      BY <1>2, StepTypeOK DEF CountInvariant
    <2>2. Typed' /\ RemovesCompressed' /\ SizeCountsTransfers'
      BY <1>2, PlainCount, HeaderCount, PayloadCount, CheckCount, SendCount, RemoveCount
         DEF Thread
    <2>3. QED
      BY <2>1, <2>2 DEF CountInvariant
  <1>3. QED
    BY <1>1, <1>2 DEF Next, Quiet, Step

\* The shared array and the kernel's table stay sound for every thread, whatever the
\* clients send: sessions->size is the number of transfers it should be and never
\* negative, and a descriptor stands for one connection.
THEOREM SessionsCounted == Spec => []SessionsAreCounted
  <1>1. CountInvariant => SessionsAreCounted
    BY DEF CountInvariant, SessionsAreCounted
  <1>2. Spec => []CountInvariant
    BY InitCount, NextCount, PTL DEF Spec
  <1>3. QED
    BY <1>1, <1>2, PTL

-----------------------------------------------------------------------------
(* One transfer per session                                                *)

\* A step that starts no transfer, leaves the array alone and changes nothing of a
\* transfer that goes on keeps the transfers apart.
LEMMA TransfersUntouched ==
  ASSUME TransfersHaveEntries, OneTransferPerSession, lost' = lost, requests' = requests,
         \A d \in Conns : Transferring(d)' =>
           Transferring(d) /\ message'[d] = message[d] /\ payloads'[d] = payloads[d]
  PROVE  TransfersHaveEntries' /\ OneTransferPerSession'
  <1>1. \A d \in Conns : Transferring(d)' => Transferring(d) /\ Mine(d)' = Mine(d)
    BY DEF Mine
  <1>2. TransfersHaveEntries'
    BY <1>1 DEF TransfersHaveEntries
  <1>3. OneTransferPerSession'
    BY <1>1 DEF OneTransferPerSession
  <1>4. QED
    BY <1>2, <1>3

\* Reading a message happens outside the transfers, and each thread reads for itself.
LEMMA OtherSteps ==
  ASSUME TransferInvariant, NEW c \in Conns,
         Accept(c) \/ CloseClient(c) \/ Thread(c), ~CheckNew(c), ~RemoveSession(c)
  PROVE  TransfersHaveEntries' /\ OneTransferPerSession'
  <1>1. /\ TypeOK /\ Typed /\ TransfersHaveEntries /\ OneTransferPerSession
    BY DEF TransferInvariant, CountInvariant
  <1>2. lost' = lost /\ requests' = requests
    BY DEF Accept, CloseClient, Thread, CallRecv, ReceiveEnd, ReceiveInvalid,
           ReceiveShutdown, ReceiveList, ReceiveRequest, CallRecvPayload, PayloadNone,
           ServeNothing, ReceiveEcho, ReceiveSize, ReceiveRefused, ReceiveRetrieve, Crash,
           FreeData, CheckKnown, SendData, history
  <1>3. \A d \in Conns : Transferring(d)' =>
           Transferring(d) /\ message'[d] = message[d] /\ payloads'[d] = payloads[d]
    <2>1. CASE \/ Accept(c) \/ CloseClient(c) \/ CallRecv(c) \/ ReceiveEnd(c)
               \/ PayloadNone(c) \/ FreeData(c) \/ CheckKnown(c) \/ SendData(c)
      <3>1. UNCHANGED << message, payloads >>
        BY <2>1 DEF Accept, CloseClient, CallRecv, ReceiveEnd, PayloadNone, FreeData,
                    CheckKnown, SendData
      <3>2. \A d \in Conns : Transferring(d)' => Transferring(d)
        BY <1>1, <2>1 DEF Accept, CloseClient, CallRecv, ReceiveEnd, PayloadNone, FreeData,
                          CheckKnown, SendData, Goto, AfterFree, AfterEmpty, Transferring, TypeOK
      <3>3. QED
        BY <3>1, <3>2
    <2>2. CASE CallRecvPayload(c)
      BY <1>1, <2>2 DEF CallRecvPayload, Goto, Transferring, Reallocated, TypeOK, Typed
    <2>3. ASSUME payloads' = payloads, \A d \in Conns \ {c} : message'[d] = message[d],
                 pc' \in { [pc EXCEPT ![c] = p] : p \in {"read", "free", "payload", "body", "check"} }
          PROVE  \A d \in Conns : Transferring(d)' =>
                   Transferring(d) /\ message'[d] = message[d] /\ payloads'[d] = payloads[d]
      BY <1>1, <2>3 DEF Transferring, TypeOK
    <2>4. ASSUME NEW types, ReceiveHeader(c, types)
          PROVE  \A d \in Conns \ {c} : message'[d] = message[d]
      BY <1>1, <2>4, HeaderFacts DEF HeaderRead
    <2>5. ASSUME pc[c] = "body", PayloadWhole(c) \/ PayloadBroken(c)
          PROVE  \A d \in Conns \ {c} : message'[d] = message[d]
      BY <1>1, <2>5, PayloadFacts DEF PayloadRead
    <2>6. CASE \/ ReceiveInvalid(c) \/ ReceiveShutdown(c) \/ ReceiveList(c) \/ ReceiveRequest(c)
      BY <2>3, <2>4, <2>6
      DEF ReceiveInvalid, ReceiveShutdown, ReceiveList, ReceiveRequest, Goto
    <2>7. CASE \/ ServeNothing(c) \/ ReceiveEcho(c) \/ ReceiveSize(c) \/ ReceiveRefused(c)
               \/ ReceiveRetrieve(c)
      BY <2>3, <2>5, <2>7
      DEF ServeNothing, ReceiveEcho, ReceiveSize, ReceiveRefused, ReceiveRetrieve,
          ReceivePayload, Goto
    <2>8. CASE Crash(c)
      <3>1. pc' = [pc EXCEPT ![c] = "body"]
        BY <1>1, <2>8 DEF Crash, TypeOK
      <3>2. QED
        BY <2>3, <2>5, <2>8, <3>1 DEF Crash
    <2>9. QED
      BY <2>1, <2>2, <2>6, <2>7, <2>8 DEF Thread
  <1>4. QED
    BY <1>1, <1>2, <1>3, TransfersUntouched

\* A new transfer starts only when no entry has its session id, so none of the others
\* has it either.
LEMMA NewTransfer ==
  ASSUME TransferInvariant, NEW c \in Conns, CheckNew(c)
  PROVE  TransfersHaveEntries' /\ OneTransferPerSession'
  <1>1. /\ TypeOK /\ Typed /\ TransfersHaveEntries /\ OneTransferPerSession
        /\ pc[c] = "check"
    BY DEF TransferInvariant, CountInvariant, CheckNew
  <1>2. Mine(c) \in Entries /\ requests \in Seq(Entries)
    BY <1>1, MineIsAnEntry DEF Typed
  <1>3. /\ requests' = Append(requests, Mine(c)) /\ lost' = lost
        /\ UNCHANGED << message, payloads >> /\ pc' = [pc EXCEPT ![c] = "send"]
        /\ \A i \in DOMAIN requests : requests[i].id # Mine(c).id
    BY DEF CheckNew, Known, Goto
  <1>4. /\ Len(requests') = Len(requests) + 1 /\ Len(requests) \in Nat
        /\ \A i \in 1..Len(requests) : requests'[i] = requests[i]
        /\ requests'[Len(requests) + 1] = Mine(c)
        /\ DOMAIN requests = 1..Len(requests)
    <2> DEFINE mine == Mine(c)
    <2>1. mine \in Entries /\ requests' = Append(requests, mine)
      BY <1>2, <1>3
    <2> HIDE DEF mine
    <2>2. /\ Len(requests') = Len(requests) + 1 /\ Len(requests) \in Nat
          /\ \A i \in 1..Len(requests) : requests'[i] = requests[i]
          /\ requests'[Len(requests) + 1] = mine
          /\ DOMAIN requests = 1..Len(requests)
      BY <1>2, <2>1, AppendProperties
    <2>3. QED
      BY <2>2 DEF mine
  <1>5. \A d \in Conns : Mine(d)' = Mine(d)
    BY <1>3 DEF Mine
  <1>6. \A d \in Conns : Transferring(d)' <=> d = c \/ Transferring(d)
    BY <1>1, <1>3 DEF Transferring, TypeOK
  <1>7. SUFFICES ASSUME ~lost PROVE TransfersHaveEntries' /\ OneTransferPerSession'
    BY <1>3 DEF TransfersHaveEntries, OneTransferPerSession
  <1>8. \A d \in Conns : Transferring(d) =>
          \E i \in 1..Len(requests) : requests[i] = Mine(d)
    BY <1>1, <1>7 DEF TransfersHaveEntries
  <1>9. TransfersHaveEntries'
    <2>1. SUFFICES ASSUME NEW d \in Conns, Transferring(d)'
                   PROVE  \E i \in 1..Len(requests') : requests'[i] = Mine(d)
      BY <1>5 DEF TransfersHaveEntries
    <2>2. CASE d = c
      BY <1>4, <2>2
    <2>3. CASE d # c
      <3>1. PICK i \in 1..Len(requests) : requests[i] = Mine(d)
        BY <1>6, <1>8, <2>1, <2>3
      <3>2. i \in 1..Len(requests') /\ requests'[i] = Mine(d)
        BY <1>4, <3>1
      <3>3. QED
        BY <3>2
    <2>4. QED
      BY <2>2, <2>3
  <1>10. OneTransferPerSession'
    <2>1. \A d \in Conns : Transferring(d) => Mine(d).id # Mine(c).id
      BY <1>3, <1>4, <1>8
    <2>2. \A d, e \in Conns :
            Transferring(d) /\ Transferring(e) /\ Mine(d).id = Mine(e).id => d = e
      BY <1>1, <1>7 DEF OneTransferPerSession
    <2>3. QED
      BY <1>5, <1>6, <2>1, <2>2 DEF OneTransferPerSession
  <1>11. QED
    BY <1>9, <1>10

\* As long as a removal takes the thread's own entry off, the others keep theirs.
LEMMA TransferEnds ==
  ASSUME TransferInvariant, NEW c \in Conns, RemoveSession(c)
  PROVE  TransfersHaveEntries' /\ OneTransferPerSession'
  <1>1. /\ TypeOK /\ Typed /\ CountInvariant
        /\ TransfersHaveEntries /\ OneTransferPerSession
    BY DEF TransferInvariant, CountInvariant
  <1>2. /\ UNCHANGED << message, payloads >> /\ pc' = [pc EXCEPT ![c] = "read"]
        /\ lost' = (lost \/ Last(requests).name # Mine(c).name)
    BY DEF RemoveSession, Goto
  <1>3. /\ Len(requests) > 0 /\ Len(requests') = Len(requests) - 1
        /\ \A i \in 1..Len(requests)-1 : requests'[i] = requests[i]
    BY <1>1, RemoveCount
  <1>4. \A d \in Conns : Mine(d)' = Mine(d) /\ Mine(d).name = << d, payloads[d] >>
    BY <1>2 DEF Mine
  <1>5. \A d \in Conns : Transferring(d)' => d # c /\ Transferring(d)
    BY <1>1, <1>2 DEF Transferring, TypeOK
  <1>6. SUFFICES ASSUME ~lost' PROVE TransfersHaveEntries' /\ OneTransferPerSession'
    BY DEF TransfersHaveEntries, OneTransferPerSession
  <1>7. ~lost /\ requests[Len(requests)].name = Mine(c).name
    BY <1>2, <1>6 DEF Last
  <1>8. TransfersHaveEntries'
    <2>1. SUFFICES ASSUME NEW d \in Conns, Transferring(d)'
                   PROVE  \E i \in 1..Len(requests') : requests'[i] = Mine(d)
      BY <1>4 DEF TransfersHaveEntries
    <2>2. d # c /\ Transferring(d)
      BY <1>5, <2>1
    <2>3. PICK i \in 1..Len(requests) : requests[i] = Mine(d)
      BY <1>1, <1>7, <2>2 DEF TransfersHaveEntries
    <2>4. i # Len(requests)
      BY <1>4, <1>7, <2>2, <2>3
    <2>5. Len(requests) \in Nat
      BY <1>1 DEF Typed
    <2>6. i \in 1..Len(requests)-1
      BY <2>3, <2>4, <2>5
    <2>7. QED
      BY <1>3, <2>3, <2>6
  <1>9. OneTransferPerSession'
    BY <1>1, <1>4, <1>5, <1>7 DEF OneTransferPerSession
  <1>10. QED
    BY <1>8, <1>9

\* README: of several concurrent requests with the same session id "only one
\* connection can get the response", for any number of connections and sessions,
\* until a removal drops another transfer's entry.
THEOREM SessionsAreExclusive == Spec => []OneTransferPerSession
  <1>1. Init => TransferInvariant
    BY InitCount DEF Init, TransferInvariant, TransfersHaveEntries, OneTransferPerSession,
                     Transferring
  <1>2. TransferInvariant /\ [Next]_vars => TransferInvariant'
    <2> SUFFICES ASSUME TransferInvariant, [Next]_vars PROVE TransferInvariant'
      OBVIOUS
    <2>1. CountInvariant'
      BY NextCount DEF TransferInvariant
    <2>2. TransfersHaveEntries' /\ OneTransferPerSession'
      <3>1. CASE UNCHANGED vars
        <4>1. UNCHANGED << message, payloads, requests, pc, lost >>
          BY <3>1 DEF vars, history
        <4>2. QED
          BY <4>1, TransfersUntouched DEF TransferInvariant, Transferring
      <3>2. ASSUME NEW c \in Conns, Accept(c) \/ CloseClient(c) \/ Thread(c)
            PROVE  TransfersHaveEntries' /\ OneTransferPerSession'
        BY <3>2, OtherSteps, NewTransfer, TransferEnds
      <3>3. QED
        BY <3>1, <3>2 DEF Next, Quiet, Step
    <2>3. QED
      BY <2>1, <2>2 DEF TransferInvariant
  <1>3. TransferInvariant => OneTransferPerSession
    BY DEF TransferInvariant
  <1>4. QED
    BY <1>1, <1>2, <1>3, PTL DEF Spec

-----------------------------------------------------------------------------
(* The answers                                                             *)

\* Nobody changes what the clients send, and a torn connection stays torn.
LEMMA ScriptKept ==
  ASSUME TypeOK, Typed, NEW c \in Conns, Accept(c) \/ CloseClient(c) \/ Thread(c)
  PROVE  script' = script /\ torn \subseteq torn'
  <1>1. script' = script
    BY DEF Accept, CloseClient, Thread, CallRecv, ReceiveEnd, ReceiveInvalid,
           ReceiveShutdown, ReceiveList, ReceiveRequest, CallRecvPayload, PayloadNone,
           ServeNothing, ReceiveEcho, ReceiveSize, ReceiveRefused, ReceiveRetrieve, Crash,
           FreeData, CheckKnown, CheckNew, SendData, RemoveSession, client
  <1>2. ASSUME NEW types, ReceiveHeader(c, types) PROVE torn \subseteq torn'
    BY <1>2, HeaderFacts DEF HeaderRead
  <1>3. ASSUME pc[c] = "body", PayloadWhole(c) \/ PayloadBroken(c) PROVE torn \subseteq torn'
    BY <1>3, PayloadFacts DEF PayloadRead
  <1>4. \/ torn' = torn \/ \E types : ReceiveHeader(c, types)
        \/ pc[c] = "body" /\ (PayloadWhole(c) \/ PayloadBroken(c))
    BY DEF Accept, CloseClient, Thread, CallRecv, ReceiveEnd, ReceiveInvalid,
           ReceiveShutdown, ReceiveList, ReceiveRequest, CallRecvPayload, PayloadNone,
           ServeNothing, ReceiveEcho, ReceiveSize, ReceiveRefused, ReceiveRetrieve, Crash,
           FreeData, CheckKnown, CheckNew, SendData, RemoveSession, ReceivePayload
  <1>5. QED
    BY <1>1, <1>2, <1>3, <1>4

\* A thread that closes a descriptor takes it from nobody who still has it, unless a
\* connection is stolen; undisturbed, none is.
LEMMA CloseKeepsOwn ==
  ASSUME AnswerInvariant, NEW c \in Conns, Close(c),
         UNCHANGED << script, new_socket, source >>, torn \subseteq torn',
         pc[c] \in {"recv", "free"},
         NEW p \in {"free", "ended"}, pc' = [pc EXCEPT ![c] = p],
         p = "free" => Disturbed',
         p = "ended" => pc[c] = "free"
  PROVE  DescriptorsAreOwn' /\ (stolen' => Disturbed')
  <1>1. TypeOK /\ DescriptorsAreOwn
    BY DEF AnswerInvariant, CountInvariant
  <1>2. /\ table' = [table EXCEPT ![new_socket[c]] = NoConn]
        /\ stolen' = (stolen \/ table[new_socket[c]] \notin {c, NoConn})
    BY DEF Close
  <1>3. Disturbed => Disturbed'
    BY DEF Disturbed, SomeShutdown
  <1>4. \A d \in Conns : pc'[d] = IF d = c THEN p ELSE pc[d]
    BY <1>1 DEF TypeOK
  <1>5. ASSUME ~Disturbed' PROVE table[new_socket[c]] = c /\ (stolen' => stolen)
    <2>1. table[new_socket[c]] = c
      BY <1>1, <1>3, <1>5 DEF DescriptorsAreOwn, Active
    <2>2. QED
      BY <1>2, <2>1
  <1>6. ASSUME NEW d \in Conns, d # c, table[new_socket[d]] = d,
               table[new_socket[c]] \in {c, NoConn}
        PROVE  table'[new_socket[d]] = d
    BY <1>1, <1>2, <1>6, ServerAssumption DEF TypeOK
  <1>7. \A d \in Conns : ~stolen' /\ Active(d)' => table'[new_socket[d]] = d
    BY <1>1, <1>2, <1>4, <1>6 DEF DescriptorsAreOwn, Active
  <1>8. \A d \in Conns : ~stolen' /\ pc'[d] \in {"recv", "body"} => source[d] = d
    BY <1>1, <1>2, <1>4 DEF DescriptorsAreOwn
  <1>9. \A d \in Conns :
          ~Disturbed' /\ (Active(d)' \/ pc'[d] = "free") => table'[new_socket[d]] = d
    BY <1>1, <1>3, <1>4, <1>5, <1>6 DEF DescriptorsAreOwn, Active
  <1>10. DescriptorsAreOwn'
    BY <1>7, <1>8, <1>9 DEF DescriptorsAreOwn
  <1>11. QED
    BY <1>2, <1>3, <1>5, <1>10 DEF AnswerInvariant

\* A shutdown message has been sent, or comes from bytes out of step.
LEMMA ShutdownDisturbs ==
  ASSUME TypeOK, Typed, NEW c \in Conns, ReceiveHeader(c, {"shutdown"}), script' = script
  PROVE  Disturbed'
  <1>1. CASE HeaderWhole(c)
    <2>1. PICK p \in Conns : p = source[c]
      BY DEF ReceiveHeader, TypeOK
    <2>2. stream[p] \in Seq(Parts) /\ stream[p] # << >>
      BY <2>1 DEF ReceiveHeader, Typed
    <2>3. Head(stream[p]) \in Parts
      <3> HIDE DEF Parts
      <3> QED BY <2>2, HeadTailProperties
    <2>4. message' = [message EXCEPT ![c] = [n |-> Head(stream[p]).n, m |-> Head(stream[p]).m]]
      BY <1>1, <2>1 DEF HeaderWhole
    <2>5. message'[c].m = Head(stream[p]).m
      BY <2>4 DEF Typed
    <2>6. message'[c].m \in Sent /\ message'[c].m.type = "shutdown"
      BY <2>3, <2>5 DEF Parts, ReceiveHeader
    <2>7. QED
      BY <2>6 DEF Sent, Range, SomeShutdown, Disturbed
  <1>2. CASE HeaderBroken(c)
    BY <1>2 DEF HeaderBroken, Disturbed
  <1>3. QED
    BY <1>1, <1>2 DEF ReceiveHeader

\* Every step leaves the served connections behind their threads' descriptors.
LEMMA StepKeepsOwn ==
  ASSUME AnswerInvariant, NEW c \in Conns, Accept(c) \/ CloseClient(c) \/ Thread(c)
  PROVE  DescriptorsAreOwn' /\ (stolen' => Disturbed')
  <1>1. TypeOK /\ Typed /\ DescriptorsAreOwn /\ (stolen => Disturbed)
    BY DEF AnswerInvariant, CountInvariant
  <1>2. script' = script /\ torn \subseteq torn'
    BY <1>1, ScriptKept
  <1>3. Disturbed => Disturbed'
    BY <1>2 DEF Disturbed, SomeShutdown
  <1>4. CASE ReceiveShutdown(c)
    <2>1. ReceiveHeader(c, {"shutdown"}) /\ pc[c] = "recv"
      BY <1>4 DEF ReceiveShutdown, ReceiveHeader
    <2>2. Disturbed'
      BY <1>1, <1>2, <2>1, ShutdownDisturbs
    <2>3. QED
      BY <1>2, <1>4, <2>1, <2>2, CloseKeepsOwn DEF ReceiveShutdown, Goto
  <1>5. CASE FreeData(c)
    BY <1>2, <1>5, CloseKeepsOwn DEF FreeData, Goto, AfterFree
  <1>6. CASE Accept(c)
    <2>1. FreeDescriptor \in Descriptors /\ table[FreeDescriptor] = NoConn
      BY <1>6, FreeDescriptorIsFree DEF Accept
    <2>2. /\ table' = [table EXCEPT ![FreeDescriptor] = c] /\ pc[c] = "none"
          /\ new_socket' = [new_socket EXCEPT ![c] = FreeDescriptor]
          /\ pc' = [pc EXCEPT ![c] = "read"]
          /\ UNCHANGED << source, stolen >>
      BY <1>6 DEF Accept, history
    <2> HIDE DEF FreeDescriptor
    <2>3. /\ table'[new_socket'[c]] = c /\ pc'[c] = "read"
          /\ \A d \in Conns \ {c} : pc'[d] = pc[d] /\ new_socket'[d] = new_socket[d]
      BY <1>1, <2>1, <2>2 DEF TypeOK
    <2>4. \A d \in Conns \ {c} : table[new_socket[d]] = d => table'[new_socket'[d]] = d
      BY <1>1, <2>1, <2>2, <2>3, ServerAssumption DEF TypeOK
    <2>5. QED
      BY <1>1, <1>3, <2>2, <2>3, <2>4 DEF DescriptorsAreOwn, Active
  <1>7. CASE CallRecv(c) \/ CallRecvPayload(c)
    <2>1. /\ UNCHANGED << table, new_socket, stolen >> /\ pc[c] \in {"read", "payload"}
          /\ source' = [source EXCEPT ![c] = table[new_socket[c]]]
          /\ pc' \in { [pc EXCEPT ![c] = p] : p \in {"recv", "body"} }
      BY <1>7 DEF CallRecv, CallRecvPayload, Goto, history
    <2>2. QED
      BY <1>1, <1>3, <2>1 DEF DescriptorsAreOwn, Active, TypeOK
  <1>8. ASSUME UNCHANGED << table, new_socket, source, stolen >>,
               \A d \in Conns : /\ pc'[d] \in {"recv", "body"} => pc'[d] = pc[d]
                                /\ Active(d)' => Active(d)
                                /\ pc'[d] = "free" => Active(d) \/ pc[d] = "free"
        PROVE  DescriptorsAreOwn' /\ (stolen' => Disturbed')
    BY <1>1, <1>3, <1>8 DEF DescriptorsAreOwn
  <1>9. CASE \/ CloseClient(c) \/ ReceiveEnd(c) \/ ReceiveInvalid(c) \/ ReceiveList(c)
             \/ ReceiveRequest(c) \/ PayloadNone(c) \/ ServeNothing(c) \/ ReceiveEcho(c)
             \/ ReceiveSize(c) \/ ReceiveRefused(c) \/ ReceiveRetrieve(c) \/ Crash(c)
             \/ CheckKnown(c) \/ CheckNew(c) \/ SendData(c) \/ RemoveSession(c)
    <2>1. UNCHANGED << table, new_socket, source, stolen >>
      BY <1>9 DEF CloseClient, ReceiveEnd, ReceiveInvalid, ReceiveList, ReceiveRequest,
                  PayloadNone, ServeNothing, ReceiveEcho, ReceiveSize, ReceiveRefused,
                  ReceiveRetrieve, Crash, CheckKnown, CheckNew, SendData, RemoveSession,
                  history, AfterError
    <2>2. \/ pc' = pc
          \/ /\ pc[c] \in {"recv", "body", "check", "send", "remove"}
             /\ \E p \in {"read", "free", "payload", "check", "send", "remove"} :
                  pc' = [pc EXCEPT ![c] = p]
      BY <1>9 DEF CloseClient, ReceiveEnd, ReceiveInvalid, ReceiveList, ReceiveRequest,
                  PayloadNone, ServeNothing, ReceiveEcho, ReceiveSize, ReceiveRefused,
                  ReceiveRetrieve, Crash, CheckKnown, CheckNew, SendData, RemoveSession,
                  ReceiveHeader, ReceivePayload, AfterEmpty, Goto
    <2>3. QED
      BY <1>1, <1>8, <2>1, <2>2 DEF Active, TypeOK
  <1>10. QED
    BY <1>4, <1>5, <1>6, <1>7, <1>9 DEF Thread

\* A thread reads its own connection, and its answers go there.
LEMMA OnlyOwn ==
  ASSUME AnswerInvariant, ~stolen, NEW c \in Conns, Accept(c) \/ CloseClient(c) \/ Thread(c)
  PROVE  \A d \in Conns \ {c} :
           /\ pc'[d] = pc[d] /\ message'[d] = message[d] /\ stream'[d] = stream[d]
           /\ answers'[d] = answers[d] /\ open'[d] = open[d]
  <1>1. TypeOK /\ Typed /\ DescriptorsAreOwn
    BY DEF AnswerInvariant, CountInvariant
  <1>2. pc[c] \in {"recv", "body"} => source[c] = c
    BY <1>1 DEF DescriptorsAreOwn
  <1>3. Active(c) => table[new_socket[c]] = c
    BY <1>1 DEF DescriptorsAreOwn
  <1>4. \E p : pc' = [pc EXCEPT ![c] = p]
    <2>1. CASE CloseClient(c) \/ Crash(c)
      <3>1. pc' = [pc EXCEPT ![c] = pc[c]]
        BY <1>1, <2>1 DEF CloseClient, Crash, TypeOK
      <3>2. QED
        BY <3>1
    <2>2. CASE ~(CloseClient(c) \/ Crash(c))
      BY <2>2 DEF Accept, Thread, CallRecv, ReceiveEnd, ReceiveInvalid, ReceiveShutdown,
                  ReceiveList, ReceiveRequest, CallRecvPayload, PayloadNone, ServeNothing,
                  ReceiveEcho, ReceiveSize, ReceiveRefused, ReceiveRetrieve, FreeData,
                  CheckKnown, CheckNew, SendData, RemoveSession, Goto
    <2>3. QED
      BY <2>1, <2>2
  <1>5. \A d \in Conns \ {c} : pc'[d] = pc[d]
    BY <1>1, <1>4 DEF TypeOK
  <1>6. \/ message' = message /\ (stream' = stream \/ Accept(c))
        \/ \E types : ReceiveHeader(c, types)
        \/ pc[c] = "body" /\ (PayloadWhole(c) \/ PayloadBroken(c))
    BY DEF Accept, CloseClient, Thread, CallRecv, ReceiveEnd, ReceiveInvalid,
           ReceiveShutdown, ReceiveList, ReceiveRequest, CallRecvPayload, PayloadNone,
           ServeNothing, ReceiveEcho, ReceiveSize, ReceiveRefused, ReceiveRetrieve, Crash,
           FreeData, CheckKnown, CheckNew, SendData, RemoveSession, ReceivePayload
  <1>7. \A d \in Conns \ {c} : message'[d] = message[d]
    <2>1. ASSUME NEW types, ReceiveHeader(c, types)
          PROVE  \A d \in Conns \ {c} : message'[d] = message[d]
      BY <1>1, <2>1, HeaderFacts DEF HeaderRead
    <2>2. ASSUME pc[c] = "body", PayloadWhole(c) \/ PayloadBroken(c)
          PROVE  \A d \in Conns \ {c} : message'[d] = message[d]
      BY <1>1, <2>2, PayloadFacts DEF PayloadRead
    <2>3. QED
      BY <1>6, <2>1, <2>2
  <1>8. \A d \in Conns \ {c} : stream'[d] = stream[d]
    <2>1. ASSUME NEW types, ReceiveHeader(c, types)
          PROVE  \E s : stream' = [stream EXCEPT ![c] = s]
      BY <1>2, <2>1 DEF ReceiveHeader, HeaderWhole, HeaderBroken, LeftOut
    <2>2. ASSUME pc[c] = "body", PayloadWhole(c) \/ PayloadBroken(c)
          PROVE  stream' = stream \/ \E s : stream' = [stream EXCEPT ![c] = s]
      BY <1>2, <2>2 DEF PayloadWhole, PayloadBroken, LeftOut
    <2>3. stream' = stream \/ \E s : stream' = [stream EXCEPT ![c] = s]
      BY <1>6, <2>1, <2>2 DEF Accept
    <2>4. QED
      BY <1>1, <2>3 DEF Typed
  <1>9. \A d \in Conns \ {c} : answers'[d] = answers[d]
    <2>1. ASSUME NEW n, NEW kind, Active(c), Answer(c, n, kind)
          PROVE  \A d \in Conns \ {c} : answers'[d] = answers[d]
      <3>1. answers' = answers \/ answers' = [answers EXCEPT ![c] = Append(@, << c, n, kind >>)]
        BY <1>3, <2>1 DEF Answer
      <3>2. QED
        BY <1>1, <3>1 DEF Typed
    <2>2. answers' = answers \/ \E n, kind : Active(c) /\ Answer(c, n, kind)
      BY DEF Accept, CloseClient, Thread, CallRecv, ReceiveEnd, ReceiveInvalid,
             ReceiveShutdown, ReceiveList, ReceiveRequest, CallRecvPayload, PayloadNone,
             ServeNothing, ReceiveEcho, ReceiveSize, ReceiveRefused, ReceiveRetrieve, Crash,
             FreeData, CheckKnown, CheckNew, SendData, RemoveSession, ReceiveHeader,
             ReceivePayload, Active
    <2>3. QED
      BY <2>1, <2>2
  <1>10. \A d \in Conns \ {c} : open'[d] = open[d]
    <2>1. open' \in {open, [open EXCEPT ![c] = TRUE], [open EXCEPT ![c] = FALSE]}
      BY DEF Accept, CloseClient, Thread, CallRecv, ReceiveEnd, ReceiveInvalid,
             ReceiveShutdown, ReceiveList, ReceiveRequest, CallRecvPayload, PayloadNone,
             ServeNothing, ReceiveEcho, ReceiveSize, ReceiveRefused, ReceiveRetrieve, Crash,
             FreeData, CheckKnown, CheckNew, SendData, RemoveSession, client
    <2>2. QED
      BY <1>1, <2>1 DEF Typed
  <1>11. QED
    BY <1>5, <1>7, <1>8, <1>9, <1>10

\* A torn connection only widens what may be answered.
LEMMA ExpectedGrows ==
  ASSUME script' = script, torn \subseteq torn', NEW d \in Conns, NEW i,
         script[d][i].type \in {"echo", "list", "size", "retrieve", "shutdown", "other"}
  PROVE  Expected(d, i) \subseteq Expected(d, i)'
  <1>1. Refusals(d, i) \subseteq Refusals(d, i)'
    BY DEF Refusals
  <1>2. CASE script[d][i].type = "retrieve" /\ script[d][i].exists
    BY <1>1, <1>2 DEF Expected
  <1>3. CASE script[d][i].type = "retrieve" /\ ~script[d][i].exists
    BY <1>3 DEF Expected
  <1>4. CASE script[d][i].type # "retrieve"
    BY <1>4 DEF Expected
  <1>5. QED
    BY <1>2, <1>3, <1>4

\* The types of the messages a client sends
LEMMA ScriptTyped ==
  ASSUME Typed, NEW d \in Conns
  PROVE  /\ script[d] \in Seq(Messages) /\ Len(script[d]) \in Nat
         /\ \A i \in 1..Len(script[d]) :
              /\ script[d][i] \in Messages
              /\ script[d][i].type \in {"echo", "list", "size", "retrieve", "shutdown", "other"}
  <1>1. script[d] \in Seq(Messages)
    BY ServerAssumption DEF Typed
  <1> HIDE DEF Messages
  <1>2. Len(script[d]) \in Nat /\ \A i \in 1..Len(script[d]) : script[d][i] \in Messages
    BY <1>1
  <1>3. QED
    BY <1>1, <1>2, ServerAssumption

\* What has been answered stays an answer that was to be expected.
LEMMA InOrderKept ==
  ASSUME Typed, NEW d \in Conns, InOrder(d), script' = script, torn \subseteq torn',
         answers'[d] = answers[d]
  PROVE  InOrder(d)'
  <1>1. SUFFICES ASSUME NEW i \in DOMAIN answers[d]
                 PROVE  answers[d][i][3] \in Expected(d, i)'
    BY DEF InOrder
  <1>2. i \in DOMAIN script[d] /\ answers[d][i][3] \in Expected(d, i)
    BY DEF InOrder
  <1>3. i \in 1..Len(script[d])
    BY <1>2, ScriptTyped
  <1>4. Expected(d, i) \subseteq Expected(d, i)'
    BY <1>3, ScriptTyped, ExpectedGrows
  <1>5. QED
    BY <1>2, <1>4

\* A connection of which the step changes nothing
LEMMA LocalKept ==
  ASSUME Typed, NEW d \in Conns, Local(d), script' = script, torn \subseteq torn',
         pc'[d] = pc[d], message'[d] = message[d], stream'[d] = stream[d],
         answers'[d] = answers[d], open'[d] = open[d]
  PROVE  Local(d)'
  <1>1. RestIsLeft(d) => RestIsLeft(d)'
    BY DEF RestIsLeft, Taken, AtPayload, PartOf, HasPayload
  <1>2. ScriptIsServed(d)'
    BY <1>1 DEF Local, ScriptIsServed, Served, Active
  <1>3. InOrder(d)'
    BY InOrderKept DEF Local
  <1>4. QED
    BY <1>2, <1>3 DEF Local

\* A thread that has not lost its place has got the next header of its own script.
NextHeader(c) ==
  /\ HeaderWhole(c) /\ torn' = torn /\ table[new_socket[c]] = c
  /\ message'[c].n = message[c].n + 1 /\ message'[c].n \in 1..Len(script[c])
  /\ message'[c].m = script[c][message'[c].n]
  /\ open[c] => Len(answers[c]) = message'[c].n - 1
  /\ pc'[c] = "payload" => RestIsLeft(c)'

LEMMA HeaderIsNext ==
  ASSUME AnswerInvariant, ~stolen, NEW c \in Conns, NEW types, ReceiveHeader(c, types),
         c \notin torn', script' = script
  PROVE  NextHeader(c)
  <1>1. TypeOK /\ Typed /\ DescriptorsAreOwn
    BY DEF AnswerInvariant, CountInvariant
  <1>2. pc[c] = "recv" /\ source[c] = c /\ stream[c] # << >> /\ table[new_socket[c]] = c
    BY <1>1 DEF ReceiveHeader, DescriptorsAreOwn, Active
  <1>3. HeaderWhole(c) /\ torn' = torn /\ c \notin torn
    BY <1>2 DEF ReceiveHeader, HeaderWhole, HeaderBroken
  <1>4. ScriptIsServed(c)
    BY <1>3 DEF AnswerInvariant, Local
  <1>5. PICK n \in Nat : n = message[c].n
    BY <1>1 DEF Typed, Received
  <1>6. PICK s \in Seq(Parts) : s = stream[c]
    BY <1>1 DEF Typed
  <1>7. Taken(c) = n /\ Served(c) = n
    BY <1>2, <1>5 DEF Taken, AtPayload, Served
  <1>8. RestIsLeft(c) /\ (open[c] => Len(answers[c]) = n)
    BY <1>2, <1>4, <1>7 DEF ScriptIsServed, Active
  <1>9. /\ n + Len(s) = Len(script[c])
        /\ \A j \in 1..Len(s) : s[j] = PartOf(c, n + j)
    BY <1>6, <1>7, <1>8 DEF RestIsLeft
  <1>10. s # << >> /\ Len(s) \in Nat /\ Len(script[c]) \in Nat
    BY <1>1, <1>2, <1>6, ScriptTyped
  <1>11. Len(s) > 0
    BY <1>6, <1>10
  <1>12. /\ Head(s) = s[1] /\ Tail(s) \in Seq(Parts) /\ Len(Tail(s)) = Len(s) - 1
         /\ \A j \in 1..Len(s)-1 : Tail(s)[j] = s[j+1]
    <2> HIDE DEF Parts
    <2> QED BY <1>6, <1>10, <1>11, HeadTailProperties
  <1>13. Head(s) = PartOf(c, n + 1)
    BY <1>9, <1>10, <1>11, <1>12
  <1>14. /\ Head(s).n = n + 1 /\ Head(s).m = script[c][n + 1] /\ Head(s).rest = "all"
    BY <1>5, <1>13 DEF PartOf
  <1>15. message' = [message EXCEPT ![c] = [n |-> Head(s).n, m |-> Head(s).m]]
    BY <1>2, <1>3, <1>6 DEF HeaderWhole
  <1>16. message'[c].n = n + 1 /\ message'[c].m = script[c][n + 1]
    BY <1>1, <1>14, <1>15 DEF Typed
  <1>17. n + 1 \in 1..Len(script[c])
    BY <1>9, <1>10, <1>11
  <1>18. ASSUME pc'[c] = "payload" PROVE RestIsLeft(c)'
    <2>1. CASE HasPayload(script[c][n + 1])
      <3>1. PICK x : x = [Head(s) EXCEPT !.rest = "payload"]
        OBVIOUS
      <3>2. stream'[c] = << x >> \o Tail(s)
        BY <1>1, <1>2, <1>3, <1>6, <1>14, <2>1, <3>1 DEF HeaderWhole, Typed
      <3>3. x = [n |-> n + 1, m |-> script[c][n + 1], rest |-> "payload"]
        BY <1>13, <3>1 DEF PartOf
      <3>4. x \in Parts
        <4>1. s[1] \in Parts
          BY <1>6, <1>11
        <4>2. QED
          BY <1>12, <3>1, <4>1 DEF Parts
      <3>5. PICK t : t = << x >> \o Tail(s)
        OBVIOUS
      <3>6. /\ Len(t) = Len(s) /\ t[1] = x
            /\ \A j \in 2..Len(s) : t[j] = s[j]
        <4> HIDE DEF Parts
        <4>1. << x >> \in Seq(Parts) /\ Len(<< x >>) = 1 /\ << x >>[1] = x
          BY <3>4
        <4>2. /\ Len(t) = 1 + (Len(s) - 1)
              /\ \A i \in 1..1 + (Len(s) - 1) :
                   t[i] = IF i <= 1 THEN << x >>[i] ELSE Tail(s)[i - 1]
          BY <1>12, <3>5, <4>1, ConcatProperties
        <4>3. \A j \in 2..Len(s) : t[j] = Tail(s)[j - 1] /\ j - 1 \in 1..Len(s)-1
          BY <1>10, <4>2
        <4>4. \A j \in 2..Len(s) : t[j] = s[j]
          BY <1>10, <1>12, <4>3
        <4>5. QED
          BY <1>10, <1>11, <4>1, <4>2, <4>4
      <3>7. Taken(c)' = n
        BY <1>5, <1>16, <1>18, <2>1 DEF Taken, AtPayload
      <3>8. t[1] = PartOf(c, n + 1)'
        BY <1>16, <3>3, <3>6 DEF PartOf
      <3>9. \A j \in 2..Len(s) : t[j] = PartOf(c, n + j)'
        <4>1. SUFFICES ASSUME NEW j \in 2..Len(s) PROVE t[j] = PartOf(c, n + j)'
          OBVIOUS
        <4>2. t[j] = PartOf(c, n + j)
          BY <1>9, <3>6
        <4>3. n + j # message[c].n /\ n + j # message'[c].n
          BY <1>5, <1>16
        <4>4. QED
          BY <4>2, <4>3 DEF PartOf
      <3>10. \A j \in 1..Len(t) : t[j] = PartOf(c, n + j)'
        <4>1. \A j \in 1..Len(t) : j = 1 \/ j \in 2..Len(s)
          BY <1>10, <3>6
        <4>2. QED
          BY <3>8, <3>9, <4>1
      <3>11. QED
        BY <1>9, <3>2, <3>5, <3>6, <3>7, <3>10 DEF RestIsLeft
    <2>2. CASE ~HasPayload(script[c][n + 1])
      <3>1. stream'[c] = Tail(s)
        BY <1>1, <1>2, <1>3, <1>6, <1>14, <2>2 DEF HeaderWhole, Typed
      <3>2. Taken(c)' = n + 1
        BY <1>5, <1>16, <1>18, <2>2 DEF Taken, AtPayload
      <3>3. \A j \in 1..Len(Tail(s)) : Tail(s)[j] = PartOf(c, n + 1 + j)'
        <4>1. SUFFICES ASSUME NEW j \in 1..Len(Tail(s))
                       PROVE  Tail(s)[j] = PartOf(c, n + 1 + j)'
          OBVIOUS
        <4>2. j \in 1..Len(s)-1 /\ j + 1 \in 1..Len(s) /\ n + (j + 1) = n + 1 + j
          BY <1>10, <1>12
        <4>3. Tail(s)[j] = PartOf(c, n + 1 + j)
          BY <1>9, <1>12, <4>2
        <4>4. n + 1 + j # message[c].n /\ n + 1 + j # message'[c].n
          BY <1>5, <1>16, <4>2
        <4>5. QED
          BY <4>3, <4>4 DEF PartOf
      <3>4. n + 1 + Len(Tail(s)) = Len(script[c])
        BY <1>9, <1>10, <1>12
      <3>5. QED
        BY <3>1, <3>2, <3>3, <3>4 DEF RestIsLeft
    <2>3. QED
      BY <2>1, <2>2
  <1>19. QED
    BY <1>2, <1>3, <1>5, <1>8, <1>16, <1>17, <1>18 DEF NextHeader

\* ... and has then got the payload of that message.
NextPayload(c) ==
  /\ torn' = torn /\ message' = message /\ table[new_socket[c]] = c
  /\ message[c].n \in 1..Len(script[c]) /\ message[c].m = script[c][message[c].n]
  /\ open[c] => Len(answers[c]) = Served(c)
  /\ pc'[c] \in {"read", "check"} => RestIsLeft(c)'

LEMMA PayloadIsNext ==
  ASSUME AnswerInvariant, ~stolen, NEW c \in Conns, pc[c] = "body",
         PayloadWhole(c) \/ PayloadBroken(c), c \notin torn', script' = script
  PROVE  NextPayload(c)
  <1>1. TypeOK /\ Typed /\ DescriptorsAreOwn
    BY DEF AnswerInvariant, CountInvariant
  <1>2. source[c] = c /\ table[new_socket[c]] = c
    BY <1>1 DEF DescriptorsAreOwn, Active
  <1>3. PayloadWhole(c) /\ torn' = torn /\ c \notin torn /\ message' = message
    BY <1>2, ServerAssumption DEF PayloadWhole, PayloadBroken
  <1>4. ScriptIsServed(c)
    BY <1>3 DEF AnswerInvariant, Local
  <1>5. PICK n \in Nat : n = message[c].n
    BY <1>1 DEF Typed, Received
  <1>6. PICK s \in Seq(Parts) : s = stream[c]
    BY <1>1 DEF Typed
  <1>7. RestIsLeft(c) /\ (open[c] => Len(answers[c]) = Served(c))
        /\ n \in 1..Len(script[c]) /\ message[c].m = script[c][n]
    BY <1>4, <1>5 DEF ScriptIsServed, Active
  <1>8. /\ s # << >> /\ Head(s) = PayloadOf(c)
        /\ stream' = [stream EXCEPT ![c] = Tail(s)]
    BY <1>2, <1>3, <1>6 DEF PayloadWhole
  <1>9. Len(s) \in Nat /\ Len(s) > 0 /\ Len(script[c]) \in Nat
    BY <1>1, <1>6, <1>8, ScriptTyped
  <1>10. /\ Head(s) = s[1] /\ Len(Tail(s)) = Len(s) - 1
         /\ \A j \in 1..Len(s)-1 : Tail(s)[j] = s[j+1]
    <2> HIDE DEF Parts
    <2> QED BY <1>6, <1>8, <1>9, HeadTailProperties
  <1>11. HasPayload(message[c].m) /\ Taken(c) = n - 1
    <2>1. ASSUME Taken(c) = n PROVE FALSE
      <3>1. s[1] = PartOf(c, n + 1)
        BY <1>6, <1>7, <1>9, <2>1 DEF RestIsLeft
      <3>2. s[1].rest = "all"
        BY <1>5, <3>1 DEF PartOf
      <3>3. QED
        BY <1>8, <1>10, <3>2 DEF PayloadOf
    <2>2. ~HasPayload(message[c].m) => Taken(c) = n
      BY <1>5 DEF Taken, AtPayload
    <2>3. HasPayload(message[c].m) => Taken(c) = n - 1
      BY <1>5 DEF Taken, AtPayload
    <2>4. QED
      BY <2>1, <2>2, <2>3
  <1>12. ASSUME pc'[c] \in {"read", "check"} PROVE RestIsLeft(c)'
    <2>1. stream'[c] = Tail(s)
      BY <1>1, <1>8 DEF Typed
    <2>2. Taken(c)' = n
      BY <1>3, <1>5, <1>12 DEF Taken, AtPayload
    <2>3. n - 1 + Len(s) = Len(script[c]) /\ \A j \in 1..Len(s) : s[j] = PartOf(c, n - 1 + j)
      BY <1>6, <1>7, <1>11 DEF RestIsLeft
    <2>4. \A j \in 1..Len(Tail(s)) : Tail(s)[j] = PartOf(c, n + j)'
      <3>1. SUFFICES ASSUME NEW j \in 1..Len(Tail(s)) PROVE Tail(s)[j] = PartOf(c, n + j)'
        OBVIOUS
      <3>2. j \in 1..Len(s)-1 /\ j + 1 \in 1..Len(s) /\ n - 1 + (j + 1) = n + j
        BY <1>9, <1>10
      <3>3. Tail(s)[j] = PartOf(c, n + j)
        BY <1>10, <2>3, <3>2
      <3>4. QED
        BY <1>3, <3>3 DEF PartOf
    <2>5. n + (Len(s) - 1) = n - 1 + Len(s)
      BY <1>9
    <2>6. n + Len(Tail(s)) = Len(script[c])
      BY <1>10, <2>3, <2>5
    <2>7. QED
      BY <2>1, <2>2, <2>4, <2>6 DEF RestIsLeft
  <1>13. QED
    BY <1>2, <1>3, <1>5, <1>7, <1>12 DEF NextPayload

\* An answer that was to be expected, to a client that may have gone.
LEMMA AnswerIsNext ==
  ASSUME TypeOK, Typed, NEW c \in Conns, InOrder(c), table[new_socket[c]] = c,
         script' = script, torn' = torn, open' = open,
         NEW n \in 1..Len(script[c]), NEW kind \in Kinds \cap Expected(c, n),
         open[c] => Len(answers[c]) = n - 1,
         Answer(c, n, kind)
  PROVE  InOrder(c)' /\ (open'[c] => Len(answers'[c]) = n)
  <1>1. c # NoConn
    BY ServerAssumption
  <1>2. CASE ~open[c]
    <2>1. answers' = answers
      BY <1>1, <1>2 DEF Answer
    <2>2. QED
      BY <1>2, <2>1, InOrderKept
  <1>3. CASE open[c]
    <2>1. answers' = [answers EXCEPT ![c] = Append(answers[c], << c, n, kind >>)]
      BY <1>1, <1>3 DEF Answer
    <2>2. answers'[c] = Append(answers[c], << c, n, kind >>)
      BY <2>1 DEF Typed
    <2>3. /\ answers[c] \in Seq(Conns \X Nat \X Kinds) /\ Len(answers[c]) = n - 1
          /\ Len(script[c]) \in Nat /\ DOMAIN script[c] = 1..Len(script[c])
      BY <1>3, ScriptTyped DEF Typed
    <2>4. PICK A : A = Conns \X Nat \X Kinds
      OBVIOUS
    <2>5. PICK new \in A : new = << c, n, kind >>
      <3>1. n \in Nat /\ kind \in Kinds
        BY <2>3
      <3>2. << c, n, kind >> \in A
        BY <2>4, <3>1
      <3>3. QED
        BY <3>2
    <2>6. PICK s \in Seq(A) : s = answers[c]
      BY <2>3, <2>4
    <2>7. /\ Len(Append(s, new)) = n /\ DOMAIN Append(s, new) = 1..n
          /\ \A i \in 1..n-1 : Append(s, new)[i] = s[i]
          /\ Append(s, new)[n] = new /\ DOMAIN s = 1..n-1
      BY <2>3, <2>5, <2>6, AppendProperties
    <2>8. Append(s, new) = answers'[c]
      BY <2>2, <2>5, <2>6
    <2>9. \A i \in DOMAIN script[c] : Expected(c, i) \subseteq Expected(c, i)'
      BY <2>3, ScriptTyped, ExpectedGrows
    <2>10. ASSUME NEW i \in 1..n
           PROVE  /\ answers'[c][i][1] = c /\ answers'[c][i][2] = i
                  /\ i \in DOMAIN script[c] /\ answers'[c][i][3] \in Expected(c, i)'
      <3>1. CASE i = n
        <4>1. answers'[c][i] = << c, n, kind >> /\ kind \in Expected(c, n)
          BY <2>5, <2>7, <2>8, <3>1
        <4>2. i \in DOMAIN script[c]
          BY <2>3, <3>1
        <4>3. QED
          BY <2>9, <3>1, <4>1, <4>2
      <3>2. CASE i # n
        <4>1. i \in 1..n-1
          BY <3>2
        <4>2. answers'[c][i] = answers[c][i] /\ i \in DOMAIN answers[c]
          BY <2>6, <2>7, <2>8, <4>1
        <4>3. QED
          BY <2>9, <4>2 DEF InOrder
      <3>3. QED
        BY <3>1, <3>2
    <2>11. InOrder(c)'
      BY <2>7, <2>8, <2>10 DEF InOrder
    <2>12. QED
      BY <2>7, <2>8, <2>11
  <1>4. QED
    BY <1>2, <1>3

\* What a thread does with a header
LEMMA HeaderServes ==
  ASSUME AnswerInvariant, ~stolen, NEW c \in Conns, c \notin torn',
         ReceiveInvalid(c) \/ ReceiveShutdown(c) \/ ReceiveList(c) \/ ReceiveRequest(c)
  PROVE  Local(c)'
  <1>1. TypeOK /\ Typed
    BY DEF AnswerInvariant, CountInvariant
  <1>2. script' = script /\ open' = open
    BY DEF ReceiveInvalid, ReceiveShutdown, ReceiveList, ReceiveRequest, client
  <1>3. PICK types : ReceiveHeader(c, types)
    BY DEF ReceiveInvalid, ReceiveShutdown, ReceiveList, ReceiveRequest
  <1>4. NextHeader(c)
    BY <1>2, <1>3, HeaderIsNext
  <1>5. torn' = torn /\ InOrder(c) /\ table[new_socket[c]] = c
    BY <1>4 DEF NextHeader, AnswerInvariant, Local
  <1>6. PICK n \in 1..Len(script[c]) : n = message'[c].n
    BY <1>4 DEF NextHeader
  <1>7. /\ message'[c].m = script[c][n] /\ (open[c] => Len(answers[c]) = n - 1)
        /\ pc'[c] = "payload" => RestIsLeft(c)'
    BY <1>4, <1>6 DEF NextHeader
  <1>8. CASE ReceiveInvalid(c)
    <2>1. message'[c].m.type = "other" /\ Answer(c, n, "error")
      BY <1>6, <1>8 DEF ReceiveInvalid, ReceiveHeader
    <2>2. "error" \in Kinds \cap Expected(c, n)
      BY <1>7, <2>1 DEF Kinds, Expected
    <2>3. InOrder(c)'
      BY <1>1, <1>2, <1>5, <1>7, <2>1, <2>2, AnswerIsNext
    <2>4. pc'[c] = "free"
      BY <1>1, <1>8 DEF ReceiveInvalid, Goto, TypeOK
    <2>5. QED
      BY <2>3, <2>4 DEF Local, ScriptIsServed, Active
  <1>9. CASE ReceiveShutdown(c)
    <2>1. answers' = answers /\ pc'[c] = "free"
      BY <1>1, <1>9 DEF ReceiveShutdown, Goto, TypeOK
    <2>2. InOrder(c)'
      BY <1>1, <1>2, <1>5, <2>1, InOrderKept
    <2>3. QED
      BY <2>1, <2>2 DEF Local, ScriptIsServed, Active
  <1>10. CASE ReceiveList(c)
    <2>1. message'[c].m.type = "list" /\ pc'[c] = "payload"
      BY <1>1, <1>10 DEF ReceiveList, ReceiveHeader, Goto, TypeOK
    <2>2. "list" \in Kinds \cap Expected(c, n) /\ Answer(c, n, "list")
      BY <1>6, <1>7, <1>10, <2>1 DEF Kinds, Expected, ReceiveList
    <2>3. InOrder(c)' /\ (open'[c] => Len(answers'[c]) = n)
      BY <1>1, <1>2, <1>5, <1>7, <2>2, AnswerIsNext
    <2>4. Served(c)' = n
      BY <1>6, <2>1 DEF Served
    <2>5. QED
      BY <1>2, <1>6, <1>7, <2>1, <2>3, <2>4 DEF Local, ScriptIsServed
  <1>11. CASE ReceiveRequest(c)
    <2>1. answers' = answers /\ pc'[c] = "payload" /\ message'[c].m.type # "list"
      BY <1>1, <1>11 DEF ReceiveRequest, ReceiveHeader, Goto, TypeOK
    <2>2. InOrder(c)'
      BY <1>1, <1>2, <1>5, <2>1, InOrderKept
    <2>3. Served(c)' = n - 1
      BY <1>6, <2>1 DEF Served
    <2>4. QED
      BY <1>2, <1>6, <1>7, <2>1, <2>2, <2>3 DEF Local, ScriptIsServed
  <1>12. QED
    BY <1>8, <1>9, <1>10, <1>11

\* What a thread does with a payload
LEMMA PayloadServes ==
  ASSUME AnswerInvariant, ~stolen, NEW c \in Conns, c \notin torn',
         \/ ServeNothing(c) \/ ReceiveEcho(c) \/ ReceiveSize(c) \/ ReceiveRefused(c)
         \/ ReceiveRetrieve(c)
  PROVE  Local(c)'
  <1>1. TypeOK /\ Typed
    BY DEF AnswerInvariant, CountInvariant
  <1>2. script' = script /\ open' = open
    BY DEF ServeNothing, ReceiveEcho, ReceiveSize, ReceiveRefused, ReceiveRetrieve, client
  <1>3. pc[c] = "body" /\ (PayloadWhole(c) \/ PayloadBroken(c))
    BY DEF ServeNothing, ReceiveEcho, ReceiveSize, ReceiveRefused, ReceiveRetrieve,
           ReceivePayload
  <1>4. NextPayload(c)
    BY <1>2, <1>3, PayloadIsNext
  <1>5. torn' = torn /\ InOrder(c) /\ table[new_socket[c]] = c /\ message' = message
    BY <1>4 DEF NextPayload, AnswerInvariant, Local
  <1>6. PICK n \in 1..Len(script[c]) : n = message[c].n
    BY <1>4 DEF NextPayload
  <1>7. /\ message[c].m = script[c][n] /\ (open[c] => Len(answers[c]) = Served(c))
        /\ pc'[c] \in {"read", "check"} => RestIsLeft(c)'
    BY <1>4, <1>6 DEF NextPayload
  <1>8. ASSUME NEW kind \in Kinds \cap Expected(c, n), Answer(c, n, kind),
               message[c].m.type # "list", pc'[c] = "read"
        PROVE  Local(c)'
    <2>1. Served(c) = n - 1
      BY <1>3, <1>6, <1>8 DEF Served
    <2>2. InOrder(c)' /\ (open'[c] => Len(answers'[c]) = n)
      BY <1>1, <1>2, <1>5, <1>7, <1>8, <2>1, AnswerIsNext
    <2>3. Served(c)' = n
      BY <1>5, <1>6, <1>8 DEF Served
    <2>4. QED
      BY <1>7, <1>8, <2>2, <2>3 DEF Local, ScriptIsServed
  <1>9. CASE ServeNothing(c)
    <2>1. answers' = answers /\ pc'[c] = "read" /\ message[c].m.type = "list"
      BY <1>1, <1>9 DEF ServeNothing, ReceivePayload, Goto, TypeOK
    <2>2. InOrder(c)'
      BY <1>1, <1>2, <1>5, <2>1, InOrderKept
    <2>3. Served(c)' = n /\ Served(c) = n
      BY <1>3, <1>5, <1>6, <2>1 DEF Served
    <2>4. QED
      BY <1>2, <1>7, <2>1, <2>2, <2>3 DEF Local, ScriptIsServed
  <1>10. CASE ReceiveEcho(c)
    <2>1. pc'[c] = "read" /\ message[c].m.type = "echo" /\ Answer(c, n, "echo")
      BY <1>1, <1>5, <1>6, <1>10 DEF ReceiveEcho, ReceivePayload, Goto, TypeOK
    <2>2. "echo" \in Kinds \cap Expected(c, n)
      BY <1>7, <2>1 DEF Kinds, Expected
    <2>3. QED
      BY <1>8, <2>1, <2>2
  <1>11. CASE ReceiveSize(c)
    <2>1. PICK kind : kind = IF message[c].m.exists THEN "size" ELSE "error"
      OBVIOUS
    <2>2. pc'[c] = "read" /\ message[c].m.type = "size" /\ Answer(c, n, kind)
      BY <1>1, <1>5, <1>6, <1>11, <2>1 DEF ReceiveSize, ReceivePayload, Goto, TypeOK
    <2>3. kind \in Kinds \cap Expected(c, n)
      BY <1>7, <2>1, <2>2 DEF Kinds, Expected
    <2>4. QED
      BY <1>8, <2>2, <2>3
  <1>12. CASE ReceiveRefused(c)
    <2>1. /\ pc'[c] = "read" /\ message[c].m.type = "retrieve" /\ Answer(c, n, "error")
          /\ ~message[c].m.exists
      BY <1>1, <1>5, <1>6, <1>12 DEF ReceiveRefused, ReceivePayload, Goto, TypeOK
    <2>2. "error" \in Kinds \cap Expected(c, n)
      BY <1>7, <2>1 DEF Kinds, Expected
    <2>3. QED
      BY <1>8, <2>1, <2>2
  <1>13. CASE ReceiveRetrieve(c)
    <2>1. answers' = answers /\ pc'[c] = "check" /\ message[c].m.type = "retrieve"
      BY <1>1, <1>13 DEF ReceiveRetrieve, ReceivePayload, Goto, TypeOK
    <2>2. InOrder(c)'
      BY <1>1, <1>2, <1>5, <2>1, InOrderKept
    <2>3. Served(c)' = n - 1 /\ Served(c) = n - 1
      BY <1>3, <1>5, <1>6, <2>1 DEF Served
    <2>4. QED
      BY <1>2, <1>5, <1>6, <1>7, <2>1, <2>2, <2>3 DEF Local, ScriptIsServed
  <1>14. QED
    BY <1>9, <1>10, <1>11, <1>12, <1>13

\* The entry that check_sessions finds is that of another client's request, or of an
\* earlier one of the same client.
LEMMA RefusalIsExplained ==
  ASSUME AnswerInvariant, ~stolen, NEW c \in Conns, c \notin torn, pc[c] = "check",
         Known(c) # {}, NEW kind \in Verdicts(c, requests[Min(Known(c))])
  PROVE  kind \in Expected(c, message[c].n)
  <1>1. TypeOK /\ Typed /\ ScriptIsServed(c)
    BY DEF AnswerInvariant, CountInvariant, Local
  <1>2. PICK n \in Nat : n = message[c].n
    BY <1>1 DEF Typed, Received
  <1>3. message[c].m = script[c][n] /\ Requested(script[c][n])
    BY <1>1, <1>2 DEF ScriptIsServed, Typed
  <1>4. kind \in {"empty", "error"}
    BY DEF Verdicts
  <1>5. kind \in Refusals(c, n)
    <2>1. CASE torn # {}
      BY <1>4, <2>1 DEF Refusals
    <2>2. CASE torn = {}
      <3>1. PICK k \in Known(c) : k = Min(Known(c))
        <4>1. Known(c) \subseteq Nat
          BY <1>1 DEF Known, Typed
        <4>2. QED
          BY <4>1, LeastNatural
      <3>2. k \in 1..Len(requests) /\ requests[k].id = Mine(c).id
        BY <1>1, <3>1 DEF Known, Typed
      <3>3. PICK d \in Conns, j \in Nat : IsEntryOf(requests[k], d, j)
        BY <2>2, <3>2 DEF AnswerInvariant, EntriesAreRequests
      <3>4. j \in DOMAIN script[d]
        BY <1>1, <3>3, ScriptTyped DEF IsEntryOf
      <3>5. d # c \/ j < n
        BY <1>2, <3>3 DEF IsEntryOf
      <3>6. Explains(script[d][j], script[c][n], kind)
        <4>1. /\ script[d][j].type = "retrieve" /\ script[d][j].exists
              /\ requests[k].id = Parse(script[d][j].id)
              /\ requests[k].target = script[d][j].target
              /\ requests[k].compress = script[d][j].compress
          BY <3>3 DEF IsEntryOf, Requested
        <4>2. Mine(c).id = Parse(script[c][n].id) /\ Mine(c).target = script[c][n].target
          BY <1>3 DEF Mine
        <4>3. script[d][j].compress => ~IsStale(requests[k])
          BY <4>1 DEF IsStale
        <4>4. script[d][j].compress =>
                kind = IF script[d][j].target = script[c][n].target THEN "empty" ELSE "error"
          BY <3>1, <4>1, <4>2, <4>3 DEF Verdicts
        <4>5. QED
          BY <3>2, <4>1, <4>2, <4>4 DEF Explains
      <3>7. QED
        BY <1>4, <3>4, <3>5, <3>6 DEF Refusals
    <2>3. QED
      BY <2>1, <2>2
  <1>6. QED
    BY <1>2, <1>3, <1>5 DEF Expected, Requested

\* check_sessions and the transfer answer the request for a file, which is still the
\* next message to be answered.
LEMMA TransferServes ==
  ASSUME AnswerInvariant, ~stolen, NEW c \in Conns, c \notin torn',
         CheckKnown(c) \/ SendData(c)
  PROVE  Local(c)'
  <1>1. TypeOK /\ Typed /\ DescriptorsAreOwn /\ pc[c] \in {"check", "send"}
    BY DEF AnswerInvariant, CountInvariant, CheckKnown, SendData
  <1>2. UNCHANGED << script, stream, message, torn, open >>
    BY DEF CheckKnown, SendData, client
  <1>3. pc'[c] \in {"read", "remove"}
    BY <1>1 DEF CheckKnown, SendData, Goto, TypeOK
  <1>4. ScriptIsServed(c) /\ InOrder(c) /\ table[new_socket[c]] = c
    BY <1>1, <1>2 DEF AnswerInvariant, Local, DescriptorsAreOwn, Active
  <1>5. PICK n \in 1..Len(script[c]) : n = message[c].n
    BY <1>1, <1>4 DEF ScriptIsServed
  <1>6. Requested(script[c][n])
    BY <1>1, <1>4, <1>5 DEF ScriptIsServed, Typed
  <1>7. Served(c) = n - 1 /\ Served(c)' = n
    BY <1>1, <1>2, <1>3, <1>5 DEF Served
  <1>8. RestIsLeft(c) /\ (open[c] => Len(answers[c]) = n - 1)
    BY <1>1, <1>4, <1>7 DEF ScriptIsServed, Active
  <1>9. PICK kind \in Kinds \cap Expected(c, n) : Answer(c, n, kind)
    <2>1. CASE CheckKnown(c)
      <3>1. PICK kind \in Verdicts(c, requests[Min(Known(c))]) : Answer(c, n, kind)
        BY <1>5, <2>1 DEF CheckKnown
      <3>2. kind \in Expected(c, n)
        BY <1>2, <1>5, <2>1, <3>1, RefusalIsExplained DEF CheckKnown
      <3>3. kind \in Kinds
        BY <3>1 DEF Verdicts, Kinds
      <3>4. QED
        BY <3>1, <3>2, <3>3
    <2>2. CASE SendData(c)
      BY <1>5, <1>6, <2>2 DEF SendData, Kinds, Expected, Requested
    <2>3. QED
      BY <2>1, <2>2
  <1>10. InOrder(c)' /\ (open'[c] => Len(answers'[c]) = n)
    BY <1>1, <1>2, <1>4, <1>8, <1>9, AnswerIsNext
  <1>11. RestIsLeft(c)'
    <2>1. Taken(c)' = Taken(c)
      BY <1>1, <1>2, <1>3 DEF Taken, AtPayload
    <2>2. QED
      BY <1>2, <1>8, <2>1 DEF RestIsLeft, PartOf
  <1>12. QED
    BY <1>3, <1>7, <1>10, <1>11 DEF Local, ScriptIsServed

\* The steps that answer nothing and read nothing: what has been served stays what it is.
LEMMA SilentServes ==
  ASSUME AnswerInvariant, ~stolen, NEW c \in Conns, c \notin torn',
         \/ Accept(c) \/ CloseClient(c) \/ CallRecv(c) \/ ReceiveEnd(c)
         \/ CallRecvPayload(c) \/ PayloadNone(c) \/ FreeData(c) \/ CheckNew(c)
         \/ RemoveSession(c)
  PROVE  Local(c)'
  <1>1. TypeOK /\ Typed
    BY DEF AnswerInvariant, CountInvariant
  <1>2. UNCHANGED << script, torn, message, answers >>
    BY DEF Accept, CloseClient, CallRecv, ReceiveEnd, CallRecvPayload, PayloadNone,
           FreeData, CheckNew, RemoveSession, client
  <1>3. ScriptIsServed(c) /\ InOrder(c)
    BY <1>2 DEF AnswerInvariant, Local
  <1>4. InOrder(c)'
    BY <1>1, <1>2, <1>3, InOrderKept
  <1>5. CASE Accept(c)
    <2>1. PICK s : s = [n \in DOMAIN script[c] |-> [n |-> n, m |-> script[c][n], rest |-> "all"]]
      OBVIOUS
    <2>2. pc[c] = "none" /\ pc'[c] = "read" /\ stream'[c] = s
      BY <1>1, <1>5, <2>1 DEF Accept, TypeOK, Typed
    <2>3. DOMAIN script[c] = 1..Len(script[c]) /\ Len(script[c]) \in Nat
      BY <1>1, ScriptTyped
    <2>4. /\ Len(s) = Len(script[c])
          /\ \A j \in 1..Len(s) : s[j] = [n |-> j, m |-> script[c][j], rest |-> "all"]
      BY <2>1, <2>3
    <2>5. answers[c] = << >> /\ message[c].n = 0
      BY <1>3, <2>2 DEF ScriptIsServed
    <2>6. Served(c)' = 0 /\ Taken(c)' = 0
      <3>1. Served(c)' = message'[c].n - 0 /\ Taken(c)' = message'[c].n - 0
        BY <2>2 DEF Served, Taken, AtPayload
      <3>2. message'[c].n = 0
        BY <1>2, <2>5
      <3>3. QED
        BY <3>1, <3>2
    <2>7. \A j \in 1..Len(s) : s[j] = PartOf(c, 0 + j)'
      <3>1. SUFFICES ASSUME NEW j \in 1..Len(s) PROVE s[j] = PartOf(c, 0 + j)'
        OBVIOUS
      <3>2. 0 + j = j /\ j # message'[c].n
        BY <1>2, <2>5
      <3>3. QED
        BY <1>2, <2>4, <3>2 DEF PartOf
    <2>8. RestIsLeft(c)'
      BY <1>2, <2>2, <2>3, <2>4, <2>6, <2>7 DEF RestIsLeft
    <2>9. Len(answers'[c]) = 0
      BY <1>2, <2>5
    <2>10. QED
      BY <1>4, <2>2, <2>6, <2>8, <2>9 DEF Local, ScriptIsServed
  <1>6. CASE \/ CloseClient(c) \/ CallRecv(c) \/ ReceiveEnd(c) \/ CallRecvPayload(c)
             \/ PayloadNone(c) \/ FreeData(c) \/ CheckNew(c) \/ RemoveSession(c)
    <2>1. stream' = stream
      BY <1>6 DEF CloseClient, CallRecv, ReceiveEnd, CallRecvPayload, PayloadNone, FreeData,
                  CheckNew, RemoveSession
    <2>2. open'[c] => open[c]
      BY <1>1, <1>6 DEF CloseClient, CallRecv, ReceiveEnd, CallRecvPayload, PayloadNone,
                        FreeData, CheckNew, RemoveSession, client, Typed
    <2>3. \/ pc'[c] = pc[c] \/ pc'[c] \in {"free", "ended"}
          \/ {pc[c], pc'[c]} \subseteq {"read", "recv", "remove"}
          \/ {pc[c], pc'[c]} = {"check", "send"}
          \/ {pc[c], pc'[c]} = {"payload", "body"}
      BY <1>1, <1>6 DEF CloseClient, CallRecv, ReceiveEnd, CallRecvPayload, PayloadNone,
                        FreeData, CheckNew, RemoveSession, Goto, AfterFree, AfterEmpty, TypeOK
    <2>4. Active(c)' => /\ Active(c) /\ Served(c)' = Served(c)
                        /\ Taken(c)' = Taken(c)
      BY <1>2, <2>3 DEF Active, Served, Taken, AtPayload
    <2>5. RestIsLeft(c) /\ Taken(c)' = Taken(c) => RestIsLeft(c)'
      BY <1>2, <2>1 DEF RestIsLeft, PartOf
    <2>6. /\ pc'[c] = "none" => pc[c] = "none"
          /\ pc'[c] \in {"payload", "body", "check", "send"} =>
               pc[c] \in {"payload", "body", "check", "send"}
      BY <2>3
    <2>7. ScriptIsServed(c)'
      BY <1>2, <1>3, <2>2, <2>4, <2>5, <2>6 DEF ScriptIsServed
    <2>8. QED
      BY <1>4, <2>7 DEF Local
  <1>7. QED
    BY <1>5, <1>6

\* Every step, on every connection that is not torn
LEMMA StepServes ==
  ASSUME AnswerInvariant, ~stolen, NEW c \in Conns, Accept(c) \/ CloseClient(c) \/ Thread(c)
  PROVE  \A d \in Conns \ torn' : Local(d)'
  <1>1. TypeOK /\ Typed /\ DescriptorsAreOwn
    BY DEF AnswerInvariant, CountInvariant
  <1>2. script' = script /\ torn \subseteq torn'
    BY <1>1, ScriptKept
  <1>3. ASSUME Crash(c) PROVE c \in torn'
    <2>1. source[c] = c /\ PayloadBroken(c)
      BY <1>1, <1>3 DEF Crash, DescriptorsAreOwn
    <2>2. QED
      BY <2>1, ServerAssumption DEF PayloadBroken
  <1>4. c \notin torn' => Local(c)'
    BY <1>3, HeaderServes, PayloadServes, TransferServes, SilentServes DEF Thread
  <1>5. ASSUME NEW d \in Conns, d # c, d \notin torn' PROVE Local(d)'
    <2>1. Local(d)
      BY <1>2, <1>5 DEF AnswerInvariant
    <2>2. /\ pc'[d] = pc[d] /\ message'[d] = message[d] /\ stream'[d] = stream[d]
          /\ answers'[d] = answers[d] /\ open'[d] = open[d]
      BY <1>5, OnlyOwn
    <2>3. QED
      BY <1>1, <1>2, <2>1, <2>2, LocalKept
  <1>6. QED
    BY <1>4, <1>5

\* Client d is at the same message, and not back before its check, or at a later one.
GoesOn(d) ==
  /\ message[d].n <= message'[d].n
  /\ /\ message'[d].n = message[d].n
     /\ pc'[d] \in {"payload", "body", "check"}
     => pc[d] \in {"payload", "body", "check"}

\* The message a thread is at is never one that it has left.
LEMMA ThreadsGoOn ==
  ASSUME AnswerInvariant, ~stolen, torn' = {},
         NEW c \in Conns, Accept(c) \/ CloseClient(c) \/ Thread(c)
  PROVE  \A d \in Conns : GoesOn(d)
  <1>1. TypeOK /\ Typed /\ DescriptorsAreOwn /\ \A d \in Conns : message[d].n \in Nat
    BY DEF AnswerInvariant, CountInvariant, Typed, Received
  <1>2. script' = script
    BY <1>1, ScriptKept
  <1>3. \A d \in Conns \ {c} : GoesOn(d)
    BY <1>1, OnlyOwn DEF GoesOn
  <1>4. CASE \E types : ReceiveHeader(c, types)
    <2>1. NextHeader(c)
      BY <1>2, <1>4, HeaderIsNext
    <2>2. QED
      BY <1>1, <1>3, <2>1 DEF NextHeader, GoesOn
  <1>5. CASE pc[c] = "body" /\ (PayloadWhole(c) \/ PayloadBroken(c))
    <2>1. NextPayload(c)
      BY <1>2, <1>5, PayloadIsNext
    <2>2. QED
      BY <1>1, <1>3, <1>5, <2>1 DEF NextPayload, GoesOn
  <1>6. CASE \/ Accept(c) \/ CloseClient(c) \/ CallRecv(c) \/ ReceiveEnd(c)
             \/ CallRecvPayload(c) \/ PayloadNone(c) \/ FreeData(c) \/ CheckKnown(c)
             \/ CheckNew(c) \/ SendData(c) \/ RemoveSession(c)
    <2>1. message' = message
      BY <1>6 DEF Accept, CloseClient, CallRecv, ReceiveEnd, CallRecvPayload, PayloadNone,
                  FreeData, CheckKnown, CheckNew, SendData, RemoveSession
    <2>2. pc'[c] \in {"payload", "body", "check"} => pc[c] \in {"payload", "body", "check"}
      BY <1>1, <1>6 DEF Accept, CloseClient, CallRecv, ReceiveEnd, CallRecvPayload,
                        PayloadNone, FreeData, CheckKnown, CheckNew, SendData,
                        RemoveSession, Goto, AfterFree, AfterEmpty, TypeOK
    <2>3. QED
      BY <1>1, <1>3, <2>1, <2>2 DEF GoesOn
  <1>7. \/ \E types : ReceiveHeader(c, types)
        \/ pc[c] = "body" /\ (PayloadWhole(c) \/ PayloadBroken(c))
        \/ \/ Accept(c) \/ CloseClient(c) \/ CallRecv(c) \/ ReceiveEnd(c)
           \/ CallRecvPayload(c) \/ PayloadNone(c) \/ FreeData(c) \/ CheckKnown(c)
           \/ CheckNew(c) \/ SendData(c) \/ RemoveSession(c)
    BY DEF Thread, ReceiveInvalid, ReceiveShutdown, ReceiveList, ReceiveRequest,
           ServeNothing, ReceiveEcho, ReceiveSize, ReceiveRefused, ReceiveRetrieve, Crash,
           ReceivePayload
  <1>8. QED
    BY <1>4, <1>5, <1>6, <1>7

\* An entry of a request that a client has sent
HasRequest(entry) == \E d \in Conns, j \in Nat : IsEntryOf(entry, d, j)

\* The entries in the array are those of requests that clients have sent and whose
\* threads have checked them.
LEMMA EntriesStayRequests ==
  ASSUME AnswerInvariant, Typed', ~stolen, torn' = {},
         NEW c \in Conns, Accept(c) \/ CloseClient(c) \/ Thread(c)
  PROVE  EntriesAreRequests'
  <1>1. TypeOK /\ Typed /\ CountInvariant
    BY DEF AnswerInvariant, CountInvariant
  <1>2. script' = script /\ torn = {}
    BY <1>1, ScriptKept
  <1>3. \A d \in Conns : message[d].n \in Nat /\ message'[d].n \in Nat
    BY <1>1 DEF Typed, Received
  <1>4. \A d \in Conns : GoesOn(d)
    BY ThreadsGoOn
  <1>5. ASSUME NEW entry, HasRequest(entry) PROVE HasRequest(entry)'
    <2>1. PICK d \in Conns, j \in Nat : IsEntryOf(entry, d, j)
      BY <1>5 DEF HasRequest
    <2>2. IsEntryOf(entry, d, j)'
      BY <1>2, <1>3, <1>4, <2>1 DEF IsEntryOf, GoesOn
    <2>3. QED
      BY <2>2 DEF HasRequest
  <1>6. \A i \in 1..Len(requests) : HasRequest(requests[i])
    BY <1>2 DEF AnswerInvariant, EntriesAreRequests, HasRequest
  <1>7. \A i \in 1..Len(requests) : \E entry : entry = requests[i] /\ HasRequest(entry)'
    BY <1>5, <1>6
  <1>8. SUFFICES ASSUME NEW i \in 1..Len(requests')
                 PROVE  \E entry : entry = requests'[i] /\ HasRequest(entry)'
    <2>1. ASSUME NEW i \in 1..Len(requests'), NEW entry, entry = requests'[i],
                 HasRequest(entry)'
          PROVE  \E d \in Conns, j \in Nat : IsEntryOf(requests[i], d, j)'
      <3>1. PICK d \in Conns, j \in Nat : IsEntryOf(entry, d, j)'
        BY <2>1 DEF HasRequest
      <3>2. IsEntryOf(requests[i], d, j)'
        BY <2>1, <3>1 DEF IsEntryOf
      <3>3. QED
        BY <3>2
    <2>2. QED
      BY <2>1 DEF EntriesAreRequests
  <1>9. CASE CheckNew(c)
    <2>1. /\ requests' = Append(requests, Mine(c)) /\ pc'[c] = "send" /\ message' = message
          /\ pc[c] = "check"
      BY <1>1, <1>9 DEF CheckNew, Goto, TypeOK
    <2>2. PICK n \in Nat : n = message[c].n
      BY <1>3
    <2>3. /\ n \in 1..Len(script[c]) /\ message[c].m = script[c][n]
          /\ Requested(script[c][n])
      <3>1. Local(c)
        BY <1>2 DEF AnswerInvariant
      <3>2. QED
        BY <1>1, <2>1, <2>2, <3>1 DEF Local, ScriptIsServed, Typed
    <2>4. PICK mine : mine = Mine(c)
      OBVIOUS
    <2>5. /\ mine.id = Parse(script[c][n].id) /\ mine.target = script[c][n].target
          /\ mine.compress = script[c][n].compress
      BY <2>3, <2>4 DEF Mine
    <2>6. IsEntryOf(mine, c, n)'
      BY <1>2, <2>1, <2>2, <2>3, <2>5 DEF IsEntryOf
    <2>7. HasRequest(mine)'
      BY <2>2, <2>6 DEF HasRequest
    <2>8. /\ Len(requests) \in Nat /\ Len(requests') = Len(requests) + 1
          /\ requests'[Len(requests) + 1] = mine
          /\ \A k \in 1..Len(requests) : requests'[k] = requests[k]
      <3>1. requests \in Seq(Entries) /\ Mine(c) \in Entries
        BY <1>1, <2>1, MineIsAnEntry DEF Typed
      <3> HIDE DEF Entries
      <3>2. QED
        BY <2>1, <2>4, <3>1, AppendProperties
    <2>9. CASE i \in 1..Len(requests)
      BY <1>7, <2>8, <2>9
    <2>10. CASE i = Len(requests) + 1
      BY <2>7, <2>8, <2>10
    <2>11. QED
      BY <2>8, <2>9, <2>10
  <1>10. CASE RemoveSession(c)
    <2>1. /\ Len(requests') = Len(requests) - 1 /\ Len(requests) \in Nat
          /\ \A k \in 1..Len(requests)-1 : requests'[k] = requests[k]
      BY <1>1, <1>10, RemoveCount DEF Typed
    <2>2. i \in 1..Len(requests) /\ requests'[i] = requests[i]
      BY <2>1
    <2>3. QED
      BY <1>7, <2>2
  <1>11. CASE ~CheckNew(c) /\ ~RemoveSession(c)
    <2>1. requests' = requests
      BY <1>11 DEF Accept, CloseClient, Thread, CallRecv, ReceiveEnd, ReceiveInvalid,
           ReceiveShutdown, ReceiveList, ReceiveRequest, CallRecvPayload, PayloadNone,
           ServeNothing, ReceiveEcho, ReceiveSize, ReceiveRefused, ReceiveRetrieve, Crash,
           FreeData, CheckKnown, SendData
    <2>2. QED
      BY <1>7, <2>1
  <1>12. QED
    BY <1>9, <1>10, <1>11

\* On every connection of which each message is read whole the answers are those of its
\* own messages, in their order and without a gap, for any number of clients and any
\* scripts, and a file is held back only for another request of its session, as long
\* as no thread has closed another's connection; only a shutdown message, or a message
\* that was not read whole, makes a thread do that.
THEOREM AnswersComeInOrder == Spec => []AnswersInOrder
  <1>1. AnswerInvariant => AnswersInOrder
    BY DEF AnswerInvariant, AnswersInOrder, Disturbed, SomeShutdown, Local, InOrder
  <1>2. Init => AnswerInvariant
    <2> SUFFICES ASSUME Init PROVE AnswerInvariant
      OBVIOUS
    <2>1. CountInvariant /\ DescriptorsAreOwn /\ ~stolen
      BY InitCount DEF Init, DescriptorsAreOwn, Active
    <2>2. \A c \in Conns : Local(c)
      BY DEF Init, Local, ScriptIsServed, InOrder, Active
    <2>3. EntriesAreRequests
      BY DEF Init, EntriesAreRequests
    <2>4. QED
      BY <2>1, <2>2, <2>3 DEF AnswerInvariant
  <1>3. AnswerInvariant /\ [Next]_vars => AnswerInvariant'
    <2> SUFFICES ASSUME AnswerInvariant, [Next]_vars PROVE AnswerInvariant'
      OBVIOUS
    <2>1. CountInvariant' /\ Typed'
      BY NextCount DEF AnswerInvariant, CountInvariant
    <2>2. CASE UNCHANGED vars
      <3>1. /\ UNCHANGED << script, open, stream, torn, answers, table, new_socket, source >>
            /\ UNCHANGED << message, requests, pc, stolen >>
        BY <2>2 DEF vars, client, history
      <3>2. DescriptorsAreOwn' /\ (stolen' => Disturbed')
        BY <3>1 DEF SomeShutdown, Disturbed, AnswerInvariant, DescriptorsAreOwn, Active
      <3>3. ~stolen => \A c \in Conns \ torn : Local(c)'
        BY <3>1, LocalKept DEF AnswerInvariant, CountInvariant
      <3>4. EntriesAreRequests => EntriesAreRequests'
        BY <3>1 DEF EntriesAreRequests, IsEntryOf
      <3>5. QED
        BY <2>1, <3>1, <3>2, <3>3, <3>4 DEF AnswerInvariant
    <2>3. ASSUME NEW c \in Conns, Accept(c) \/ CloseClient(c) \/ Thread(c)
          PROVE  AnswerInvariant'
      <3>1. DescriptorsAreOwn' /\ (stolen' => Disturbed')
        BY <2>3, StepKeepsOwn
      <3>2. stolen => stolen'
        <4>1. stolen' = stolen \/ Close(c)
          BY <2>3 DEF Accept, CloseClient, Thread, CallRecv, ReceiveEnd, ReceiveInvalid,
                 ReceiveShutdown, ReceiveList, ReceiveRequest, CallRecvPayload,
                 PayloadNone, ServeNothing, ReceiveEcho, ReceiveSize, ReceiveRefused,
                 ReceiveRetrieve, Crash, FreeData, CheckKnown, CheckNew, SendData,
                 RemoveSession, history, AfterError
        <4>2. Close(c) => (stolen => stolen')
          BY DEF Close
        <4>3. QED
          BY <4>1, <4>2
      <3>3. ~stolen' => \A d \in Conns \ torn' : Local(d)'
        BY <2>3, <3>2, StepServes
      <3>4. ~stolen' /\ torn' = {} => EntriesAreRequests'
        BY <2>1, <2>3, <3>2, EntriesStayRequests
      <3>5. QED
        BY <2>1, <3>1, <3>3, <3>4 DEF AnswerInvariant
    <2>4. QED
      BY <2>2, <2>3 DEF Next, Quiet, Step
  <1>4. QED
    BY <1>1, <1>2, <1>3, PTL DEF Spec

=============================================================================
