---------------------------- MODULE Compression ----------------------------
(***************************************************************************)
(* The way of a compression dictionary: the Huffman program (huffman.c)    *)
(* builds a code from the frequencies of a file and writes it out; the     *)
(* JXServer (server.c, data_structure.c) reads it at its start into a bit  *)
(* array with start indices and into a decoding tree, and then encodes     *)
(* and decodes payloads with them.                                         *)
(*                                                                         *)
(* A bit is 0 or 1, an array of bytes the sequence of its bits, highest    *)
(* bit of a byte first (set_bit, clear_bit, get_bit).  A tree of the       *)
(* Huffman program is its total frequency and the path to each of its      *)
(* leaves; a tree of the server maps paths to the symbol of a leaf.        *)
(***************************************************************************)
EXTENDS Integers, Sequences, FiniteSets, SequencesExt, Functions

CONSTANTS DICT_SIZE,    \* number of symbols, and of values of a byte of data (256 in the code)
          Inputs,       \* the files the code is built from, as frequencies of the symbols
          DictBits,     \* bits of dict_bit_array (DICT_SIZE * 4 bytes in the code: 8192)
          Tails,        \* what the memory behind the dictionary file may hold, as far as the
                        \* longest segment reaches
          MaxMessage    \* bound on the length of a message

Symbols == 0..(DICT_SIZE - 1)
Bit == {0, 1}

ASSUME DictSizeAssumption == DICT_SIZE \in Nat \ {0, 1} /\ MaxMessage \in Nat
ASSUME InputsAssumption ==
  /\ Inputs \subseteq [Symbols -> Nat]
  /\ DictBits \in Nat
  /\ Tails \subseteq Seq(Bit) /\ \A rest \in Tails : Len(rest) >= 255

VARIABLES pc,       \* where the Huffman program, and after it the server, is
          freq,     \* frequency of each symbol in the file
          heap,     \* huff_tree->nodes[0 .. size-1]
          popped,   \* the nodes taken from the heap: right, then left
          codes,    \* bit code of each symbol in the dictionary written
          file,     \* bits of the dictionary file
          pos,      \* bits of the file the server has read
          seg,      \* seg_index: where the code of each symbol starts in bits
          bits,     \* dict_bit_array
          tree,     \* the decoding tree: path -> symbol of a leaf, or Inner
          msg,      \* a message before it is encoded
          payload,  \* the encoded message
          reply     \* the message as decoded

huffman == <<freq, heap, popped>>
dictionary == <<pos, seg, bits, tree>>
traffic == <<msg, payload, reply>>
vars == <<pc, huffman, codes, file, dictionary, traffic>>

(***************************************************************************)
(* Building the code.                                                      *)
(***************************************************************************)
Leaf(s) == [freq |-> freq[s], path |-> [x \in {s} |-> <<>>]]

\* Mutant: both edges are saved as 0.
Joined_same(right, left) ==
  [freq |-> left.freq + right.freq,
   path |-> [s \in DOMAIN right.path \cup DOMAIN left.path |->
               <<0>> \o IF s \in DOMAIN right.path THEN right.path[s] ELSE left.path[s]]]

\* A new inner node; save_codes writes a 0 for the edge to the right child
\* and a 1 for the edge to the left one.
Joined(right, left) ==
  [freq |-> left.freq + right.freq,
   path |-> [s \in DOMAIN right.path \cup DOMAIN left.path |->
               IF s \in DOMAIN right.path THEN <<0>> \o right.path[s]
                                          ELSE <<1>> \o left.path[s]]]

\* The orders qsort may leave: it need not keep the order of equal frequencies.
Sorted == {order \in SetToSeqs(Symbols) :
             \A i \in 1..(DICT_SIZE - 1) : freq[order[i]] <= freq[order[i + 1]]}

\* The child of i the loop of update_tree_helper exchanges it with, or i.
MinimumOf(h, i) ==
  LET smaller(c, m) == IF c <= Len(h) /\ h[c].freq < h[m].freq THEN c ELSE m
  IN smaller(2 * i, smaller(2 * i + 1, i))

RECURSIVE UpdateTree(_, _)
UpdateTree(h, i) ==
  LET m == MinimumOf(h, i)
  IN IF m = i THEN h ELSE UpdateTree([h EXCEPT ![i] = h[m], ![m] = h[i]], m)

\* Mutant: the size is not decremented.
WithoutRoot_size(h) == UpdateTree([h EXCEPT ![1] = Last(h)], 1)

\* The last node becomes the root and sinks.
WithoutRoot(h) == UpdateTree(Front([h EXCEPT ![1] = Last(h)]), 1)

\* The new node n climbs from the free place i.  At a child of the root the
\* loop stops: a root that is larger keeps its place.
RECURSIVE Climb(_, _, _)
Climb(h, n, i) ==
  LET parent == i \div 2
  IN IF parent > 1 /\ n.freq < h[parent].freq
     THEN Climb([h EXCEPT ![i] = h[parent]], n, parent)
     ELSE [h EXCEPT ![i] = n]

(***************************************************************************)
(* Bits.                                                                   *)
(***************************************************************************)
Byte(n) == [k \in 1..8 |-> (n \div 2^(8 - k)) % 2]

\* A segment length is collected in a byte of zeros, from its highest bit on.
Value(b) ==
  LET upto[k \in 0..8] ==
        IF k = 0 THEN 0 ELSE 2 * upto[k - 1] + (IF k <= Len(b) THEN b[k] ELSE 0)
  IN upto[8]

\* Mutant: a full last byte is counted as eight bits of padding.
Packed_eight(b) ==
  LET padding == IF b = <<>> THEN 8 ELSE (-Len(b)) % 8
  IN b \o [k \in 1..padding |-> 0] \o Byte(8 - (Len(b) % 8))

\* Fill the last byte with 0 (there is at least one byte) and append a byte
\* with the number of bits filled in.
Packed(b) ==
  LET padding == IF b = <<>> THEN 8 ELSE (-Len(b)) % 8
  IN b \o [k \in 1..padding |-> 0] \o Byte(padding)

\* The symbols in order, each with the length of its code in front.
Dictionary(code) ==
  Packed(FlattenSeq([k \in 1..DICT_SIZE |-> Byte(Len(code[k - 1])) \o code[k - 1]]))

\* encode_msg of huffman.c: the code kept with each symbol.
EncodedByHuffman(m) == Packed(FlattenSeq([k \in 1..Len(m) |-> codes[m[k]]]))

\* encode_msg of server.c: the bits from one start index to the next.
Segment(s) == SubSeq(bits, seg[s + 1] + 1, seg[s + 2])
EncodedByServer(m) == Packed(FlattenSeq([k \in 1..Len(m) |-> Segment(m[k])]))

(***************************************************************************)
(* The decoding tree.                                                      *)
(***************************************************************************)
Inner == -1

\* Mutant: a node that exists is replaced.
Inserted_replaces(t, code, value) ==
  [p \in DOMAIN t \cup {SubSeq(code, 1, j) : j \in 1..Len(code)} |->
     IF p = code THEN value ELSE IF IsPrefix(p, code) THEN Inner ELSE t[p]]

\* insert_node along a code: a node that exists stays as it is.
Inserted(t, code, value) ==
  [p \in DOMAIN t \cup {SubSeq(code, 1, j) : j \in 1..Len(code)} |->
     IF p \in DOMAIN t THEN t[p] ELSE IF p = code THEN value ELSE Inner]

\* decode_msg from the node at on; found is FALSE if the walk leaves the tree.
RECURSIVE Walk(_, _, _)
Walk(b, at, out) ==
  IF b = <<>> THEN [found |-> TRUE, out |-> out]
  ELSE LET next == Append(at, Head(b))
       IN IF next \notin DOMAIN tree THEN [found |-> FALSE, out |-> out]
          ELSE IF tree[next] = Inner THEN Walk(Tail(b), next, out)
          ELSE Walk(Tail(b), <<>>, Append(out, tree[next]))

\* The bits of the payload without the padding its last byte counts.
Carried(b) == SubSeq(b, 1, Len(b) - 8 - Value(SubSeq(b, Len(b) - 7, Len(b))))
Decoded(b) == Walk(Carried(b), <<>>, <<>>)

(***************************************************************************)
(* The steps.                                                              *)
(***************************************************************************)
Init ==
  /\ pc = "sort"
  /\ freq \in Inputs
  /\ heap = <<>> /\ popped = <<>> /\ codes = <<>> /\ file = <<>>
  /\ pos = 0 /\ seg = <<>> /\ bits = <<>>
  /\ tree = [p \in {<<>>} |-> Inner]
  /\ msg = <<>> /\ payload = <<>> /\ reply = <<>>

\* calculate_bitcode sorts the nodes and tree_init takes them over.
Sort ==
  /\ pc = "sort"
  /\ pc' = "build"
  /\ \E order \in Sorted : heap' = [i \in 1..DICT_SIZE |-> Leaf(order[i])]
  /\ UNCHANGED <<freq, popped, codes, file, dictionary, traffic>>

\* The first of two is taken while there is more than one, the second always.
Pop ==
  /\ pc = "build"
  /\ \/ popped = <<>> /\ Len(heap) > 1
     \/ Len(popped) = 1
  /\ popped' = Append(popped, heap[1])
  /\ heap' = WithoutRoot(heap)
  /\ UNCHANGED <<pc, freq, codes, file, dictionary, traffic>>

\* Mutant of Climb: the parent is not moved down before its place is taken.
RECURSIVE Climb_overwrites(_, _, _)
Climb_overwrites(h, n, i) ==
  LET parent == i \div 2
  IN IF parent > 1 /\ n.freq < h[parent].freq
     THEN Climb_overwrites(h, n, parent)
     ELSE [h EXCEPT ![i] = n]

\* Mutant: see Climb_overwrites.
Insert_overwrites ==
  /\ pc = "build"
  /\ Len(popped) = 2
  /\ LET n == Joined(popped[1], popped[2])
     IN heap' = Climb_overwrites(Append(heap, n), n, Len(heap) + 1)
  /\ popped' = <<>>
  /\ UNCHANGED <<pc, freq, codes, file, dictionary, traffic>>

Insert ==
  /\ pc = "build"
  /\ Len(popped) = 2
  /\ LET n == Joined(popped[1], popped[2])
     IN heap' = Climb(Append(heap, n), n, Len(heap) + 1)
  /\ popped' = <<>>
  /\ UNCHANGED <<pc, freq, codes, file, dictionary, traffic>>

\* One tree is left: save its codes, write the dictionary, and end (what the
\* process held is gone).
WriteDictionary ==
  /\ pc = "build"
  /\ popped = <<>> /\ Len(heap) = 1
  /\ codes' = heap[1].path
  /\ file' = Dictionary(heap[1].path)
  /\ pc' = "read"
  /\ freq' = [s \in Symbols |-> 0] /\ heap' = <<>>
  /\ UNCHANGED <<popped, dictionary, traffic>>

\* The bit array is too short: a bit is set behind its end, where seg_index
\* lies, or the code of a symbol ends there.
Overruns(code) ==
  \/ \E k \in DOMAIN code : code[k] = 1 /\ Len(bits) + k > DictBits
  \/ Len(seg) < DICT_SIZE /\ Len(bits) + Len(code) > DictBits

\* One round of the loop of read_compression_dir.  The loop runs to the end
\* of the file, so it also takes the padding for segments; their code lies
\* behind the end of the file.  seg_index has one place more than there are
\* symbols, the place after it is in the alignment of the structure.  Nothing
\* compares the index with the length of the bit array.
ReadSegment ==
  /\ pc = "read"
  /\ pos < Len(file)
  /\ LET upto == IF pos + 8 < Len(file) THEN pos + 8 ELSE Len(file)
         len == Value(SubSeq(file, pos + 1, upto))
         code(rest) == SubSeq(SubSeq(file, upto + 1, Len(file)) \o rest, 1, len)
     IN \E rest \in IF upto + len > Len(file) THEN Tails ELSE {<<>>} :
          /\ seg' = IF Len(seg) <= DICT_SIZE THEN Append(seg, Len(bits)) ELSE seg
          /\ bits' = bits \o code(rest)
          /\ tree' = Inserted(tree, code(rest), (Len(seg') - 1) % DICT_SIZE)
          /\ pos' = upto + len
          /\ pc' = IF Overruns(code(rest)) THEN "overrun" ELSE "read"
  /\ UNCHANGED <<huffman, codes, file, traffic>>

ReadDone ==
  /\ pc = "read"
  /\ pos >= Len(file)
  /\ pc' = "serve"
  /\ file' = <<>> /\ pos' = 0
  /\ UNCHANGED <<huffman, codes, seg, bits, tree, traffic>>

\* A payload made by a client with the Huffman program's encoder, or by the
\* server for an answer.
Encode ==
  /\ pc = "serve"
  /\ pc' = "decode"
  /\ \E m \in UNION {[1..n -> Symbols] : n \in 0..MaxMessage} :
       /\ msg' = m
       /\ payload' \in {EncodedByHuffman(m), EncodedByServer(m)}
  /\ UNCHANGED <<huffman, codes, file, dictionary, reply>>

\* Leaving the tree follows a NULL pointer.
Decode ==
  /\ pc = "decode"
  /\ LET end == Decoded(payload)
     IN /\ pc' = IF end.found THEN "decoded" ELSE "crashed"
        /\ reply' = end.out
  /\ payload' = <<>>
  /\ UNCHANGED <<huffman, codes, file, dictionary, msg>>

NextRequest ==
  /\ pc = "decoded"
  /\ pc' = "serve"
  /\ msg' = <<>> /\ reply' = <<>>
  /\ UNCHANGED <<huffman, codes, file, dictionary, payload>>

\* The server goes on with indices it has overwritten, or in memory that is
\* not its own: nothing is said of it any more.
Damaged == pc = "overrun" /\ UNCHANGED vars

Next == \/ Sort \/ Pop \/ Insert \/ WriteDictionary
        \/ ReadSegment \/ ReadDone
        \/ Encode \/ Decode \/ NextRequest \/ Damaged

Spec == Init /\ [][Next]_vars

(***************************************************************************)
(* Properties.                                                             *)
(***************************************************************************)
\* The Huffman program's nodes at hand.
Nodes == ToSet(heap) \cup ToSet(popped)

\* Types: the forest never has more nodes than symbols, and the server's
\* start indices stay within its bit array.
TypeOK ==
  /\ pc \in {"sort", "build", "read", "serve", "decode", "decoded", "crashed",
            "overrun"}
  /\ freq \in [Symbols -> Nat]
  /\ Len(heap) + Len(popped) <= DICT_SIZE
  /\ \A n \in Nodes : n.freq \in Nat /\ DOMAIN n.path \subseteq Symbols
  /\ file \in Seq(Bit) /\ bits \in Seq(Bit) /\ payload \in Seq(Bit)
  /\ Len(seg) <= DICT_SIZE + 1
  /\ \A i \in 1..Len(seg) : seg[i] \in 0..Len(bits)
  /\ \A p \in DOMAIN tree : p \in Seq(Bit) /\ tree[p] \in Symbols \cup {Inner}
  /\ msg \in Seq(Symbols) /\ reply \in Seq(Symbols)

\* While the code is built every symbol is in exactly one tree of the heap or
\* of the nodes taken from it, and the tree weighs what its symbols weigh:
\* neither sinking nor climbing, with the broken end of the climb, loses or
\* doubles a node.
EachSymbolOnce ==
  pc = "build" =>
    LET all == heap \o popped
    IN /\ \A s \in Symbols : Cardinality({i \in DOMAIN all : s \in DOMAIN all[i].path}) = 1
       /\ \A i \in DOMAIN all :
            all[i].freq = FoldFunctionOnSet(+, 0, freq, DOMAIN all[i].path)

\* The code is complete and prefix free: two symbols part at some bit and
\* every infinite sequence of bits begins with a code (equality in Kraft's
\* inequality).  The second half is what makes the misread padding harmless.
CodeIsComplete ==
  pc = "read" =>
    /\ \A s, t \in Symbols : s # t => ~IsPrefix(codes[s], codes[t])
    /\ FoldFunction(LAMBDA c, n : n + 2^(DICT_SIZE - Len(c)), 0, codes) = 2^DICT_SIZE

\* Building the code keeps every symbol and ends in a complete code.
CodeIsSound == TypeOK /\ EachSymbolOnce /\ CodeIsComplete

\* How many bits the codes have together, and how many the padding of the
\* file is misread to have: the low bits of its count are taken for the high
\* bits of a length.
CodeBits == FoldFunction(LAMBDA c, n : n + Len(c), 0, codes)
Misread == LET padding == (-CodeBits) % 8 IN padding * 2^(8 - padding)

\* The server reads the code that was written, for its encoder and for its
\* decoder, although it takes the padding at the end of the file, and
\* whatever memory follows it, for further segments.  It writes behind its
\* bit array only if the codes with such a segment do not fit into it.
ServerReadsTheCode ==
  /\ pc = "serve" =>
       \A s \in Symbols :
         /\ Segment(s) = codes[s]
         /\ codes[s] \in DOMAIN tree /\ tree[codes[s]] = s
         /\ \A p \in DOMAIN tree : IsStrictPrefix(p, codes[s]) => tree[p] = Inner
  /\ pc = "overrun" => CodeBits + Misread > DictBits

\* Decoding what either program encoded gives the message back, the empty
\* message and messages that end on a byte included, and never leaves the
\* tree, if reading the dictionary did not overrun the bit array.
DecodingRestores ==
  /\ pc # "crashed"
  /\ pc = "decoded" => reply = msg

=============================================================================
