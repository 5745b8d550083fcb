--------------------------- MODULE MCCompression ---------------------------
(* Six symbols: the third level of the heap is in use.  Files with up to   *)
(* three symbols of one frequency, some of them absent, where a new node   *)
(* may be lighter than the root.  Memory of three kinds behind the         *)
(* dictionary, and a bit array that the longer codes overrun.              *)
EXTENDS Compression

MCInputs ==
  {f \in [0..5 -> {0, 1, 3}] :
     /\ \A s \in 0..4 : f[s] <= f[s + 1]
     /\ \A v \in {0, 1, 3} : Cardinality({s \in 0..5 : f[s] = v}) <= 3}

MCTails == {[k \in 1..255 |-> 0], [k \in 1..255 |-> 1], [k \in 1..255 |-> k % 2]}
=============================================================================
