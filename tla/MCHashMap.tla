------------------------------ MODULE MCHashMap ------------------------------
(***************************************************************************)
(* HashMap with two threads and a few keys.  size_t has five bits and int  *)
(* three, so that hash values do not fit into an int and are negative in   *)
(* it.                                                                     *)
(***************************************************************************)
EXTENDS HashMap

CONSTANTS t1, t2, k1, k2

\* The keys share a bucket out of two, but not one out of four.
MCHash == (k1 :> 5) @@ (k2 :> 15)

MCMixes == { {"put", "get"}, {"put", "remove"}, {"put", "remove", "get"} }
=============================================================================
