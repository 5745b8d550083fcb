------------------------------ MODULE MCComms ------------------------------
(* A small instance of Comms: two storages with room for two values.        *)
EXTENDS Comms
MCValues == {1, 2}
=============================================================================
