------------------------------ MODULE AtomicMap ------------------------------
(***************************************************************************)
(* A map on which every call takes effect in one step between its          *)
(* beginning and its return: what a hash map that is called thread safe    *)
(* promises.  HashMap implements it.                                       *)
(***************************************************************************)
CONSTANTS Threads, Keys, Values, Nothing

VARIABLES map,      \* the value of each key, Nothing if it has none
          call,     \* each thread's call that has not taken effect yet
          answer    \* what each thread's last get returned

vars == << map, call, answer >>

Idle == [op |-> "none"]

Init == /\ map = [k \in Keys |-> Nothing]
        /\ call = [t \in Threads |-> Idle]
        /\ answer = [t \in Threads |-> Nothing]

Begin(t) ==
  /\ call[t] = Idle
  /\ \E op \in {"put", "remove", "get"}, k \in Keys, v \in Values :
       call' = [call EXCEPT ![t] = [op |-> op, key |-> k, value |-> v]]
  /\ UNCHANGED << map, answer >>

Perform(t) ==
  /\ call[t] # Idle
  /\ call' = [call EXCEPT ![t] = Idle]
  /\ CASE call[t].op = "put" ->
            /\ map' = [map EXCEPT ![call[t].key] = call[t].value]
            /\ UNCHANGED answer
       [] call[t].op = "remove" ->
            /\ map' = [map EXCEPT ![call[t].key] = Nothing]
            /\ UNCHANGED answer
       [] call[t].op = "get" ->
            /\ answer' = [answer EXCEPT ![t] = map[call[t].key]]
            /\ UNCHANGED map

\* The map is destroyed when nobody uses it any more.
Clear == /\ \A t \in Threads : call[t] = Idle
         /\ map' = [k \in Keys |-> Nothing]
         /\ UNCHANGED << call, answer >>

Next == Clear \/ \E t \in Threads : Begin(t) \/ Perform(t)

Spec == Init /\ [][Next]_vars
=============================================================================
