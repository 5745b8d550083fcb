------------------------------- MODULE LabRoom -------------------------------
(***************************************************************************)
(* The group lab exercise as its README describes it, without locks,       *)
(* condition variables or flags: the teacher puts the students into groups *)
(* of K, calls the groups one after the other, and calls the next one only *)
(* when everybody of the current one has left.  LabExercise implements it. *)
(***************************************************************************)
EXTENDS Integers, FiniteSets

CONSTANTS Students, K

VARIABLES group,     \* group of each student, 0 before it has one
          called,    \* group called last, 0 before the first call
          place      \* "outside", "inside" or "left"

vars == << group, called, place >>

Grouped == { s \in Students : group[s] # 0 }

Members(g) == { s \in Students : group[s] = g }

Init == /\ group = [s \in Students |-> 0]
        /\ called = 0
        /\ place = [s \in Students |-> "outside"]

Assign(s) == /\ group[s] = 0
             /\ group' = [group EXCEPT ![s] = Cardinality(Grouped) \div K + 1]
             /\ UNCHANGED << called, place >>

Call == /\ Grouped = Students
        /\ Members(called + 1) # {}
        /\ \A s \in Members(called) : place[s] = "left"
        /\ called' = called + 1
        /\ UNCHANGED << group, place >>

Enter(s) == /\ group[s] = called /\ called # 0
            /\ place[s] = "outside"
            /\ place' = [place EXCEPT ![s] = "inside"]
            /\ UNCHANGED << group, called >>

Leave(s) == /\ place[s] = "inside"
            /\ place' = [place EXCEPT ![s] = "left"]
            /\ UNCHANGED << group, called >>

\* A student who comes when the exercise is already over
Pass(s) == /\ group[s] = called /\ called # 0
           /\ place[s] = "outside"
           /\ place' = [place EXCEPT ![s] = "left"]
           /\ UNCHANGED << group, called >>

Next == \/ Call
        \/ \E s \in Students : Assign(s) \/ Enter(s) \/ Leave(s) \/ Pass(s)

Spec == Init /\ [][Next]_vars
=============================================================================
