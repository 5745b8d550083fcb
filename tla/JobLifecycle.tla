---------------------------- MODULE JobLifecycle ----------------------------
(***************************************************************************)
(* What the dispatcher promises each job, whatever queues it keeps: the    *)
(* life of a job from the job list to its termination on one processor and *)
(* in one memory.  A real-time job (priority 0) is never interrupted; only *)
(* a job that is not real-time is swapped out, and only for the sake of a  *)
(* real-time job that has arrived; a swapped job comes back when nobody    *)
(* else wants the processor.                                               *)
(***************************************************************************)
EXTENDS Integers, FiniteSetsExt

CONSTANTS Jobs, MemSize

VARIABLES mbytes,     \* memory each job needs
          realTime,   \* the real-time jobs
          phase       \* where each job is in its life

vars == << mbytes, realTime, phase >>

Phases == {"listed", "arrived", "ready", "running", "swapped", "done"}

In(p) == { j \in Jobs : phase[j] = p }

Resident == In("ready") \cup In("running")

Room == MemSize - MapThenSumSet(LAMBDA j : mbytes[j], Resident)

Init == /\ mbytes \in [Jobs -> Nat]
        /\ realTime \in SUBSET Jobs
        /\ phase = [j \in Jobs |-> "listed"]

Move(j, from, to) == /\ phase[j] = from
                     /\ phase' = [phase EXCEPT ![j] = to]
                     /\ UNCHANGED << mbytes, realTime >>

Arrive(j) == Move(j, "listed", "arrived")

Admit(j) == mbytes[j] <= Room /\ Move(j, "arrived", "ready")

Start(j) == In("running") = {} /\ Move(j, "ready", "running")

Preempt(j) == j \notin realTime /\ Move(j, "running", "ready")

SwapOut(j) == /\ j \notin realTime
              /\ \E r \in realTime : phase[r] = "arrived"
              /\ \E p \in {"ready", "running"} : Move(j, p, "swapped")

SwapIn(j) == /\ In("arrived") \cup Resident = {}
             /\ Move(j, "swapped", "running")

Finish(j) == Move(j, "running", "done")

Next == \E j \in Jobs : \/ Arrive(j) \/ Admit(j) \/ Start(j) \/ Preempt(j)
                        \/ SwapOut(j) \/ SwapIn(j) \/ Finish(j)

Spec == Init /\ [][Next]_vars
=============================================================================
