-------------------------- MODULE FeedbackScheduler --------------------------
(***************************************************************************)
(* The Stage 1 and Stage 2 dispatchers: main() of their mlq.c with pcb.c,   *)
(* and for Stage 2 the memory of mab.c. They are the forerunners of the     *)
(* Stage 3 dispatcher (SwapScheduler): three ready levels, no swapping, and *)
(* in Stage 1 no memory either. The two loops differ in how jobs arrive and *)
(* are admitted; stage says which program runs. A step of the loop is one   *)
(* action, except that jobs are admitted to memory one at a time.           *)
(***************************************************************************)
EXTENDS MemoryBlocks, FiniteSetsExt

CONSTANTS N,            \* number of lines of the job list
          JobKinds,     \* what a line may say
          Quanta        \* what the user may type for time_quantum

ASSUME FeedbackAssumption ==
  /\ N \in Nat
  /\ JobKinds \subseteq [arrival : Nat, service : Nat \ {0},
                         priority : 0..2, mbytes : Nat \ {0}]
  /\ Quanta \subseteq Nat \ {0}

Jobs == 1..N
NoJob == 0
NoOffset == -1
QueueNames == {"dispatch", "normal", "rt", "L0", "L1", "L2"}

VARIABLES stage,        \* 1 or 2: which dispatcher this is
          job,          \* the job list, in file order
          time_quantum,
          pcb,          \* the mutable fields of each struct pcb
          queue,        \* the queues of main(); Stage 1 has no "dispatch"
          current,      \* current_process
          check,        \* check_job_addmission (Stage 2)
          quantum, timer,
          blocks,       \* the memory (Stage 2)
          finished,     \* n_process, and accumulated finish times less arrivals
                        \* and service times: the total waiting time
          pc

input == <<stage, job, time_quantum>>
vars == <<input, pcb, queue, current, check, quantum, timer, blocks, finished, pc>>

Empty(name) == queue[name] = << >>
Loaded(p) == SelectSeq([j \in Jobs |-> j], LAMBDA j : job[j].priority \in p)

(* Stage 1 sorts the list into two queues and drops a line that has neither *)
(* priority 0 nor 1; Stage 2 keeps every line in one queue.                 *)
Init ==
  /\ stage \in {1, 2}
  /\ job \in [Jobs -> JobKinds]
  /\ time_quantum \in Quanta
  /\ pcb = [j \in Jobs |-> [priority |-> job[j].priority, remaining |-> job[j].service,
                            status |-> "INITIALIZED", block |-> NoOffset]]
  /\ queue = [name \in QueueNames |->
                CASE name = "dispatch" /\ stage = 2 -> Loaded({0, 1, 2})
                  [] name = "rt" /\ stage = 1 -> Loaded({0})
                  [] name = "normal" /\ stage = 1 -> Loaded({1})
                  [] OTHER -> << >>]
  /\ current = NoJob /\ check = FALSE
  /\ quantum = 0 /\ timer = 0
  /\ blocks = WholeMemory
  /\ finished = [n |-> 0, waited |-> 0]
  /\ pc = "unload"

-----------------------------------------------------------------------------
(* The jobs at the head of a queue that have arrived, and those behind the  *)
(* first that has not, whatever their times are.                            *)
Waiting(s) == LET k == SelectInSeq(s, LAMBDA j : job[j].arrival > timer)
              IN  IF k = 0 THEN << >> ELSE SubSeq(s, k, Len(s))
Arrived(s) == SubSeq(s, 1, Len(s) - Len(Waiting(s)))

(* Stage 1: what has arrived is ready.                                      *)
UnloadReady ==
  queue' = [queue EXCEPT !["L0"] = @ \o Arrived(queue["rt"]),
                         !["L1"] = @ \o Arrived(queue["normal"]),
                         !["rt"] = Waiting(@), !["normal"] = Waiting(@)]

\* Looks behind a job that has not arrived yet.
UnloadArrived_all ==
  LET Here(j) == job[j].arrival <= timer
      RealTime(j) == Here(j) /\ pcb[j].priority = 0
      Normal(j) == Here(j) /\ pcb[j].priority # 0
      Later(j) == ~Here(j)
  IN  queue' = [queue EXCEPT !["rt"] = @ \o SelectSeq(queue["dispatch"], RealTime),
                             !["normal"] = @ \o SelectSeq(queue["dispatch"], Normal),
                             !["dispatch"] = SelectSeq(@, Later)]

(* Stage 2: what has arrived waits for memory.                              *)
UnloadArrived ==
  LET RealTime(j) == pcb[j].priority = 0
      Normal(j) == pcb[j].priority # 0
      now == Arrived(queue["dispatch"])
  IN  queue' = [queue EXCEPT !["rt"] = @ \o SelectSeq(now, RealTime),
                             !["normal"] = @ \o SelectSeq(now, Normal),
                             !["dispatch"] = Waiting(@)]

(* The test of the main loop, and the jobs that have arrived.               *)
Unload ==
  /\ pc = "unload"
  /\ IF current = NoJob /\ \A name \in QueueNames : Empty(name)
     THEN pc' = "exit" /\ UNCHANGED <<queue, check>>
     ELSE /\ pc' = "expire" /\ check' = FALSE
          /\ IF stage = 1 THEN UnloadReady ELSE UnloadArrived
  /\ UNCHANGED <<input, pcb, current, quantum, timer, blocks, finished>>

\* Lets a process run on that has nothing left.
Expired_strictly == current # NoJob /\ pcb[current].remaining - quantum < 0

Expired == current # NoJob /\ pcb[current].remaining - quantum <= 0
\* Gives no memory back.
Released_leak == blocks

Released == IF stage = 1 THEN blocks ELSE MemFree(blocks, BlockAt(blocks, pcb[current].block))

(* Terminates the process whose time is up. Stage 2 frees its memory, and   *)
(* admits jobs before it dispatches again.                                  *)
Expire ==
  /\ pc = "expire"
  /\ IF Expired
     THEN /\ pcb' = [pcb EXCEPT ![current].remaining = @ - quantum,
                                ![current].status = "TERMINATED",
                                ![current].block = NoOffset]
          /\ finished' = [n |-> finished.n + 1,
                          waited |-> finished.waited + timer - job[current].arrival
                                     - job[current].service]
          /\ blocks' = Released
          /\ current' = NoJob
          /\ check' = (stage = 2)
     ELSE UNCHANGED <<pcb, finished, blocks, current, check>>
  /\ pc' = IF stage = 1 THEN "charge" ELSE "admitNormal"
  /\ UNCHANGED <<input, queue, quantum, timer>>

-----------------------------------------------------------------------------
(* Stage 2: memory for the head of an arrived queue, real-time jobs first.  *)

Fits(from) == ~Empty(from) /\ MemChk(blocks, job[Head(queue[from])].mbytes) # 0

Admit(from, to, next) ==
  LET j == Head(queue[from])
      k == MemChk(blocks, job[j].mbytes)
  IN  /\ IF Fits(from)
         THEN /\ blocks' = MemAlloc(blocks, k, job[j].mbytes)
              /\ pcb' = [pcb EXCEPT ![j].block = blocks[k].offset]
              /\ queue' = [queue EXCEPT ![from] = Tail(@), ![to] = Append(@, j)]
              /\ UNCHANGED pc
         ELSE pc' = next /\ UNCHANGED <<blocks, pcb, queue>>
      /\ UNCHANGED <<input, current, check, quantum, timer, finished>>

NormalTurn == Empty("rt")

AdmitNormal ==
  /\ pc = "admitNormal"
  /\ IF NormalTurn THEN Admit("normal", "L1", "admitRT")
     ELSE /\ pc' = "admitRT"
          /\ UNCHANGED <<input, pcb, queue, current, check, quantum, timer, blocks, finished>>

AdmitRealTime == pc = "admitRT" /\ Admit("rt", "L0", "charge")

(* Charges the running process for its slice. It gives way to a job of      *)
(* level 0 or 1; a process of level 1 is suspended in any case and falls to *)
(* level 2, at the end; one of level 2 goes back to the front.              *)
Interrupted == ~Empty("L0") \/ ~Empty("L1") \/ pcb[current].priority = 1

Level2 == IF pcb[current].priority = 1 THEN Append(queue["L2"], current)
          ELSE <<current>> \o queue["L2"]

Charge ==
  /\ pc = "charge"
  /\ IF current = NoJob THEN UNCHANGED <<pcb, queue, current>>
     ELSE IF Interrupted
     THEN /\ pcb' = [pcb EXCEPT ![current].remaining = @ - quantum,
                                ![current].status = "SUSPENDED",
                                ![current].priority = IF @ = 1 THEN 2 ELSE @]
          /\ queue' = [queue EXCEPT !["L2"] = Level2]
          /\ current' = NoJob
     ELSE /\ pcb' = [pcb EXCEPT ![current].remaining = @ - quantum]
          /\ UNCHANGED <<queue, current>>
  /\ pc' = "dispatch"
  /\ UNCHANGED <<input, check, quantum, timer, blocks, finished>>

Level == CASE ~Empty("L0") -> "L0"
           [] Empty("L0") /\ ~Empty("L1") -> "L1"
           [] OTHER -> "L2"

(* Starts or resumes the head of the highest level.                         *)
Dispatch ==
  /\ pc = "dispatch"
  /\ IF ~check /\ current = NoJob /\ ~Empty(Level)
     THEN /\ current' = Head(queue[Level])
          /\ queue' = [queue EXCEPT ![Level] = Tail(@)]
          /\ pcb' = [pcb EXCEPT ![Head(queue[Level])].status = "RUNNING"]
     ELSE UNCHANGED <<current, queue, pcb>>
  /\ pc' = "sleep"
  /\ UNCHANGED <<input, check, quantum, timer, blocks, finished>>

\* Stage 2 looks at the queues of Stage 1.
Idle_arrived == ~(Empty("normal") /\ Empty("rt")) /\ \A l \in {"L0", "L1", "L2"} : Empty(l)

(* With nothing to run: a tick while jobs are still to come. In Stage 2 the *)
(* arrived queues must be empty for that, in Stage 1 they are those to come.*)
Idle == IF stage = 1
        THEN ~(Empty("normal") /\ Empty("rt")) /\ \A l \in {"L0", "L1", "L2"} : Empty(l)
        ELSE ~Empty("dispatch") /\ \A l \in QueueNames \ {"dispatch"} : Empty(l)

\* Gives every normal job one tick.
Quantum_tick ==
  CASE current = NoJob -> IF Idle THEN 1 ELSE 0
    [] current # NoJob /\ pcb[current].priority = 0 -> pcb[current].remaining
    [] OTHER -> 1

Quantum ==
  CASE current = NoJob -> IF Idle THEN 1 ELSE 0
    [] current # NoJob /\ pcb[current].priority = 0 -> pcb[current].remaining
    [] current # NoJob /\ pcb[current].priority = 1 -> Min({time_quantum, pcb[current].remaining})
    [] OTHER -> 1

Sleep ==
  /\ pc = "sleep"
  /\ quantum' = Quantum
  /\ timer' = timer + Quantum
  /\ pc' = "unload"
  /\ UNCHANGED <<input, pcb, queue, current, check, blocks, finished>>

Stopped == pc = "exit" /\ UNCHANGED vars

Next == \/ Unload \/ Expire \/ AdmitNormal \/ AdmitRealTime \/ Charge
        \/ Dispatch \/ Sleep \/ Stopped

(* One thread that runs until its loop ends.                                *)
Spec == Init /\ [][Next]_vars /\ WF_vars(Next)

-----------------------------------------------------------------------------
TypeOK ==
  /\ pcb \in [Jobs -> [priority : 0..2, remaining : Nat, block : 0..MemSize-1 \cup {NoOffset},
                       status : {"INITIALIZED", "RUNNING", "SUSPENDED", "TERMINATED"}]]
  /\ queue \in [QueueNames -> Seq(Jobs)]
  /\ current \in Jobs \cup {NoJob}
  /\ {quantum, timer, finished.n, finished.waited} \subseteq Nat
  /\ blocks \in Seq(Block)

Ready == ToSet(queue["L0"]) \cup ToSet(queue["L1"]) \cup ToSet(queue["L2"])
Resident == Ready \cup ({current} \ {NoJob})

(* Stage 2: the allocated blocks are those of the admitted jobs, one each   *)
(* and of its size, and the list is coalesced.                              *)
MemoryIsOwned ==
  stage = 2 =>
    /\ \A k \in 1 .. Len(blocks) - 1 : blocks[k].allocated \/ blocks[k + 1].allocated
    /\ {<<b.offset, b.size>> : b \in {x \in ToSet(blocks) : x.allocated}} =
         {<<pcb[j].block, job[j].mbytes>> : j \in Resident}
    /\ \A i, j \in Resident : i # j => pcb[i].block # pcb[j].block

Class(j) == IF job[j].priority = 0 THEN "rt" ELSE "normal"

(* Jobs of one class start in the order of the job list: no admission,      *)
(* arrival or preemption lets a later one pass.                             *)
StartInListOrder ==
  \A i, j \in Jobs :
     i < j /\ Class(i) = Class(j) /\ pcb[j].status # "INITIALIZED" =>
        pcb[i].status # "INITIALIZED" \/ (stage = 1 /\ job[i].priority = 2)

(* A normal job is not suspended before it has had a full time quantum, and *)
(* a real-time job never; a job that ends has had its service time.         *)
SlicesAreFair ==
  \A j \in Jobs :
     /\ pcb[j].status = "SUSPENDED" =>
          /\ job[j].priority # 0
          /\ job[j].service - pcb[j].remaining >= IF job[j].priority = 1 THEN time_quantum ELSE 1
     /\ pcb[j].status = "TERMINATED" => pcb[j].remaining = 0

(* The queues, the processor and the memory agree.                          *)
JobsAndMemoryAgree == TypeOK /\ MemoryIsOwned

(* Nobody is passed in the order of the list, cut short or served too long. *)
ServiceIsFair == StartInListOrder /\ SlicesAreFair

AllFit == stage = 1 \/ \A j \in Jobs : job[j].mbytes <= MemSize

Done == /\ pc = "exit"
        /\ \A j \in Jobs : pcb[j].status = "TERMINATED" \/ (stage = 1 /\ job[j].priority = 2)

(* If the memory can hold each job, every job that is not dropped at the    *)
(* start is terminated and the loop ends. Otherwise what has been admitted  *)
(* is served, and then Stage 2 stands still for ever behind the job that is *)
(* too large: its loop goes round with a quantum of 0 and does not end.     *)
AllJobsFinish ==
  /\ AllFit => <>Done
  /\ ~AllFit => <>[](/\ pc # "exit" /\ current = NoJob /\ Quantum = 0
                    /\ \E j \in {Head(queue[q]) : q \in {x \in {"normal", "rt"} : ~Empty(x)}} :
                         job[j].mbytes > MemSize)
=============================================================================
