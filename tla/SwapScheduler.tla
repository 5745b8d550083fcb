---------------------------- MODULE SwapScheduler ----------------------------
(***************************************************************************)
(* The Stage 3 dispatcher: main() of mlq.c with the queue helpers of pcb.c *)
(* and the memory of mab.c.  One pass of the main loop (steps i to xi) is  *)
(* cut at the loop's own steps; pc names the step that comes next.  A loop *)
(* inside a step is one action per iteration.                              *)
(*                                                                         *)
(* The dispatcher is the only thread.  What varies is the job list, the    *)
(* time quantum the user types, and with them every order in which jobs    *)
(* arrive, expire, fit and fail to fit.                                    *)
(***************************************************************************)
EXTENDS MemoryBlocks

CONSTANTS N,            \* number of lines of the job list
          JobKinds,     \* what a line may say: [arrival, service, priority, mbytes]
          Quanta        \* what the user may type for time_quantum

ASSUME SchedulerAssumption ==
  /\ N \in Nat
  /\ JobKinds \subseteq [arrival : Nat, service : Nat \ {0},
                         priority : 0..2, mbytes : Nat \ {0}]
  /\ Quanta \subseteq Nat

Jobs == 1..N
NoJob == 0
NoOffset == -1

VARIABLES
  job,              \* the job list, in file order
  time_quantum,
  pcb,              \* the mutable fields of each struct pcb
  queue,            \* the seven queues of main()
  current,          \* current_process
  longest,          \* longest_L2_job
  check,            \* check_job_addmission
  quantum,
  timer,
  blocks,           \* the list that starts at Memory_blocks
  total,            \* n_process and the accumulated_* times
  pc

input  == << job, time_quantum >>
clock  == << quantum, timer >>
vars   == << input, pcb, queue, current, longest, check, clock, blocks, total, pc >>

QueueNames == {"dispatch", "normal", "rt", "L0", "L1", "L2", "swap"}

Init ==
  /\ job \in [Jobs -> JobKinds]
  /\ time_quantum \in Quanta
  /\ pcb = [j \in Jobs |-> [priority  |-> job[j].priority,
                            remaining |-> job[j].service,
                            status    |-> "INITIALIZED",
                            block     |-> NoOffset]]
  /\ queue = [name \in QueueNames |->
                IF name = "dispatch" THEN [j \in Jobs |-> j] ELSE << >>]
  /\ current = NoJob
  /\ longest = NoJob
  /\ check = FALSE
  /\ quantum = 0
  /\ timer = 0
  /\ blocks = WholeMemory
  /\ total = [n |-> 0, arrival |-> 0, service |-> 0, finish |-> 0]
  /\ pc = "loop"

-----------------------------------------------------------------------------
(* pcb.c                                                                   *)

Empty(name) == queue[name] = << >>

First(name) == Head(queue[name])

\* deqPcb of one queue followed by enqPcb on another
MoveHead(from, to) ==
  [queue EXCEPT ![from] = Tail(@), ![to] = Append(@, Head(queue[from]))]

\* The process id: 0 until startPcb forks the process.
Pid(j) == IF pcb[j].status = "INITIALIZED" THEN 0 ELSE j

\* The shortest job.
FindMaxRemainingTime_x(s) ==
  s[CHOOSE i \in DOMAIN s :
      \A k \in DOMAIN s : pcb[s[i]].remaining <= pcb[s[k]].remaining]

\* The first job of s with the longest remaining time.
FindMaxRemainingTime(s) ==
  s[CHOOSE i \in DOMAIN s : \A k \in DOMAIN s :
      /\ pcb[s[k]].remaining <= pcb[s[i]].remaining
      /\ k < i => pcb[s[k]].remaining < pcb[s[i]].remaining]

RemoveSpecificJob(s, target) ==
  LET i == SelectInSeq(s, LAMBDA j : Pid(j) = Pid(target))
  IN  RemoveAt(s, i)

\* Memory is never given back.
Released_leak(o) == blocks

\* The list after memFree of the block at offset o.
Released(o) == MemFree(blocks, BlockAt(blocks, o))

-----------------------------------------------------------------------------
(* Steps i and ii: the loop test; unload the jobs that have arrived        *)

LoopTest ==
  /\ pc = "loop"
  /\ IF current # NoJob \/ \E name \in QueueNames : ~Empty(name)
       THEN pc' = "unload" /\ check' = FALSE
       ELSE pc' = "exit" /\ UNCHANGED check
  /\ UNCHANGED << input, pcb, queue, current, longest, clock, blocks, total >>

\* Unloads a job one tick early.
HeadHasArrived_early ==
  ~Empty("dispatch") /\ job[First("dispatch")].arrival <= timer + 1

HeadHasArrived == ~Empty("dispatch") /\ job[First("dispatch")].arrival <= timer

Unload ==
  /\ pc = "unload"
  /\ HeadHasArrived
  /\ queue' = MoveHead("dispatch", IF pcb[First("dispatch")].priority = 0
                                     THEN "rt" ELSE "normal")
  /\ UNCHANGED << input, pcb, current, longest, check, clock, blocks, total, pc >>

UnloadDone ==
  /\ pc = "unload"
  /\ ~HeadHasArrived
  /\ pc' = "expire"
  /\ UNCHANGED << input, pcb, queue, current, longest, check, clock, blocks, total >>

-----------------------------------------------------------------------------
(* Step iii: terminate the running process if its time is up               *)

Expired == current # NoJob /\ pcb[current].remaining - quantum <= 0

Terminate ==
  /\ pc = "expire"
  /\ Expired
  /\ pcb' = [pcb EXCEPT ![current].remaining = @ - quantum,
                        ![current].status = "TERMINATED",
                        ![current].block = NoOffset]
  /\ total' = [n       |-> total.n + 1,
               arrival |-> total.arrival + job[current].arrival,
               service |-> total.service + job[current].service,
               finish  |-> total.finish + timer]
  /\ blocks' = Released(pcb[current].block)
  /\ current' = NoJob
  /\ check' = TRUE
  /\ pc' = "admitNormal"
  /\ UNCHANGED << input, queue, longest, clock >>

NotExpired ==
  /\ pc = "expire"
  /\ ~Expired
  /\ pc' = "admitNormal"
  /\ UNCHANGED << input, pcb, queue, current, longest, check, clock, blocks, total >>

-----------------------------------------------------------------------------
(* Steps iv.a and vi: admission.  The head of an arrived queue that fits   *)
(* gets its memory and moves to a ready queue.                             *)

Fits(j) == MemChk(blocks, job[j].mbytes) # 0

Admit(from, to) ==
  LET j == First(from)
      k == MemChk(blocks, job[j].mbytes)
  IN  /\ blocks' = MemAlloc(blocks, k, job[j].mbytes)
      /\ pcb' = [pcb EXCEPT ![j].block = blocks[k].offset]
      /\ queue' = MoveHead(from, to)

\* Holds new jobs back while some job is swapped out.
CanAdmitNormal_held ==
  /\ Empty("rt") /\ ~Empty("normal") /\ Fits(First("normal"))
  /\ Empty("swap")

CanAdmitNormal == Empty("rt") /\ ~Empty("normal") /\ Fits(First("normal"))

AdmitNormal ==
  /\ pc = "admitNormal"
  /\ CanAdmitNormal
  /\ Admit("normal", "L1")
  /\ UNCHANGED << input, current, longest, check, clock, total, pc >>

AdmitNormalDone ==
  /\ pc = "admitNormal"
  /\ ~CanAdmitNormal
  /\ pc' = "choose"
  /\ UNCHANGED << input, pcb, queue, current, longest, check, clock, blocks, total >>

CanAdmitRealTime == ~Empty("rt") /\ Fits(First("rt"))

AdmitRealTime ==
  /\ pc = "admitRT"
  /\ CanAdmitRealTime
  /\ Admit("rt", "L0")
  /\ UNCHANGED << input, current, longest, check, clock, total, pc >>

AdmitRealTimeDone ==
  /\ pc = "admitRT"
  /\ ~CanAdmitRealTime
  /\ pc' = "charge"
  /\ UNCHANGED << input, pcb, queue, current, longest, check, clock, blocks, total >>

-----------------------------------------------------------------------------
(* Steps iv.b and v: make room for a blocked real-time job                 *)

RunningLevel2 == current # NoJob /\ pcb[current].priority = 2

\* The job to swap out: the longest of level 2, the running one included.
LongestLevel2 ==
  IF Empty("L2") THEN current
  ELSE LET l == FindMaxRemainingTime(queue["L2"])
       IN  IF RunningLevel2 /\ pcb[l].remaining < pcb[current].remaining
             THEN current ELSE l

ChooseVictim ==
  /\ pc = "choose"
  /\ LET k == IF Empty("rt") THEN 0
              ELSE MemChk(blocks, job[First("rt")].mbytes)
     IN  /\ blocks' = IF k = 0 THEN blocks
                      ELSE MemFree(MemAlloc(blocks, k, job[First("rt")].mbytes), k)
         /\ longest' = IF /\ ~Empty("rt")
                          /\ k = 0
                          /\ ~Empty("L2") \/ RunningLevel2
                         THEN LongestLevel2 ELSE longest
  /\ pc' = "swapOut"
  /\ UNCHANGED << input, pcb, queue, current, check, clock, total >>

RunningIsVictim == current # NoJob /\ Pid(longest) = Pid(current)

\* A victim from the level 2 queue stays queued there.
Level2Left_all == queue["L2"]

Level2Left == RemoveSpecificJob(queue["L2"], longest)

SwapOut ==
  /\ pc = "swapOut"
  /\ longest # NoJob
  /\ IF RunningIsVictim
       THEN /\ pcb' = [pcb EXCEPT ![current].remaining = @ - quantum,
                                  ![current].status = "SUSPENDED",
                                  ![current].block = NoOffset]
            /\ current' = NoJob
            /\ queue' = [queue EXCEPT !["swap"] = Append(@, longest)]
       ELSE /\ pcb' = [pcb EXCEPT ![longest].block = NoOffset]
            /\ queue' = [queue EXCEPT !["L2"] = Level2Left,
                                      !["swap"] = Append(@, longest)]
            /\ UNCHANGED current
  /\ blocks' = Released(pcb[longest].block)
  /\ longest' = NoJob
  /\ pc' = "admitRT"
  /\ UNCHANGED << input, check, clock, total >>

NoSwapOut ==
  /\ pc = "swapOut"
  /\ longest = NoJob
  /\ pc' = "admitRT"
  /\ UNCHANGED << input, pcb, queue, current, longest, check, clock, blocks, total >>

-----------------------------------------------------------------------------
(* Step vii: charge the running process; preempt or demote it              *)

\* Level 0 is forgotten.
SomeoneIsWaiting_L1 == ~Empty("L1")

SomeoneIsWaiting == ~Empty("L0") \/ ~Empty("L1")

\* A job falls by one level whenever it is suspended.
Suspended_falls ==
  [pcb EXCEPT ![current].remaining = @ - quantum,
              ![current].status = "SUSPENDED",
              ![current].priority = @ + 1]

\* pcb after the running process has been charged and suspended; one of level 1
\* falls to level 2
Suspended ==
  [pcb EXCEPT ![current].remaining = @ - quantum,
              ![current].status = "SUSPENDED",
              ![current].priority = IF @ = 1 THEN 2 ELSE @]

NothingToCharge ==
  /\ pc = "charge"
  /\ current = NoJob
  /\ pc' = "dispatch"
  /\ UNCHANGED << input, pcb, queue, current, longest, check, clock, blocks, total >>

Preempt ==
  /\ pc = "charge"
  /\ current # NoJob
  /\ SomeoneIsWaiting
  /\ pcb' = Suspended
  /\ queue' = [queue EXCEPT !["L2"] = IF pcb[current].priority = 1
                                        THEN Append(@, current)
                                        ELSE Cons(current, @)]
  /\ current' = NoJob
  /\ pc' = "dispatch"
  /\ UNCHANGED << input, longest, check, clock, blocks, total >>

Demote ==
  /\ pc = "charge"
  /\ current # NoJob
  /\ ~SomeoneIsWaiting
  /\ pcb[current].priority = 1
  /\ pcb' = Suspended
  /\ queue' = [queue EXCEPT !["L2"] = Append(@, current)]
  /\ current' = NoJob
  /\ check' = TRUE
  /\ pc' = "dispatch"
  /\ UNCHANGED << input, longest, clock, blocks, total >>

KeepRunning ==
  /\ pc = "charge"
  /\ current # NoJob
  /\ ~SomeoneIsWaiting
  /\ pcb[current].priority # 1
  /\ pcb' = [pcb EXCEPT ![current].remaining = @ - quantum]
  /\ pc' = "dispatch"
  /\ UNCHANGED << input, queue, current, longest, check, clock, blocks, total >>

-----------------------------------------------------------------------------
(* Step viii: start the next process                                       *)

ReadyToRun == \E name \in {"L0", "L1", "L2", "swap"} : ~Empty(name)

MustDispatch == ~check /\ current = NoJob /\ ReadyToRun

NoDispatch ==
  /\ pc = "dispatch"
  /\ ~MustDispatch
  /\ pc' = "sleep"
  /\ UNCHANGED << input, pcb, queue, current, longest, check, clock, blocks, total >>

\* the level to serve, highest first
ReadyLevel == CASE ~Empty("L0") -> "L0"
                [] Empty("L0") /\ ~Empty("L1") -> "L1"
                [] OTHER -> "L2"

DispatchReady ==
  /\ pc = "dispatch"
  /\ MustDispatch
  /\ \E name \in {"L0", "L1", "L2"} : ~Empty(name)
  /\ current' = First(ReadyLevel)
  /\ queue' = [queue EXCEPT ![ReadyLevel] = Tail(@)]
  /\ pcb' = [pcb EXCEPT ![First(ReadyLevel)].status = "RUNNING"]
  /\ pc' = "sleep"
  /\ UNCHANGED << input, longest, check, clock, blocks, total >>

OnlySwapLeft == /\ MustDispatch
                /\ \A name \in {"L0", "L1", "L2"} : Empty(name)

NothingArrived == Empty("normal") /\ Empty("rt")

\* No successor where assert(m != NULL) would fail: SwapInIsSafe, and TLC's
\* deadlock check, say that this never happens.
DispatchSwapped ==
  /\ pc = "dispatch"
  /\ OnlySwapLeft
  /\ NothingArrived
  /\ LET j == First("swap")
         k == MemChk(blocks, job[j].mbytes)
     IN  /\ k # 0
         /\ blocks' = MemAlloc(blocks, k, job[j].mbytes)
         /\ current' = j
         /\ queue' = [queue EXCEPT !["swap"] = Tail(@)]
         /\ pcb' = [pcb EXCEPT ![j].block = blocks[k].offset,
                               ![j].status = "RUNNING"]
  /\ pc' = "sleep"
  /\ UNCHANGED << input, longest, check, clock, total >>

\* current_process is still NULL when its status is read
DispatchNothing ==
  /\ pc = "dispatch"
  /\ OnlySwapLeft
  /\ ~NothingArrived
  /\ pc' = "segfault"
  /\ UNCHANGED << input, pcb, queue, current, longest, check, clock, blocks, total >>

-----------------------------------------------------------------------------
(* Steps ix to xi: the quantum, the sleep and the clock                    *)

Idle == /\ current = NoJob
        /\ ~Empty("dispatch")
        /\ \A name \in {"normal", "rt", "L0", "L1", "L2"} : Empty(name)

\* A real-time job is cut into slices too.
RealTimeSlice_cut == Min({time_quantum, pcb[current].remaining})

RealTimeSlice == pcb[current].remaining

\* The last slice is not shortened.
Level1Slice_full == time_quantum

Level1Slice == Min({time_quantum, pcb[current].remaining})

\* The clock stands still in an empty system.
IdleTick_none == 0

IdleTick == IF Idle THEN 1 ELSE 0

Quantum ==
  CASE current # NoJob /\ pcb[current].priority = 0 -> RealTimeSlice
    [] current # NoJob /\ pcb[current].priority = 1 -> Level1Slice
    [] current # NoJob /\ pcb[current].priority = 2 -> 1
    [] current = NoJob -> IdleTick

Sleep ==
  /\ pc = "sleep"
  /\ quantum' = Quantum
  /\ timer' = timer + Quantum
  /\ pc' = "loop"
  /\ UNCHANGED << input, pcb, queue, current, longest, check, blocks, total >>

\* main() has left its loop; the process exits or has died.
Stopped == /\ pc \in {"exit", "segfault"}
           /\ UNCHANGED vars

Next == \/ LoopTest \/ Unload \/ UnloadDone
        \/ Terminate \/ NotExpired
        \/ AdmitNormal \/ AdmitNormalDone \/ ChooseVictim
        \/ SwapOut \/ NoSwapOut
        \/ AdmitRealTime \/ AdmitRealTimeDone
        \/ NothingToCharge \/ Preempt \/ Demote \/ KeepRunning
        \/ NoDispatch \/ DispatchReady \/ DispatchSwapped
        \/ DispatchNothing
        \/ Sleep \/ Stopped

Spec == Init /\ [][Next]_vars

\* One thread that runs until its loop ends.
FairSpec == Spec /\ WF_vars(Next)

-----------------------------------------------------------------------------
(* Properties                                                              *)

\* Every field of the dispatcher's state is what its C type and the enumeration
\* of statuses allow, and pc is a step of the loop.
TypeOK ==
  /\ pcb \in [Jobs -> [priority  : 0..2,
                       remaining : Int,
                       status    : {"INITIALIZED", "RUNNING", "SUSPENDED", "TERMINATED"},
                       block     : 0..MemSize-1 \cup {NoOffset}]]
  /\ queue \in [QueueNames -> Seq(Jobs)]
  /\ {current, longest} \subseteq Jobs \cup {NoJob}
  /\ check \in BOOLEAN
  /\ {quantum, timer, total.n, total.arrival, total.service, total.finish} \subseteq Nat
  /\ blocks \in Seq(Block)
  /\ pc \in {"loop", "unload", "expire", "admitNormal", "choose", "swapOut",
             "admitRT", "charge", "dispatch", "sleep", "exit", "segfault"}

Ready == ToSet(queue["L0"]) \cup ToSet(queue["L1"]) \cup ToSet(queue["L2"])

\* The jobs that have been admitted and neither finished nor been swapped out
Resident == Ready \cup ({current} \ {NoJob})

\* Whatever is admitted, preempted, swapped out, swapped in and terminated in
\* between, the allocated blocks are exactly those of the resident jobs, each
\* of its job's size and no block shared: no leak, no block freed under a job.
MemoryIsOwned ==
  /\ Tiles(blocks) /\ Coalesced(blocks)
  /\ UsedIntervals(blocks) =
       { [offset |-> pcb[j].block, size |-> job[j].mbytes] : j \in Resident }
  /\ \A i, j \in Resident : i # j => pcb[i].block # pcb[j].block

\* No job is lost or queued twice by the many moves between seven queues and the
\* running slot: until it terminates a job is in exactly one place.
EachJobInOnePlace ==
  \A j \in Jobs :
    LET places == { p \in QueueNames \X Jobs :
                      p[2] \in DOMAIN queue[p[1]] /\ queue[p[1]][p[2]] = j }
    IN  Cardinality(places) + (IF current = j THEN 1 ELSE 0) =
          IF pcb[j].status = "TERMINATED" THEN 0 ELSE 1

\* The queues and the memory agree: what is admitted holds its block until it
\* terminates or is swapped out, whatever queue it moves to.
JobsAndMemoryAgree == MemoryIsOwned /\ EachJobInOnePlace

\* What a job still needs, the slice it is running in deducted
TimeLeft(j) == pcb[j].remaining - (IF j = current THEN quantum ELSE 0)

\* README: "for swapping we select one which has the longest remaining execution
\* time".  The comparison uses the remaining time of the running job before its
\* current slice is charged; the choice is right all the same.
VictimIsLongest ==
  [][SwapOut =>
       /\ pcb[longest].priority = 2
       /\ \A j \in ToSet(queue["L2"])
                 \cup (IF RunningLevel2 THEN {current} ELSE {}) :
            TimeLeft(j) <= TimeLeft(longest)]_vars

\* The clock never advances while a job of a level is ready and one of a lower
\* level, or nobody, has the processor.  (A job that the list gives priority 2
\* enters at level 1 and is served from there.)
HigherLevelFirst ==
  [][Sleep /\ timer' > timer =>
       /\ ~Empty("L0") => current # NoJob /\ pcb[current].priority = 0
       /\ ~Empty("L1") => /\ current # NoJob
                          /\ pcb[current].priority < 2 \/ job[current].priority = 2
       /\ ~Empty("L2") => current # NoJob]_vars

\* Slices, demotions, preemptions and swaps charge a job for exactly its service
\* time by the time it is terminated, and the numbers behind the averages that
\* main() prints add up: no job finishes before its arrival plus its service time.
AccountingIsExact ==
  /\ \A j \in Jobs : pcb[j].status = "TERMINATED" => pcb[j].remaining = 0
  /\ total.finish >= total.arrival + total.service

\* Step viii: when only swapped jobs are left to run, the first one fits (otherwise
\* assert(m != NULL) aborts), and nothing is left in the arrived queues (otherwise
\* current_process is NULL when it is dereferenced) but for a job that the whole
\* memory cannot hold.
SwapInIsSafe ==
  pc = "dispatch" /\ OnlySwapLeft =>
    /\ Fits(First("swap"))
    /\ \/ NothingArrived
       \/ \E name \in {"normal", "rt"} :
            ~Empty(name) /\ job[First(name)].mbytes > MemSize

\* If the memory can hold every job of the list, the dispatcher comes to its end with
\* all of them terminated: no job starves in the swap queue, waits for memory for
\* ever or is forgotten.
AllJobsFinish ==
  (\A j \in Jobs : job[j].mbytes <= MemSize) => <>(pc = "exit" /\ total.n = N)

PhaseOf(j) ==
  CASE j = current -> "running"
    [] j \in Ready -> "ready"
    [] j \in ToSet(queue["swap"]) -> "swapped"
    [] j \in ToSet(queue["normal"]) \cup ToSet(queue["rt"]) -> "arrived"
    [] j \in ToSet(queue["dispatch"]) -> "listed"
    [] OTHER -> "done"

\* The dispatcher implements the life of a job that JobLifecycle describes: one
\* processor, memory never overcommitted, real-time jobs never interrupted or
\* swapped out, swaps only for a blocked real-time job.
Lifecycle == INSTANCE JobLifecycle
               WITH mbytes   <- [j \in Jobs |-> job[j].mbytes],
                    realTime <- { j \in Jobs : job[j].priority = 0 },
                    phase    <- [j \in Jobs |-> PhaseOf(j)]
ImplementsLifecycle == Lifecycle!Spec

=============================================================================
