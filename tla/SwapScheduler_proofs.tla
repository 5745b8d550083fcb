------------------------- MODULE SwapScheduler_proofs -------------------------
(***************************************************************************)
(* Proofs about the Stage 3 dispatcher: where each job is, who owns which  *)
(* block of the memory, how slices are charged, whom a swap puts out and   *)
(* what fits when only swapped jobs are left.                              *)
(***************************************************************************)
EXTENDS SwapScheduler, MemoryBlocks_proofs, FiniteSetTheorems

-----------------------------------------------------------------------------
(* Where the jobs are                                                      *)

Places == QueueNames \cup {"cpu", "gone"}

\* The jobs at each place, for queues q, running process c and process blocks r
WhereOf(q, c, r) ==
  [p \in Places |-> IF p = "cpu" THEN {c} \ {NoJob}
                    ELSE IF p = "gone" THEN { j \in Jobs : r[j].status = "TERMINATED" }
                    ELSE ToSet(q[p])]

Where == WhereOf(queue, current, pcb)

\* Every job is at one place.
Apart(W) == /\ \A p \in Places : W[p] \subseteq Jobs
            /\ \A j \in Jobs : \E p \in Places : \A q \in Places : j \in W[q] <=> q = p

Queues(q) == q \in [QueueNames -> Seq(Jobs)] /\ \A n \in QueueNames : NoRepeats(q[n])

\* The queue t is s without job j, u is s with it, and r and r2 agree on who has ended.
Without(t, s, j) == /\ t \in Seq(Jobs) /\ NoRepeats(t)
                    /\ \A x : x \in ToSet(t) <=> x \in ToSet(s) /\ x # j

With(u, s, j) == /\ u \in Seq(Jobs) /\ NoRepeats(u)
                 /\ \A x : x \in ToSet(u) <=> x \in ToSet(s) \/ x = j

SameEnded(r, r2) ==
  \A i \in Jobs : r2[i].status = "TERMINATED" <=> r[i].status = "TERMINATED"

Replaced(q, n, s) == [q EXCEPT ![n] = s]

\* V is W but for j, which is at p.
MovedTo(W, V, j, p) ==
  \A q \in Places : \A i : i \in V[q] <=> IF i = j THEN q = p ELSE i \in W[q]

\* What the place p of a job tells about its process block r, w being its line in the
\* job list
Suits(p, w, r) ==
  /\ p \in {"dispatch", "normal", "rt", "L0", "L1"} => r.status = "INITIALIZED"
  /\ p = "cpu" => r.status = "RUNNING"
  /\ p \in {"L2", "swap"} => r.status = "SUSPENDED" /\ r.priority = 2
  /\ p = "gone" <=> r.status = "TERMINATED"
  /\ p \in {"rt", "L0"} => r.priority = 0
  /\ p \in {"normal", "L1"} => r.priority # 0
  /\ r.status = "INITIALIZED" => r.priority = w.priority /\ r.remaining = w.service
  /\ r.priority = 0 <=> w.priority = 0
  /\ p \in {"L0", "L1", "L2", "swap", "cpu"} => w.mbytes <= MemSize
  /\ IF p = "gone" THEN r.remaining = 0 ELSE r.remaining > 0

Suited(W, w, r) == \A p \in Places : \A j \in W[p] : Suits(p, w[j], r[j])

Placed == Queues(queue) /\ Apart(Where) /\ Suited(Where, job, pcb)

\* A step takes job j to place p and leaves everybody else where they are.
Moves(j, p) == MovedTo(WhereOf(queue, current, pcb), WhereOf(queue', current', pcb'), j, p)

\* Who is at each place
LEMMA WhereMembers ==
  ASSUME NEW q, NEW c, NEW r
  PROVE  /\ \A n \in QueueNames : n \in Places /\ WhereOf(q, c, r)[n] = ToSet(q[n])
         /\ "cpu" \in Places /\ "gone" \in Places
         /\ "cpu" \notin QueueNames /\ "gone" \notin QueueNames
         /\ \A j : j \in WhereOf(q, c, r)["cpu"] <=> j = c /\ j # NoJob
         /\ \A j : j \in WhereOf(q, c, r)["gone"] <=>
                     j \in Jobs /\ r[j].status = "TERMINATED"
  <1>1. \A n \in QueueNames : n # "cpu" /\ n # "gone" /\ n \in Places
    BY DEF QueueNames, Places
  <1>2. "cpu" \in Places /\ "gone" \in Places /\ "gone" # "cpu"
    BY DEF Places
  <1>3. QED
    BY <1>1, <1>2 DEF WhereOf

\* A job that changes its place leaves everybody else where they are.
LEMMA MoveKeepsOrder ==
  ASSUME NEW W, Apart(W), NEW V, NEW j, j \in Jobs, NEW p, p \in Places, MovedTo(W, V, j, p),
         NEW w, NEW r, Suited(W, w, r), NEW s, \A i \in Jobs : i # j => s[i] = r[i],
         Suits(p, w[j], s[j])
  PROVE  Apart(V) /\ Suited(V, w, s)
  <1>1. \A q \in Places : V[q] \subseteq Jobs
    BY DEF Apart, MovedTo
  <1>2. \A i \in Jobs : \E q \in Places : \A m \in Places : i \in V[m] <=> m = q
    BY DEF Apart, MovedTo
  <1>3. ASSUME NEW q \in Places, NEW i \in V[q] PROVE Suits(q, w[i], s[i])
    <2>1. CASE i = j
      BY <1>3, <2>1 DEF MovedTo
    <2>2. CASE i # j
      <3>1. i \in W[q] /\ i \in Jobs
        BY <1>1, <2>2 DEF MovedTo
      <3>2. QED
        BY <2>2, <3>1 DEF Suited
    <2>3. QED
      BY <2>1, <2>2
  <1>4. QED
    BY <1>1, <1>2, <1>3 DEF Apart, Suited

\* A step is such a move if it changes queues, processor and statuses accordingly.
LEMMA MoveOfParts ==
  ASSUME NEW q, NEW c, NEW r, NEW q2, NEW c2, NEW r2, NEW j, NEW p,
         \A n \in QueueNames : \A i : i \in ToSet(q2[n]) <=> IF i = j THEN n = p
                                                             ELSE i \in ToSet(q[n]),
         \A i : i = c2 /\ i # NoJob <=> IF i = j THEN p = "cpu" ELSE i = c /\ i # NoJob,
         \A i : i \in Jobs /\ r2[i].status = "TERMINATED" <=>
                  IF i = j THEN p = "gone" ELSE i \in Jobs /\ r[i].status = "TERMINATED"
  PROVE  MovedTo(WhereOf(q, c, r), WhereOf(q2, c2, r2), j, p)
  <1>1. \A m \in Places : m \in QueueNames \/ m = "cpu" \/ m = "gone"
    BY DEF Places
  <1>2. QED
    BY <1>1, WhereMembers DEF MovedTo

\* Nobody is at two places.
LEMMA OnePlace ==
  ASSUME NEW W, Apart(W), NEW j, NEW p, p \in Places, j \in W[p]
  PROVE  j \in Jobs /\ \A q \in Places : j \in W[q] <=> q = p
  BY DEF Apart

\* A job is in the place where a sequence shows it to be.
LEMMA QueuePlace ==
  ASSUME NEW q, NEW c, NEW r, Apart(WhereOf(q, c, r)),
         NEW n, n \in QueueNames, NEW j, j \in ToSet(q[n])
  PROVE  /\ j \in Jobs /\ j # c /\ r[j].status # "TERMINATED"
         /\ j \in WhereOf(q, c, r)[n]
         /\ \A m \in QueueNames : j \in ToSet(q[m]) <=> m = n
  <1>1. n \in Places /\ j \in WhereOf(q, c, r)[n]
    BY WhereMembers
  <1>2. j \in Jobs /\ \A m \in Places : j \in WhereOf(q, c, r)[m] <=> m = n
    BY <1>1, OnePlace
  <1>3. j \notin WhereOf(q, c, r)["cpu"] /\ j \notin WhereOf(q, c, r)["gone"]
    BY <1>2, WhereMembers
  <1>4. j # NoJob
    BY <1>2 DEF Jobs, NoJob
  <1>5. QED
    BY <1>1, <1>2, <1>3, <1>4, WhereMembers

\* The running process is in no queue.
LEMMA RunningPlace ==
  ASSUME NEW q, NEW c, NEW r, Apart(WhereOf(q, c, r)), c # NoJob
  PROVE  /\ c \in Jobs /\ r[c].status # "TERMINATED" /\ c \in WhereOf(q, c, r)["cpu"]
         /\ \A m \in QueueNames : c \notin ToSet(q[m])
  <1>1. c \in WhereOf(q, c, r)["cpu"] /\ "cpu" \in Places
    BY WhereMembers
  <1>2. c \in Jobs /\ \A m \in Places : c \in WhereOf(q, c, r)[m] <=> m = "cpu"
    BY <1>1, OnePlace
  <1>3. c \notin WhereOf(q, c, r)["gone"] /\ \A m \in QueueNames : c \notin WhereOf(q, c, r)[m]
    BY <1>2, WhereMembers
  <1>4. QED
    BY <1>1, <1>2, <1>3, WhereMembers

\* A job leaves one queue, of which t is left, and goes to the end of another.
LEMMA OneMoves ==
  ASSUME NEW q, Queues(q), NEW c, NEW r, Apart(WhereOf(q, c, r)),
         NEW from, from \in QueueNames, NEW to, to \in QueueNames, from # to,
         NEW j, j \in ToSet(q[from]), NEW t, Without(t, q[from], j),
         NEW q2, q2 = Replaced(Replaced(q, from, t), to, Append(q[to], j)),
         NEW r2, SameEnded(r, r2)
  PROVE  /\ Queues(q2) /\ j \in Jobs /\ j \in WhereOf(q, c, r)[from]
         /\ \A n \in QueueNames : n # from /\ n # to => q2[n] = q[n]
         /\ MovedTo(WhereOf(q, c, r), WhereOf(q2, c, r2), j, to)
  <1> DEFINE w == q[to]
             a == Append(w, j)
  <1>1. w \in Seq(Jobs) /\ NoRepeats(w)
    BY DEF Queues
  <1>2. /\ j # c /\ r[j].status # "TERMINATED" /\ j \in WhereOf(q, c, r)[from] /\ j \in Jobs
        /\ \A m \in QueueNames : j \in ToSet(q[m]) <=> m = from
    BY QueuePlace
  <1>3. j \notin ToSet(w)
    BY <1>2
  <1>4. q2 = [[q EXCEPT ![from] = t] EXCEPT ![to] = a]
    BY DEF Replaced
  <1> HIDE DEF w
  <1>5. /\ a \in Seq(Jobs) /\ NoRepeats(a)
        /\ \A x : x \in ToSet(a) <=> x \in ToSet(w) \/ x = j
    <2>1. j \in Jobs
      BY <1>2
    <2>2. QED
      BY <1>1, <1>3, <2>1, JoinsAtEnd
  <1> HIDE DEF a
  <1>6. /\ Queues(q2) /\ q2[to] = a /\ q2[from] = t
        /\ \A m \in QueueNames : m # to /\ m # from => q2[m] = q[m]
    BY <1>4, <1>5 DEF Queues, Without
  <1>7. ASSUME NEW n \in QueueNames, NEW i
        PROVE  i \in ToSet(q2[n]) <=> IF i = j THEN n = to ELSE i \in ToSet(q[n])
    <2>1. CASE n = to
      BY <1>5, <1>6, <2>1 DEF w
    <2>2. CASE n = from
      BY <1>6, <2>2 DEF Without
    <2>3. CASE n # to /\ n # from
      BY <1>2, <1>6, <2>3
    <2>4. QED
      BY <2>1, <2>2, <2>3
  <1>8. to # "cpu" /\ to # "gone"
    BY DEF QueueNames
  <1>9. MovedTo(WhereOf(q, c, r), WhereOf(q2, c, r2), j, to)
    <2>1. \A i : i = c /\ i # NoJob <=> IF i = j THEN to = "cpu" ELSE i = c /\ i # NoJob
      BY <1>2, <1>8
    <2>2. \A i : i \in Jobs /\ r2[i].status = "TERMINATED" <=>
                   IF i = j THEN to = "gone" ELSE i \in Jobs /\ r[i].status = "TERMINATED"
      BY <1>2, <1>8 DEF SameEnded
    <2>3. QED
      BY <1>7, <2>1, <2>2, MoveOfParts
  <1>10. QED
    BY <1>2, <1>6, <1>9

\* MoveHead: the head of one queue goes to the end of another.
LEMMA HeadMoves ==
  ASSUME NEW q, Queues(q), NEW c, NEW r, Apart(WhereOf(q, c, r)),
         NEW from, from \in QueueNames, NEW to, to \in QueueNames, from # to,
         q[from] # << >>, NEW j, j = Head(q[from]),
         NEW q2, q2 = Replaced(Replaced(q, from, Tail(q[from])), to, Append(q[to], j)),
         NEW r2, SameEnded(r, r2)
  PROVE  /\ Queues(q2) /\ j \in Jobs /\ j \in WhereOf(q, c, r)[from]
         /\ \A n \in QueueNames : n # from /\ n # to => q2[n] = q[n]
         /\ MovedTo(WhereOf(q, c, r), WhereOf(q2, c, r2), j, to)
  <1> DEFINE t == Tail(q[from])
  <1>1. q[from] \in Seq(Jobs) /\ NoRepeats(q[from])
    BY DEF Queues
  <1>2. j \in ToSet(q[from]) /\ Without(t, q[from], j)
    BY <1>1, HeadLeaves DEF Without
  <1>3. q2 = Replaced(Replaced(q, from, t), to, Append(q[to], j))
    OBVIOUS
  <1> HIDE DEF t
  <1>4. QED
    BY <1>2, <1>3, OneMoves

\* The head of a queue gets the processor.
LEMMA HeadStarts ==
  ASSUME NEW q, Queues(q), NEW c, c = NoJob, NEW r, Apart(WhereOf(q, c, r)),
         NEW from, from \in QueueNames, q[from] # << >>, NEW j, j = Head(q[from]),
         NEW q2, q2 = Replaced(q, from, Tail(q[from])),
         NEW r2, SameEnded(r, r2)
  PROVE  /\ Queues(q2) /\ j \in Jobs /\ j \in WhereOf(q, c, r)[from]
         /\ \A n \in QueueNames : n # from => q2[n] = q[n]
         /\ MovedTo(WhereOf(q, c, r), WhereOf(q2, j, r2), j, "cpu")
  <1> DEFINE t == Tail(q[from])
  <1>1. q[from] \in Seq(Jobs) /\ NoRepeats(q[from])
    BY DEF Queues
  <1>2. q2 = [q EXCEPT ![from] = t]
    BY DEF Replaced
  <1>3. /\ j \in Jobs /\ j \in ToSet(q[from]) /\ t \in Seq(Jobs) /\ NoRepeats(t)
        /\ \A x : x \in ToSet(t) <=> x \in ToSet(q[from]) /\ x # j
    BY <1>1, HeadLeaves
  <1> HIDE DEF t
  <1>4. /\ j # c /\ r[j].status # "TERMINATED" /\ j \in WhereOf(q, c, r)[from]
        /\ \A m \in QueueNames : j \in ToSet(q[m]) <=> m = from
    BY <1>3, QueuePlace
  <1>5. Queues(q2) /\ q2[from] = t /\ \A m \in QueueNames : m # from => q2[m] = q[m]
    BY <1>2, <1>3 DEF Queues
  <1>6. "cpu" \notin QueueNames
    BY DEF QueueNames
  <1>7. ASSUME NEW n \in QueueNames, NEW i
        PROVE  i \in ToSet(q2[n]) <=> IF i = j THEN n = "cpu" ELSE i \in ToSet(q[n])
    <2>1. CASE n = from
      BY <1>3, <1>5, <1>6, <2>1
    <2>2. CASE n # from
      BY <1>4, <1>5, <1>6, <2>2
    <2>3. QED
      BY <2>1, <2>2
  <1>8. MovedTo(WhereOf(q, c, r), WhereOf(q2, j, r2), j, "cpu")
    <2>1. \A i : i = j /\ i # NoJob <=> IF i = j THEN "cpu" = "cpu" ELSE i = c /\ i # NoJob
      BY <1>4
    <2>2. \A i : i \in Jobs /\ r2[i].status = "TERMINATED" <=>
                   IF i = j THEN "cpu" = "gone" ELSE i \in Jobs /\ r[i].status = "TERMINATED"
      BY <1>4 DEF SameEnded
    <2>3. QED
      BY <1>7, <2>1, <2>2, MoveOfParts
  <1>9. QED
    BY <1>3, <1>4, <1>5, <1>8

\* The running process goes to a queue, which becomes u.
LEMMA RunningMoves ==
  ASSUME NEW q, Queues(q), NEW c, c # NoJob, NEW r, Apart(WhereOf(q, c, r)),
         NEW to, to \in QueueNames, NEW u, With(u, q[to], c),
         NEW q2, q2 = Replaced(q, to, u),
         NEW r2, SameEnded(r, r2)
  PROVE  /\ Queues(q2) /\ c \in Jobs /\ c \in WhereOf(q, c, r)["cpu"]
         /\ \A n \in QueueNames : n # to => q2[n] = q[n]
         /\ MovedTo(WhereOf(q, c, r), WhereOf(q2, NoJob, r2), c, to)
  <1>1. /\ c \in Jobs /\ r[c].status # "TERMINATED" /\ c \in WhereOf(q, c, r)["cpu"]
        /\ \A m \in QueueNames : c \notin ToSet(q[m])
    BY RunningPlace
  <1>2. Queues(q2) /\ q2[to] = u /\ \A m \in QueueNames : m # to => q2[m] = q[m]
    BY DEF Queues, Replaced, With
  <1>3. to # "cpu" /\ to # "gone"
    BY DEF QueueNames
  <1>4. ASSUME NEW n \in QueueNames, NEW i
        PROVE  i \in ToSet(q2[n]) <=> IF i = c THEN n = to ELSE i \in ToSet(q[n])
    BY <1>1, <1>2 DEF With
  <1>5. \A i : i = NoJob /\ i # NoJob <=> IF i = c THEN to = "cpu" ELSE i = c /\ i # NoJob
    BY <1>3
  <1>6. \A i : i \in Jobs /\ r2[i].status = "TERMINATED" <=>
                 IF i = c THEN to = "gone" ELSE i \in Jobs /\ r[i].status = "TERMINATED"
    BY <1>1, <1>3 DEF SameEnded
  <1>7. MovedTo(WhereOf(q, c, r), WhereOf(q2, NoJob, r2), c, to)
    BY <1>4, <1>5, <1>6, MoveOfParts
  <1>8. QED
    BY <1>1, <1>2, <1>7

\* The running process ends.
LEMMA RunningEnds ==
  ASSUME NEW q, NEW c, c # NoJob, NEW r, Apart(WhereOf(q, c, r)), NEW r2,
         \A i \in Jobs : i # c => r2[i].status = r[i].status, r2[c].status = "TERMINATED"
  PROVE  c \in Jobs /\ MovedTo(WhereOf(q, c, r), WhereOf(q, NoJob, r2), c, "gone")
  <1>1. /\ c \in Jobs /\ \A m \in QueueNames : c \notin ToSet(q[m])
    BY RunningPlace
  <1>2. "gone" \notin QueueNames
    BY DEF QueueNames
  <1>3. \A n \in QueueNames : \A i :
          i \in ToSet(q[n]) <=> IF i = c THEN n = "gone" ELSE i \in ToSet(q[n])
    BY <1>1, <1>2
  <1>4. \A i : i = NoJob /\ i # NoJob <=> IF i = c THEN "gone" = "cpu" ELSE i = c /\ i # NoJob
    OBVIOUS
  <1>5. \A i : i \in Jobs /\ r2[i].status = "TERMINATED" <=>
                 IF i = c THEN "gone" = "gone" ELSE i \in Jobs /\ r[i].status = "TERMINATED"
    BY <1>1
  <1>6. QED
    BY <1>1, <1>3, <1>4, <1>5, MoveOfParts

\* A running process that keeps the processor stays where it is.
LEMMA RunningStays ==
  ASSUME NEW q, NEW c, c # NoJob, NEW r, Apart(WhereOf(q, c, r)), NEW r2, SameEnded(r, r2)
  PROVE  c \in Jobs /\ MovedTo(WhereOf(q, c, r), WhereOf(q, c, r2), c, "cpu")
  <1>1. /\ c \in Jobs /\ \A m \in QueueNames : c \notin ToSet(q[m])
        /\ r[c].status # "TERMINATED"
    BY RunningPlace
  <1>2. "cpu" \notin QueueNames
    BY DEF QueueNames
  <1>3. \A n \in QueueNames : \A i :
          i \in ToSet(q[n]) <=> IF i = c THEN n = "cpu" ELSE i \in ToSet(q[n])
    BY <1>1, <1>2
  <1>4. \A i : i = c /\ i # NoJob <=> IF i = c THEN "cpu" = "cpu" ELSE i = c /\ i # NoJob
    OBVIOUS
  <1>5. \A i : i \in Jobs /\ r2[i].status = "TERMINATED" <=>
                 IF i = c THEN "cpu" = "gone" ELSE i \in Jobs /\ r[i].status = "TERMINATED"
    BY <1>1 DEF SameEnded
  <1>6. QED
    BY <1>1, <1>3, <1>4, <1>5, MoveOfParts

\* The jobs that hold memory, for queues q and running process c
ResidentOf(q, c) == ToSet(q["L0"]) \cup ToSet(q["L1"]) \cup ToSet(q["L2"]) \cup ({c} \ {NoJob})

MemoryPlaces == {"L0", "L1", "L2", "cpu"}

\* Who holds memory can be told from the place.
LEMMA ResidentPlaces ==
  ASSUME NEW q, NEW c, NEW r
  PROVE  \A i : i \in ResidentOf(q, c) <=> \E p \in MemoryPlaces : i \in WhereOf(q, c, r)[p]
  <1>1. \A i : i \in ResidentOf(q, c) <=>
               \/ i \in WhereOf(q, c, r)["L0"] \/ i \in WhereOf(q, c, r)["L1"]
               \/ i \in WhereOf(q, c, r)["L2"] \/ i \in WhereOf(q, c, r)["cpu"]
    <2>1. {"L0", "L1", "L2"} \subseteq QueueNames
      BY DEF QueueNames
    <2>2. /\ WhereOf(q, c, r)["L0"] = ToSet(q["L0"]) /\ WhereOf(q, c, r)["L1"] = ToSet(q["L1"])
          /\ WhereOf(q, c, r)["L2"] = ToSet(q["L2"])
          /\ \A j : j \in WhereOf(q, c, r)["cpu"] <=> j = c /\ j # NoJob
      BY <2>1, WhereMembers
    <2>3. QED
      BY <2>2 DEF ResidentOf
  <1>2. QED
    BY <1>1 DEF MemoryPlaces

-----------------------------------------------------------------------------
(* The inductive invariant                                                 *)

Typed == job \in [Jobs -> JobKinds] /\ time_quantum \in Quanta /\ TypeOK

BeforeCharge == {"loop", "unload", "expire"}
Slicing == {"admitNormal", "choose", "swapOut", "admitRT", "charge"}

\* What the slice of the running process is: it is never longer than what the process
\* still needs, all of it for a real-time job, and one tick at level 2.  From step iv on
\* the process has not finished with it.
Sliced ==
  /\ current # NoJob /\ pc \in BeforeCharge =>
       /\ quantum <= pcb[current].remaining
       /\ pcb[current].priority = 0 => quantum = pcb[current].remaining
       /\ pcb[current].priority = 2 => quantum = 1
  /\ current # NoJob /\ pc \in Slicing =>
       /\ quantum < pcb[current].remaining
       /\ pcb[current].priority # 0
       /\ pcb[current].priority = 2 => quantum = 1
  /\ check => current = NoJob

\* The time the running process has used and not been charged for
Uncharged(j) == IF j = current /\ pc \in BeforeCharge \cup Slicing THEN quantum ELSE 0

\* No job is served before it arrives, nor faster than the clock runs.
Timed ==
  /\ \A p \in Places \ {"dispatch", "gone"} : \A j \in Where[p] :
       timer >= job[j].arrival + job[j].service - pcb[j].remaining + Uncharged(j)
  /\ total.finish >= total.arrival + total.service

Candidates == Where["L2"] \cup (IF RunningLevel2 THEN {current} ELSE {})

\* Who is to be swapped out, and for whom
VictimChosen ==
  longest # NoJob =>
    /\ pc = "swapOut"
    /\ ~Empty("rt")
    /\ longest \in Candidates
    /\ \A j \in Candidates : TimeLeft(j) <= TimeLeft(longest)

\* What admission leaves behind
Admitted ==
  /\ pc \in {"charge", "dispatch"} => Empty("rt") \/ ~Fits(First("rt"))
  /\ pc \in {"choose", "swapOut", "admitRT", "charge", "dispatch"} /\ Empty("rt") =>
        ~Empty("L0") \/ Empty("normal") \/ ~Fits(First("normal"))

\* What dispatching leaves behind
Served ==
  /\ pc = "dispatch" /\ current # NoJob =>
        Empty("L0") /\ Empty("L1") /\ pcb[current].priority # 0
  /\ pc = "sleep" /\ current # NoJob =>
        /\ ~Empty("L0") => pcb[current].priority = 0
        /\ ~Empty("L1") => pcb[current].priority < 2 \/ job[current].priority = 2

Owned == Holding(blocks, Resident, pcb, job)

Invariant == /\ Typed /\ Placed /\ Owned /\ Sliced /\ Timed
             /\ VictimChosen /\ Admitted /\ Served

\* The fields of a job and of its process block
LEMMA TypeFacts ==
  ASSUME Typed
  PROVE  /\ \A j \in Jobs :
              /\ pcb[j].priority \in 0..2 /\ pcb[j].remaining \in Int
              /\ pcb[j].status \in {"INITIALIZED", "RUNNING", "SUSPENDED", "TERMINATED"}
              /\ pcb[j].block \in 0..MemSize-1 \cup {NoOffset}
              /\ job[j].arrival \in Nat /\ job[j].service \in Nat \ {0}
              /\ job[j].priority \in 0..2 /\ job[j].mbytes \in Nat \ {0}
         /\ time_quantum \in Nat /\ quantum \in Nat /\ timer \in Nat
         /\ current \in Jobs \cup {NoJob} /\ longest \in Jobs \cup {NoJob}
  <1>1. \A j \in Jobs : job[j] \in [arrival : Nat, service : Nat \ {0},
                                    priority : 0..2, mbytes : Nat \ {0}]
    BY SchedulerAssumption DEF Typed
  <1>2. \A j \in Jobs :
          pcb[j] \in [priority  : 0..2,
                      remaining : Int,
                      status    : {"INITIALIZED", "RUNNING", "SUSPENDED", "TERMINATED"},
                      block     : 0..MemSize-1 \cup {NoOffset}]
    BY DEF Typed, TypeOK
  <1>3. \A j \in Jobs :
              /\ pcb[j].priority \in 0..2 /\ pcb[j].remaining \in Int
              /\ pcb[j].status \in {"INITIALIZED", "RUNNING", "SUSPENDED", "TERMINATED"}
              /\ pcb[j].block \in 0..MemSize-1 \cup {NoOffset}
    BY <1>2
  <1>4. \A j \in Jobs : /\ job[j].arrival \in Nat /\ job[j].service \in Nat \ {0}
                        /\ job[j].priority \in 0..2 /\ job[j].mbytes \in Nat \ {0}
    BY <1>1
  <1>5. /\ time_quantum \in Nat /\ quantum \in Nat /\ timer \in Nat
        /\ current \in Jobs \cup {NoJob} /\ longest \in Jobs \cup {NoJob}
    BY SchedulerAssumption DEF Typed, TypeOK
  <1>6. QED
    BY <1>3, <1>4, <1>5

\* A step that moves one job and touches nobody else's process block keeps everybody in
\* one suitable place.
LEMMA StepMoves ==
  ASSUME Placed, NEW j, j \in Jobs, NEW p, p \in Places, Queues(queue'), job' = job,
         MovedTo(WhereOf(queue, current, pcb), WhereOf(queue', current', pcb'), j, p),
         \A i \in Jobs : i # j => pcb'[i] = pcb[i],
         Suits(p, job[j], pcb'[j])
  PROVE  /\ Placed'
         /\ \A i : i \in Resident' <=> IF i = j THEN p \in MemoryPlaces ELSE i \in Resident
  <1> DEFINE W == WhereOf(queue, current, pcb)
             V == WhereOf(queue', current', pcb')
  <1>1. Apart(W) /\ Suited(W, job, pcb)
    BY DEF Placed, Where
  <1>2. MovedTo(W, V, j, p)
    OBVIOUS
  <1>3. Where' = V
    BY DEF Where
  <1>4. Resident = ResidentOf(queue, current) /\ Resident' = ResidentOf(queue', current')
    BY DEF Resident, Ready, ResidentOf
  <1>5. /\ \A i : i \in Resident <=> \E m \in MemoryPlaces : i \in W[m]
        /\ \A i : i \in Resident' <=> \E m \in MemoryPlaces : i \in V[m]
    BY <1>4, ResidentPlaces
  <1> HIDE DEF W, V
  <1>6. Apart(V) /\ Suited(V, job, pcb')
    BY <1>1, <1>2, MoveKeepsOrder
  <1>7. Placed'
    BY <1>3, <1>6 DEF Placed
  <1>8. MemoryPlaces \subseteq Places
    BY DEF MemoryPlaces, Places, QueueNames
  <1>9. \A i : i \in Resident' <=> IF i = j THEN p \in MemoryPlaces ELSE i \in Resident
    BY <1>2, <1>5, <1>8 DEF MovedTo
  <1>10. QED
    BY <1>7, <1>9

\* Nothing changes hands.
LEMMA HoldingSame ==
  ASSUME NEW b, NEW R, NEW own, NEW need, Holding(b, R, own, need),
         NEW S, \A i : i \in S <=> i \in R,
         NEW has, \A i \in R : has[i].block = own[i].block
  PROVE  Holding(b, S, has, need)
  <1>1. \A i \in R : [offset |-> has[i].block, size |-> need[i].mbytes]
                       = [offset |-> own[i].block, size |-> need[i].mbytes]
    OBVIOUS
  <1>2. \A r : (\E i \in S : r = [offset |-> has[i].block, size |-> need[i].mbytes])
                 <=> (\E i \in R : r = [offset |-> own[i].block, size |-> need[i].mbytes])
    BY <1>1
  <1>3. QED
    BY <1>2 DEF Holding

\* What a slice in progress takes is not negative, and nothing for a job that does not run.
LEMMA UnchargedFacts ==
  ASSUME Typed, NEW j
  PROVE  /\ Uncharged(j) \in Nat
         /\ j # current => Uncharged(j) = 0
         /\ pc \notin BeforeCharge \cup Slicing => Uncharged(j) = 0
         /\ pc \in BeforeCharge \cup Slicing /\ j = current => Uncharged(j) = quantum
  BY TypeFacts DEF Uncharged

\* A step that moves one job keeps the time right if it does so for this job.
LEMMA TimedMoves ==
  ASSUME Typed, Typed', Timed, NEW j, NEW p, p \in Places,
         MovedTo(WhereOf(queue, current, pcb), WhereOf(queue', current', pcb'), j, p),
         Apart(WhereOf(queue, current, pcb)), j \in Jobs,
         \A i \in Jobs : i # j => pcb'[i] = pcb[i],
         job' = job, timer' = timer,
         \A i \in Jobs : i # j => Uncharged(i)' <= Uncharged(i),
         p \notin {"dispatch", "gone"} =>
           timer >= job[j].arrival + job[j].service - pcb'[j].remaining + Uncharged(j)',
         total'.finish >= total'.arrival + total'.service
  PROVE  Timed'
  <1> DEFINE W == WhereOf(queue, current, pcb)
             V == WhereOf(queue', current', pcb')
             T == Places \ {"dispatch", "gone"}
  <1>1. Where = W /\ Where' = V
    BY DEF Where
  <1>2. MovedTo(W, V, j, p) /\ Apart(W)
    OBVIOUS
  <1> HIDE DEF W, V
  <1>3. ASSUME NEW m \in T, NEW i \in V[m]
        PROVE  timer' >= job'[i].arrival + job'[i].service - pcb'[i].remaining + Uncharged(i)'
    <2>1. CASE i = j
      <3>1. m = p
        BY <1>2, <1>3, <2>1 DEF MovedTo
      <3>2. QED
        BY <2>1, <3>1
    <2>2. CASE i # j
      <3>1. i \in W[m]
        BY <1>2, <1>3, <2>2 DEF MovedTo
      <3>2. i \in Jobs
        BY <1>2, <3>1 DEF Apart
      <3>3. timer >= job[i].arrival + job[i].service - pcb[i].remaining + Uncharged(i)
        BY <1>1, <3>1 DEF Timed
      <3>4. Uncharged(i)' <= Uncharged(i) /\ pcb'[i] = pcb[i]
        BY <2>2, <3>2
      <3>5. Uncharged(i)' \in Nat /\ Uncharged(i) \in Nat
        <4>1. quantum' \in Nat
          BY DEF Typed, TypeOK
        <4>2. Uncharged(i)' \in Nat
          BY <4>1 DEF Uncharged
        <4>3. QED
          BY <4>2, UnchargedFacts
      <3>6. /\ timer \in Nat /\ job[i].arrival \in Nat /\ job[i].service \in Nat
            /\ pcb[i].remaining \in Int
        BY <3>2, TypeFacts
      <3> DEFINE a == job[i].arrival
                 s == job[i].service
                 r == pcb[i].remaining
                 u == Uncharged(i)
                 v == Uncharged(i)'
      <3> HIDE DEF a, s, r, u, v
      <3>7. timer >= a + s - r + u /\ v <= u
        BY <3>3, <3>4 DEF a, s, r, u, v
      <3>8. timer \in Nat /\ a \in Nat /\ s \in Nat /\ r \in Int /\ u \in Nat /\ v \in Nat
        BY <3>5, <3>6 DEF a, s, r, u, v
      <3>9. timer >= a + s - r + v
        BY <3>7, <3>8
      <3>10. QED
        BY <3>4, <3>9 DEF a, s, r, v
    <2>3. QED
      BY <2>1, <2>2
  <1>4. QED
    BY <1>1, <1>3 DEF Timed

-----------------------------------------------------------------------------
(* The steps that move no job and leave the memory alone                   *)

Quiet == UNCHANGED << job, time_quantum, pcb, queue, current, blocks, total >>

\* Such a step leaves everybody in place.
LEMMA QuietKeeps ==
  ASSUME Invariant, Quiet
  PROVE  /\ Placed' /\ Owned' /\ Where' = Where
         /\ \A name \in QueueNames : Empty(name)' <=> Empty(name)
         /\ Fits(First("rt"))' <=> Fits(First("rt"))
         /\ Fits(First("normal"))' <=> Fits(First("normal"))
         /\ RunningLevel2' <=> RunningLevel2
  <1>1. /\ job' = job /\ time_quantum' = time_quantum /\ pcb' = pcb /\ queue' = queue
        /\ current' = current /\ blocks' = blocks /\ total' = total
    BY DEF Quiet
  <1>2. Where' = Where
    BY <1>1 DEF Where
  <1>3. Placed'
    BY <1>1, <1>2 DEF Invariant, Placed
  <1>4. Resident' = Resident
    BY <1>1 DEF Resident, Ready
  <1>5. Owned'
    BY <1>1, <1>4 DEF Invariant, Owned
  <1>6. /\ \A name \in QueueNames : Empty(name)' <=> Empty(name)
        /\ RunningLevel2' <=> RunningLevel2
    BY <1>1 DEF Empty, RunningLevel2
  <1>7. /\ Fits(First("rt"))' <=> Fits(First("rt"))
        /\ Fits(First("normal"))' <=> Fits(First("normal"))
    BY <1>1 DEF Fits, First
  <1>8. QED
    BY <1>2, <1>3, <1>5, <1>6, <1>7

\* Such a step keeps the time right if it charges nobody and leaves the clock alone.
LEMMA QuietTimed ==
  ASSUME Invariant, Quiet, timer' = timer, quantum' \in Nat,
         \A i \in Jobs : Uncharged(i)' <= Uncharged(i)
  PROVE  Timed'
  <1>1. /\ job' = job /\ pcb' = pcb /\ total' = total /\ Where' = Where
    BY QuietKeeps DEF Quiet
  <1>2. Typed /\ Apart(Where) /\ Timed
    BY DEF Invariant, Placed
  <1> DEFINE T == Places \ {"dispatch", "gone"}
  <1>3. ASSUME NEW m \in T, NEW i \in Where[m]
        PROVE  timer >= job[i].arrival + job[i].service - pcb[i].remaining + Uncharged(i)'
    <2>1. i \in Jobs
      BY <1>2, <1>3 DEF Apart
    <2>2. timer >= job[i].arrival + job[i].service - pcb[i].remaining + Uncharged(i)
      BY <1>2, <1>3 DEF Timed
    <2> DEFINE a == job[i].arrival
               s == job[i].service
               r == pcb[i].remaining
               u == Uncharged(i)
               v == Uncharged(i)'
    <2>3. timer \in Nat /\ a \in Nat /\ s \in Nat /\ r \in Int /\ u \in Nat
      BY <1>2, <2>1, TypeFacts, UnchargedFacts
    <2>4. v \in Nat
      BY DEF Uncharged
    <2>5. v <= u
      BY <2>1
    <2>6. timer >= a + s - r + u
      BY <2>2
    <2> HIDE DEF a, s, r, u, v
    <2>7. timer >= a + s - r + v
      BY <2>3, <2>4, <2>5, <2>6
    <2>8. QED
      BY <2>7 DEF a, s, r, v
  <1>4. total'.finish >= total'.arrival + total'.service
    BY <1>1, <1>2 DEF Timed
  <1>5. QED
    BY <1>1, <1>3, <1>4 DEF Timed

\* A step outside the choice of a victim has none in mind.
LEMMA NoVictim ==
  ASSUME VictimChosen, pc # "swapOut", longest' = longest
  PROVE  longest' = NoJob /\ VictimChosen'
  BY DEF VictimChosen

LEMMA LoopTestKeeps ==
  ASSUME Invariant, LoopTest
  PROVE  Invariant'
  <1>1. Quiet /\ longest' = longest /\ quantum' = quantum /\ timer' = timer
    BY DEF LoopTest, Quiet, input, clock
  <1>2. /\ pc = "loop" /\ pc' \in {"unload", "exit"}
        /\ pc' = "unload" => check' = FALSE
        /\ pc' = "exit" => current = NoJob /\ check' = check
    BY DEF LoopTest
  <1>3. Typed /\ VictimChosen /\ Sliced /\ current' = current /\ pcb' = pcb
    BY <1>1 DEF Invariant, Quiet
  <1>4. Typed'
    BY <1>1, <1>2, <1>3 DEF Typed, TypeOK, Quiet
  <1>5. Placed' /\ Owned'
    BY <1>1, QuietKeeps
  <1>6. Sliced'
    BY <1>1, <1>2, <1>3 DEF Sliced, BeforeCharge, Slicing
  <1>7. Timed'
    <2>1. ASSUME NEW i \in Jobs PROVE Uncharged(i)' <= Uncharged(i)
      BY <1>1, <1>2, <1>3, TypeFacts DEF Uncharged, BeforeCharge, Slicing
    <2>2. quantum' \in Nat
      BY <1>1, <1>3, TypeFacts
    <2>3. QED
      BY <1>1, <2>1, <2>2, QuietTimed
  <1>8. VictimChosen'
    BY <1>1, <1>2, <1>3, NoVictim
  <1>9. Admitted' /\ Served'
    BY <1>2 DEF Admitted, Served
  <1>10. QED
    BY <1>4, <1>5, <1>6, <1>7, <1>8, <1>9 DEF Invariant

LEMMA UnloadDoneKeeps ==
  ASSUME Invariant, UnloadDone
  PROVE  Invariant'
  <1>1. Quiet /\ longest' = longest /\ quantum' = quantum /\ timer' = timer
    BY DEF UnloadDone, Quiet, input, clock
  <1>2. pc = "unload" /\ pc' = "expire" /\ check' = check
    BY DEF UnloadDone
  <1>3. Typed /\ VictimChosen /\ Sliced /\ Admitted /\ Served /\ current' = current /\ pcb' = pcb
    BY <1>1 DEF Invariant, Quiet
  <1>4. Typed'
    BY <1>1, <1>2, <1>3 DEF Typed, TypeOK, Quiet
  <1>5. Placed' /\ Owned'
    BY <1>1, QuietKeeps
  <1>6. Sliced'
    BY <1>1, <1>2, <1>3 DEF Sliced, BeforeCharge, Slicing
  <1>7. Timed'
    <2>1. ASSUME NEW i \in Jobs PROVE Uncharged(i)' <= Uncharged(i)
      BY <1>1, <1>2, <1>3, TypeFacts DEF Uncharged, BeforeCharge, Slicing
    <2>2. quantum' \in Nat
      BY <1>1, <1>3, TypeFacts
    <2>3. QED
      BY <1>1, <2>1, <2>2, QuietTimed
  <1>8. VictimChosen'
    BY <1>1, <1>2, <1>3, NoVictim
  <1>9. Admitted' /\ Served'
    BY <1>2 DEF Admitted, Served
  <1>10. QED
    BY <1>4, <1>5, <1>6, <1>7, <1>8, <1>9 DEF Invariant

LEMMA NotExpiredKeeps ==
  ASSUME Invariant, NotExpired
  PROVE  Invariant'
  <1>1. Quiet /\ longest' = longest /\ quantum' = quantum /\ timer' = timer
    BY DEF NotExpired, Quiet, input, clock
  <1>2. pc = "expire" /\ pc' = "admitNormal" /\ check' = check /\ ~Expired
    BY DEF NotExpired
  <1>3. Typed /\ VictimChosen /\ Sliced /\ Admitted /\ Served /\ current' = current /\ pcb' = pcb
    BY <1>1 DEF Invariant, Quiet
  <1>4. Typed'
    BY <1>1, <1>2, <1>3 DEF Typed, TypeOK, Quiet
  <1>5. Placed' /\ Owned'
    BY <1>1, QuietKeeps
  <1>6. Sliced'
    BY <1>1, <1>2, <1>3, TypeFacts DEF Sliced, BeforeCharge, Slicing, Expired
  <1>7. Timed'
    <2>1. ASSUME NEW i \in Jobs PROVE Uncharged(i)' <= Uncharged(i)
      BY <1>1, <1>2, <1>3, TypeFacts DEF Uncharged, BeforeCharge, Slicing
    <2>2. quantum' \in Nat
      BY <1>1, <1>3, TypeFacts
    <2>3. QED
      BY <1>1, <2>1, <2>2, QuietTimed
  <1>8. VictimChosen'
    BY <1>1, <1>2, <1>3, NoVictim
  <1>9. Admitted' /\ Served'
    BY <1>2 DEF Admitted, Served
  <1>10. QED
    BY <1>4, <1>5, <1>6, <1>7, <1>8, <1>9 DEF Invariant

LEMMA AdmitNormalDoneKeeps ==
  ASSUME Invariant, AdmitNormalDone
  PROVE  Invariant'
  <1>1. Quiet /\ longest' = longest /\ quantum' = quantum /\ timer' = timer
    BY DEF AdmitNormalDone, Quiet, input, clock
  <1>2. pc = "admitNormal" /\ pc' = "choose" /\ check' = check /\ ~CanAdmitNormal
    BY DEF AdmitNormalDone
  <1>3. Typed /\ VictimChosen /\ Sliced /\ Admitted /\ Served /\ current' = current /\ pcb' = pcb
    BY <1>1 DEF Invariant, Quiet
  <1>4. Typed'
    BY <1>1, <1>2, <1>3 DEF Typed, TypeOK, Quiet
  <1>5. Placed' /\ Owned'
    BY <1>1, QuietKeeps
  <1>6. Sliced'
    BY <1>1, <1>2, <1>3 DEF Sliced, BeforeCharge, Slicing
  <1>7. Timed'
    <2>1. ASSUME NEW i \in Jobs PROVE Uncharged(i)' <= Uncharged(i)
      BY <1>1, <1>2, <1>3, TypeFacts DEF Uncharged, BeforeCharge, Slicing
    <2>2. quantum' \in Nat
      BY <1>1, <1>3, TypeFacts
    <2>3. QED
      BY <1>1, <2>1, <2>2, QuietTimed
  <1>8. VictimChosen'
    BY <1>1, <1>2, <1>3, NoVictim
  <1>9. Admitted' /\ Served'
    BY <1>1, <1>2, <1>3, QuietKeeps DEF CanAdmitNormal, Admitted, Served, QueueNames
  <1>10. QED
    BY <1>4, <1>5, <1>6, <1>7, <1>8, <1>9 DEF Invariant

LEMMA NoSwapOutKeeps ==
  ASSUME Invariant, NoSwapOut
  PROVE  Invariant'
  <1>1. Quiet /\ longest' = longest /\ quantum' = quantum /\ timer' = timer
    BY DEF NoSwapOut, Quiet, input, clock
  <1>2. pc = "swapOut" /\ pc' = "admitRT" /\ check' = check /\ longest = NoJob
    BY DEF NoSwapOut
  <1>3. Typed /\ VictimChosen /\ Sliced /\ Admitted /\ Served /\ current' = current /\ pcb' = pcb
    BY <1>1 DEF Invariant, Quiet
  <1>4. Typed'
    BY <1>1, <1>2, <1>3 DEF Typed, TypeOK, Quiet
  <1>5. Placed' /\ Owned'
    BY <1>1, QuietKeeps
  <1>6. Sliced'
    BY <1>1, <1>2, <1>3 DEF Sliced, BeforeCharge, Slicing
  <1>7. Timed'
    <2>1. ASSUME NEW i \in Jobs PROVE Uncharged(i)' <= Uncharged(i)
      BY <1>1, <1>2, <1>3, TypeFacts DEF Uncharged, BeforeCharge, Slicing
    <2>2. quantum' \in Nat
      BY <1>1, <1>3, TypeFacts
    <2>3. QED
      BY <1>1, <2>1, <2>2, QuietTimed
  <1>8. VictimChosen'
    BY <1>1, <1>2 DEF VictimChosen
  <1>9. Admitted' /\ Served'
    BY <1>1, <1>2, <1>3, QuietKeeps DEF Admitted, Served, QueueNames
  <1>10. QED
    BY <1>4, <1>5, <1>6, <1>7, <1>8, <1>9 DEF Invariant

LEMMA AdmitRealTimeDoneKeeps ==
  ASSUME Invariant, AdmitRealTimeDone
  PROVE  Invariant'
  <1>1. Quiet /\ longest' = longest /\ quantum' = quantum /\ timer' = timer
    BY DEF AdmitRealTimeDone, Quiet, input, clock
  <1>2. pc = "admitRT" /\ pc' = "charge" /\ check' = check /\ ~CanAdmitRealTime
    BY DEF AdmitRealTimeDone
  <1>3. Typed /\ VictimChosen /\ Sliced /\ Admitted /\ Served /\ current' = current /\ pcb' = pcb
    BY <1>1 DEF Invariant, Quiet
  <1>4. Typed'
    BY <1>1, <1>2, <1>3 DEF Typed, TypeOK, Quiet
  <1>5. Placed' /\ Owned'
    BY <1>1, QuietKeeps
  <1>6. Sliced'
    BY <1>1, <1>2, <1>3 DEF Sliced, BeforeCharge, Slicing
  <1>7. Timed'
    <2>1. ASSUME NEW i \in Jobs PROVE Uncharged(i)' <= Uncharged(i)
      BY <1>1, <1>2, <1>3, TypeFacts DEF Uncharged, BeforeCharge, Slicing
    <2>2. quantum' \in Nat
      BY <1>1, <1>3, TypeFacts
    <2>3. QED
      BY <1>1, <2>1, <2>2, QuietTimed
  <1>8. VictimChosen'
    BY <1>1, <1>2, <1>3, NoVictim
  <1>9. Admitted' /\ Served'
    BY <1>1, <1>2, <1>3, QuietKeeps DEF CanAdmitRealTime, Admitted, Served, QueueNames
  <1>10. QED
    BY <1>4, <1>5, <1>6, <1>7, <1>8, <1>9 DEF Invariant

LEMMA NothingToChargeKeeps ==
  ASSUME Invariant, NothingToCharge
  PROVE  Invariant'
  <1>1. Quiet /\ longest' = longest /\ quantum' = quantum /\ timer' = timer
    BY DEF NothingToCharge, Quiet, input, clock
  <1>2. pc = "charge" /\ pc' = "dispatch" /\ check' = check /\ current = NoJob
    BY DEF NothingToCharge
  <1>3. Typed /\ VictimChosen /\ Sliced /\ Admitted /\ Served /\ current' = current /\ pcb' = pcb
    BY <1>1 DEF Invariant, Quiet
  <1>4. Typed'
    BY <1>1, <1>2, <1>3 DEF Typed, TypeOK, Quiet
  <1>5. Placed' /\ Owned'
    BY <1>1, QuietKeeps
  <1>6. Sliced'
    BY <1>1, <1>2, <1>3 DEF Sliced, BeforeCharge, Slicing
  <1>7. Timed'
    <2>1. ASSUME NEW i \in Jobs PROVE Uncharged(i)' <= Uncharged(i)
      BY <1>1, <1>2, <1>3, TypeFacts DEF Uncharged, BeforeCharge, Slicing
    <2>2. quantum' \in Nat
      BY <1>1, <1>3, TypeFacts
    <2>3. QED
      BY <1>1, <2>1, <2>2, QuietTimed
  <1>8. VictimChosen'
    BY <1>1, <1>2, <1>3, NoVictim
  <1>9. Admitted' /\ Served'
    BY <1>1, <1>2, <1>3, QuietKeeps DEF Admitted, Served, QueueNames
  <1>10. QED
    BY <1>4, <1>5, <1>6, <1>7, <1>8, <1>9 DEF Invariant

LEMMA NoDispatchKeeps ==
  ASSUME Invariant, NoDispatch
  PROVE  Invariant'
  <1>1. Quiet /\ longest' = longest /\ quantum' = quantum /\ timer' = timer
    BY DEF NoDispatch, Quiet, input, clock
  <1>2. pc = "dispatch" /\ pc' = "sleep" /\ check' = check
    BY DEF NoDispatch
  <1>3. Typed /\ VictimChosen /\ Sliced /\ Admitted /\ Served /\ current' = current /\ pcb' = pcb
    BY <1>1 DEF Invariant, Quiet
  <1>4. Typed'
    BY <1>1, <1>2, <1>3 DEF Typed, TypeOK, Quiet
  <1>5. Placed' /\ Owned'
    BY <1>1, QuietKeeps
  <1>6. Sliced'
    BY <1>1, <1>2, <1>3 DEF Sliced, BeforeCharge, Slicing
  <1>7. Timed'
    <2>1. ASSUME NEW i \in Jobs PROVE Uncharged(i)' <= Uncharged(i)
      BY <1>1, <1>2, <1>3, TypeFacts DEF Uncharged, BeforeCharge, Slicing
    <2>2. quantum' \in Nat
      BY <1>1, <1>3, TypeFacts
    <2>3. QED
      BY <1>1, <2>1, <2>2, QuietTimed
  <1>8. VictimChosen'
    BY <1>1, <1>2, <1>3, NoVictim
  <1>9. Admitted' /\ Served'
    BY <1>1, <1>2, <1>3, QuietKeeps DEF Admitted, Served, QueueNames
  <1>10. QED
    BY <1>4, <1>5, <1>6, <1>7, <1>8, <1>9 DEF Invariant

LEMMA DispatchNothingKeeps ==
  ASSUME Invariant, DispatchNothing
  PROVE  Invariant'
  <1>1. Quiet /\ longest' = longest /\ quantum' = quantum /\ timer' = timer
    BY DEF DispatchNothing, Quiet, input, clock
  <1>2. pc = "dispatch" /\ pc' = "segfault" /\ check' = check
    BY DEF DispatchNothing
  <1>3. Typed /\ VictimChosen /\ Sliced /\ Admitted /\ Served /\ current' = current /\ pcb' = pcb
    BY <1>1 DEF Invariant, Quiet
  <1>4. Typed'
    BY <1>1, <1>2, <1>3 DEF Typed, TypeOK, Quiet
  <1>5. Placed' /\ Owned'
    BY <1>1, QuietKeeps
  <1>6. Sliced'
    BY <1>1, <1>2, <1>3 DEF Sliced, BeforeCharge, Slicing
  <1>7. Timed'
    <2>1. ASSUME NEW i \in Jobs PROVE Uncharged(i)' <= Uncharged(i)
      BY <1>1, <1>2, <1>3, TypeFacts DEF Uncharged, BeforeCharge, Slicing
    <2>2. quantum' \in Nat
      BY <1>1, <1>3, TypeFacts
    <2>3. QED
      BY <1>1, <2>1, <2>2, QuietTimed
  <1>8. VictimChosen'
    BY <1>1, <1>2, <1>3, NoVictim
  <1>9. Admitted' /\ Served'
    BY <1>2 DEF Admitted, Served
  <1>10. QED
    BY <1>4, <1>5, <1>6, <1>7, <1>8, <1>9 DEF Invariant

\* The main loop has ended: nothing changes any more.
LEMMA StoppedKeeps ==
  ASSUME Invariant, UNCHANGED vars
  PROVE  Invariant'
  <1>1. Quiet /\ longest' = longest /\ quantum' = quantum /\ timer' = timer
    BY DEF vars, Quiet, input, clock
  <1>2. pc' = pc /\ check' = check
    BY DEF vars
  <1>3. Typed /\ VictimChosen /\ Sliced /\ Admitted /\ Served /\ Timed
        /\ current' = current /\ pcb' = pcb /\ job' = job /\ blocks' = blocks
        /\ total' = total /\ queue' = queue
    BY <1>1 DEF Invariant, Quiet
  <1>4. Typed'
    BY <1>1, <1>2, <1>3 DEF Typed, TypeOK, Quiet
  <1>5. Placed' /\ Owned' /\ Where' = Where
    BY <1>1, QuietKeeps
  <1>6. Sliced'
    BY <1>1, <1>2, <1>3 DEF Sliced
  <1>7. Timed'
    BY <1>1, <1>2, <1>3, <1>5 DEF Timed, Uncharged
  <1>8. VictimChosen'
    <2>1. Candidates' = Candidates
      BY <1>3, <1>5 DEF Candidates, RunningLevel2
    <2>2. \A j : TimeLeft(j)' = TimeLeft(j)
      BY <1>1, <1>3 DEF TimeLeft
    <2>3. Empty("rt")' <=> Empty("rt")
      BY <1>3 DEF Empty
    <2>4. QED
      BY <1>1, <1>2, <1>3, <2>1, <2>2, <2>3 DEF VictimChosen
  <1>9. Admitted' /\ Served'
    BY <1>1, <1>2, <1>3, QuietKeeps DEF Admitted, Served, QueueNames
  <1>10. QED
    BY <1>4, <1>5, <1>6, <1>7, <1>8, <1>9 DEF Invariant

\* What is known of the running process
LEMMA RunningFacts ==
  ASSUME Typed, Placed, current # NoJob
  PROVE  /\ current \in Jobs /\ Suits("cpu", job[current], pcb[current])
         /\ pcb[current].remaining \in Nat \ {0}
         /\ pcb[current].priority \in 0..2 /\ pcb[current].status = "RUNNING"
         /\ \A m \in QueueNames : current \notin ToSet(queue[m])
         /\ current \in Where["cpu"] /\ "cpu" \in Places
  <1>1. Apart(WhereOf(queue, current, pcb)) /\ Where = WhereOf(queue, current, pcb)
    BY DEF Placed, Where
  <1>2. /\ current \in Jobs /\ current \in Where["cpu"]
        /\ \A m \in QueueNames : current \notin ToSet(queue[m])
    BY <1>1, RunningPlace
  <1>3. "cpu" \in Places
    BY DEF Places
  <1>4. Suits("cpu", job[current], pcb[current])
    BY <1>2, <1>3 DEF Placed, Suited
  <1>5. pcb[current].remaining \in Int /\ pcb[current].priority \in 0..2
    BY <1>2, TypeFacts
  <1>6. pcb[current].remaining > 0 /\ pcb[current].status = "RUNNING"
    BY <1>4 DEF Suits
  <1>7. QED
    BY <1>2, <1>3, <1>4, <1>5, <1>6

\* What is known of a job in a queue
LEMMA QueuedFacts ==
  ASSUME Placed, NEW n, n \in QueueNames, NEW j, j \in ToSet(queue[n])
  PROVE  /\ j \in Jobs /\ j # current /\ j # NoJob /\ Suits(n, job[j], pcb[j])
         /\ \A m \in QueueNames : j \in ToSet(queue[m]) <=> m = n
         /\ n \in Places /\ j \in Where[n]
  <1>1. Apart(WhereOf(queue, current, pcb)) /\ Where = WhereOf(queue, current, pcb)
    BY DEF Placed, Where
  <1>2. /\ j \in Jobs /\ j # current /\ j \in Where[n]
        /\ \A m \in QueueNames : j \in ToSet(queue[m]) <=> m = n
    BY <1>1, QueuePlace
  <1>3. n \in Places
    BY WhereMembers
  <1>4. Suits(n, job[j], pcb[j])
    BY <1>2, <1>3 DEF Placed, Suited
  <1>5. j # NoJob
    BY <1>2 DEF Jobs, NoJob
  <1>6. QED
    BY <1>2, <1>3, <1>4, <1>5

\* The quantum the running process is given
LEMMA QuantumFacts ==
  ASSUME Typed, Placed
  PROVE  /\ Quantum \in Nat
         /\ current # NoJob =>
              /\ Quantum <= pcb[current].remaining
              /\ pcb[current].priority = 0 => Quantum = pcb[current].remaining
              /\ pcb[current].priority = 2 => Quantum = 1
  <1>1. CASE current = NoJob
    <2>1. Quantum = IdleTick
      BY <1>1 DEF Quantum
    <2>2. IdleTick \in Nat
      BY DEF IdleTick
    <2>3. QED
      BY <1>1, <2>1, <2>2
  <1>2. CASE current # NoJob
    <2>1. /\ pcb[current].remaining \in Nat \ {0} /\ pcb[current].priority \in 0..2
          /\ time_quantum \in Nat
      BY <1>2, RunningFacts, TypeFacts
    <2>2. CASE pcb[current].priority = 0
      <3>1. Quantum = RealTimeSlice
        BY <1>2, <2>2 DEF Quantum
      <3>2. QED
        BY <2>1, <2>2, <3>1 DEF RealTimeSlice
    <2>3. CASE pcb[current].priority = 1
      <3>1. Quantum = Level1Slice
        BY <1>2, <2>3 DEF Quantum
      <3> DEFINE I == {time_quantum, pcb[current].remaining}
      <3>2. I \subseteq Nat /\ I # {}
        BY <2>1
      <3>3. Level1Slice = Min(I)
        BY DEF Level1Slice
      <3>4. pcb[current].remaining \in I
        OBVIOUS
      <3> HIDE DEF I
      <3>5. Min(I) \in I /\ Min(I) <= pcb[current].remaining
        BY <3>2, <3>4, MinOfNaturals
      <3>6. Quantum \in Nat /\ Quantum <= pcb[current].remaining
        BY <3>1, <3>2, <3>3, <3>5
      <3>7. QED
        BY <2>1, <2>3, <3>6
    <2>4. CASE pcb[current].priority = 2
      <3>1. Quantum = 1
        BY <1>2, <2>4 DEF Quantum
      <3>2. QED
        BY <2>1, <2>4, <3>1
    <2>5. QED
      BY <2>1, <2>2, <2>3, <2>4
  <1>3. QED
    BY <1>1, <1>2

LEMMA SleepKeeps ==
  ASSUME Invariant, Sleep
  PROVE  Invariant'
  <1> DEFINE q == Quantum
  <1>1. Quiet /\ longest' = longest /\ quantum' = q /\ timer' = timer + q
    BY DEF Sleep, Quiet, input
  <1>2. pc = "sleep" /\ pc' = "loop" /\ check' = check
    BY DEF Sleep
  <1>3. Typed /\ Placed /\ VictimChosen /\ Sliced /\ Timed /\ current' = current /\ pcb' = pcb
        /\ job' = job /\ total' = total
    BY <1>1 DEF Invariant, Quiet
  <1>4. /\ q \in Nat
        /\ current # NoJob =>
              /\ q <= pcb[current].remaining
              /\ pcb[current].priority = 0 => q = pcb[current].remaining
              /\ pcb[current].priority = 2 => q = 1
    BY <1>3, QuantumFacts
  <1> HIDE DEF q
  <1>5. timer + q \in Nat
    BY <1>3, <1>4, TypeFacts
  <1>6. Typed'
    BY <1>1, <1>2, <1>3, <1>4, <1>5 DEF Typed, TypeOK, Quiet
  <1>7. Placed' /\ Owned' /\ Where' = Where
    BY <1>1, QuietKeeps
  <1>8. Sliced'
    BY <1>1, <1>2, <1>3, <1>4 DEF Sliced, BeforeCharge, Slicing
  <1>9. Timed'
    <2> DEFINE T == Places \ {"dispatch", "gone"}
    <2>1. ASSUME NEW m \in T, NEW i \in Where[m]
          PROVE  timer' >= job[i].arrival + job[i].service - pcb[i].remaining + Uncharged(i)'
      <3>1. i \in Jobs
        BY <1>3, <2>1 DEF Apart, Placed
      <3>2. timer >= job[i].arrival + job[i].service - pcb[i].remaining + Uncharged(i)
        BY <1>3, <2>1 DEF Timed
      <3>3. Uncharged(i) = 0
        BY <1>2 DEF Uncharged, BeforeCharge, Slicing
      <3>4. Uncharged(i)' \in {0, q}
        BY <1>1 DEF Uncharged
      <3> DEFINE a == job[i].arrival
                 s == job[i].service
                 r == pcb[i].remaining
                 v == Uncharged(i)'
      <3>5. timer \in Nat /\ a \in Nat /\ s \in Nat /\ r \in Int
        BY <1>3, <3>1, TypeFacts
      <3>6. timer >= a + s - r + 0 /\ v \in {0, q}
        BY <3>2, <3>3, <3>4
      <3> HIDE DEF a, s, r, v
      <3>7. timer + q >= a + s - r + v
        BY <1>4, <3>5, <3>6
      <3>8. QED
        BY <1>1, <3>7 DEF a, s, r, v
    <2>2. total'.finish >= total'.arrival + total'.service
      BY <1>3 DEF Timed
    <2>3. QED
      BY <1>3, <1>7, <2>1, <2>2 DEF Timed
  <1>10. VictimChosen'
    BY <1>1, <1>2, <1>3, NoVictim
  <1>11. Admitted' /\ Served'
    BY <1>2 DEF Admitted, Served
  <1>12. QED
    BY <1>6, <1>7, <1>8, <1>9, <1>10, <1>11 DEF Invariant

-----------------------------------------------------------------------------
(* The choice of a victim                                                  *)

\* Among finitely many integers there is a first one that none exceeds.
LEMMA FirstLongest ==
  ASSUME NEW f, NEW n, n \in Nat \ {0}, \A k \in 1..n : f[k] \in Int
  PROVE  \E i \in 1..n : \A k \in 1..n : f[k] <= f[i] /\ (k < i => f[k] < f[i])
  <1> DEFINE Good(m) == \E i \in 1..m : \A k \in 1..m : f[k] <= f[i] /\ (k < i => f[k] < f[i])
             Bad == { m \in 1..n : ~Good(m) }
  <1>1. SUFFICES ASSUME Bad # {} PROVE FALSE
    <2>1. n \in 1..n
      OBVIOUS
    <2>2. ~Good(n) => n \in Bad
      BY <2>1
    <2>3. Bad = {} => Good(n)
      BY <2>2
    <2>4. QED
      BY <2>3
  <1> DEFINE m == Min(Bad)
  <1>2. Bad \subseteq Nat
    OBVIOUS
  <1>3. m \in Bad /\ \A x \in Bad : m <= x
    <2> HIDE DEF Bad
    <2>1. QED
      BY <1>1, <1>2, MinOfNaturals
  <1> HIDE DEF m
  <1>4. m \in 1..n /\ ~Good(m)
    BY <1>3
  <1>5. m # 1
    <2>1. Good(1)
      <3>1. 1 \in 1..1 /\ \A k \in 1..1 : f[k] <= f[1] /\ (k < 1 => f[k] < f[1])
        OBVIOUS
      <3>2. QED
        BY <3>1
    <2>2. QED
      BY <1>4, <2>1
  <1>6. m - 1 \in 1..n /\ Good(m-1)
    <2>1. m - 1 \in 1..n
      BY <1>4, <1>5
    <2>2. m - 1 \notin Bad
      <3>1. ~(m <= m - 1)
        BY <1>4
      <3>2. QED
        BY <1>3, <3>1
    <2>3. QED
      BY <2>1, <2>2
  <1>7. PICK i \in 1..(m-1) : \A k \in 1..(m-1) : f[k] <= f[i] /\ (k < i => f[k] < f[i])
    BY <1>6
  <1>8. i \in 1..n /\ i \in 1..m /\ m \in 1..m /\ f[i] \in Int /\ f[m] \in Int
        /\ \A k \in 1..m : k = m \/ k \in 1..(m-1)
    BY <1>4, <1>5
  <1>9. \A k \in 1..m : f[k] \in Int
    BY <1>4
  <1>10. CASE f[m] > f[i]
    <2>1. \A k \in 1..m : f[k] <= f[m] /\ (k < m => f[k] < f[m])
      BY <1>7, <1>8, <1>9, <1>10
    <2>2. Good(m)
      BY <1>8, <2>1
    <2>3. QED
      BY <1>4, <2>2
  <1>11. CASE f[m] <= f[i]
    <2>1. \A k \in 1..m : f[k] <= f[i] /\ (k < i => f[k] < f[i])
      BY <1>7, <1>8, <1>9, <1>11
    <2>2. Good(m)
      BY <1>8, <2>1
    <2>3. QED
      BY <1>4, <2>2
  <1>12. QED
    BY <1>8, <1>10, <1>11

\* FindMaxRemainingTime finds a job of the queue that has the most left to do.
LEMMA FindMaxFacts ==
  ASSUME Typed, NEW s, s \in Seq(Jobs), s # << >>
  PROVE  /\ FindMaxRemainingTime(s) \in ToSet(s)
         /\ \A j \in ToSet(s) : pcb[j].remaining <= pcb[FindMaxRemainingTime(s)].remaining
  <1> DEFINE n == Len(s)
             f == [k \in 1..n |-> pcb[s[k]].remaining]
             First1(i) == \A k \in DOMAIN s :
                            /\ pcb[s[k]].remaining <= pcb[s[i]].remaining
                            /\ k < i => pcb[s[k]].remaining < pcb[s[i]].remaining
             m == CHOOSE i \in DOMAIN s : First1(i)
  <1>1. n \in Nat \ {0} /\ DOMAIN s = 1..n /\ \A k \in 1..n : s[k] \in Jobs
    BY LenProperties, EmptySeq
  <1>2. \A k \in 1..n : f[k] = pcb[s[k]].remaining
    OBVIOUS
  <1>3. \A k \in 1..n : f[k] \in Int
    BY <1>1, <1>2, TypeFacts
  <1>4. \E i \in 1..n : \A k \in 1..n : f[k] <= f[i] /\ (k < i => f[k] < f[i])
    <2> HIDE DEF f, n
    <2>1. QED
      BY <1>1, <1>3, FirstLongest
  <1>5. \E i \in DOMAIN s : First1(i)
    <2> HIDE DEF f
    <2>1. QED
      BY <1>1, <1>2, <1>4
  <1>6. m \in DOMAIN s /\ First1(m)
    <2> HIDE DEF First1
    <2>1. QED
      BY <1>5
  <1>7. FindMaxRemainingTime(s) = s[m]
    BY DEF FindMaxRemainingTime
  <1> HIDE DEF m
  <1>8. s[m] \in ToSet(s)
    BY <1>1, <1>6, InQueue
  <1>9. ASSUME NEW j \in ToSet(s) PROVE pcb[j].remaining <= pcb[s[m]].remaining
    <2>1. PICK k \in 1..n : s[k] = j
      BY <1>9, InQueue
    <2>2. QED
      BY <1>1, <1>6, <2>1
  <1>10. QED
    BY <1>7, <1>8, <1>9

\* The choice falls on the job that has the most left to do once the slice in progress
\* is charged, although it compares what they have left before that.
LEMMA LongestFacts ==
  ASSUME Invariant, pc = "choose", ~Empty("L2") \/ RunningLevel2
  PROVE  /\ LongestLevel2 \in Candidates
         /\ \A j \in Candidates : TimeLeft(j) <= TimeLeft(LongestLevel2)
  <1>1. Typed /\ Placed /\ Sliced /\ queue["L2"] \in Seq(Jobs) /\ "L2" \in QueueNames
    BY DEF Invariant, Placed, Queues, QueueNames
  <1>2. Where["L2"] = ToSet(queue["L2"])
    BY <1>1, WhereMembers DEF Where
  <1>3. ASSUME RunningLevel2
        PROVE  /\ current \in Jobs /\ pcb[current].remaining \in Int
               /\ TimeLeft(current) = pcb[current].remaining - 1
    <2>1. current # NoJob /\ pcb[current].priority = 2
      BY <1>3 DEF RunningLevel2
    <2>2. current \in Jobs /\ pcb[current].remaining \in Int
      BY <1>1, <2>1, RunningFacts
    <2>3. quantum = 1
      BY <1>1, <2>1 DEF Sliced, Slicing
    <2>4. QED
      BY <2>2, <2>3 DEF TimeLeft
  <1>4. ASSUME NEW j \in ToSet(queue["L2"])
        PROVE  j \in Jobs /\ TimeLeft(j) = pcb[j].remaining /\ pcb[j].remaining \in Int
    <2>1. j \in Jobs /\ j # current
      BY <1>1, <1>4, QueuedFacts
    <2>2. pcb[j].remaining \in Int
      BY <1>1, <2>1, TypeFacts
    <2>3. QED
      BY <2>1, <2>2 DEF TimeLeft
  <1>5. CASE Empty("L2")
    <2>1. RunningLevel2 /\ LongestLevel2 = current
      BY <1>5 DEF LongestLevel2
    <2>2. Candidates = {current}
      <3>1. \A x : x \notin ToSet(queue["L2"])
        BY <1>1, <1>5, InQueue DEF Empty
      <3>2. \A x : x \in Candidates <=> x = current
        BY <1>2, <2>1, <3>1 DEF Candidates
      <3>3. QED
        BY <3>2
    <2>3. TimeLeft(current) \in Int
      BY <1>3, <2>1
    <2>4. QED
      BY <2>1, <2>2, <2>3
  <1>6. CASE ~Empty("L2")
    <2> DEFINE l == FindMaxRemainingTime(queue["L2"])
    <2>1. /\ l \in ToSet(queue["L2"])
          /\ \A j \in ToSet(queue["L2"]) : pcb[j].remaining <= pcb[l].remaining
      BY <1>1, <1>6, FindMaxFacts DEF Empty
    <2>2. LongestLevel2 = IF RunningLevel2 /\ pcb[l].remaining < pcb[current].remaining
                            THEN current ELSE l
      BY <1>6 DEF LongestLevel2
    <2> HIDE DEF l
    <2>3. ASSUME NEW j \in Candidates
          PROVE  j \in ToSet(queue["L2"]) \/ (RunningLevel2 /\ j = current)
      BY <1>2, <2>3 DEF Candidates
    <2>4. CASE RunningLevel2 /\ pcb[l].remaining < pcb[current].remaining
      <3>1. LongestLevel2 = current /\ current \in Candidates
        BY <2>2, <2>4 DEF Candidates
      <3>2. ASSUME NEW j \in Candidates PROVE TimeLeft(j) <= TimeLeft(current)
        <4>1. CASE j = current
          BY <1>3, <2>4, <4>1
        <4>2. CASE j \in ToSet(queue["L2"])
          <5>1. TimeLeft(j) <= pcb[l].remaining
            BY <1>4, <2>1, <4>2
          <5>2. TimeLeft(j) \in Int /\ pcb[l].remaining \in Int
            BY <1>4, <2>1, <4>2
          <5>3. QED
            BY <1>3, <2>4, <5>1, <5>2
        <4>3. QED
          BY <2>3, <3>2, <4>1, <4>2
      <3>3. QED
        BY <3>1, <3>2
    <2>5. CASE ~(RunningLevel2 /\ pcb[l].remaining < pcb[current].remaining)
      <3>1. LongestLevel2 = l /\ l \in Candidates
        BY <1>2, <2>1, <2>2, <2>5 DEF Candidates
      <3>2. ASSUME NEW j \in Candidates PROVE TimeLeft(j) <= TimeLeft(l)
        <4>1. CASE RunningLevel2 /\ j = current
          <5>1. pcb[l].remaining \in Int /\ TimeLeft(l) = pcb[l].remaining
            BY <1>4, <2>1
          <5>2. QED
            BY <1>3, <2>5, <4>1, <5>1
        <4>2. CASE j \in ToSet(queue["L2"])
          BY <1>4, <2>1, <4>2
        <4>3. QED
          BY <2>3, <3>2, <4>1, <4>2
      <3>3. QED
        BY <3>1, <3>2
    <2>6. QED
      BY <2>4, <2>5
  <1>7. QED
    BY <1>5, <1>6

\* Trying whether a real-time job fits leaves the memory as it was.
LEMMA ProbeLeavesMemory ==
  ASSUME Invariant, ~Empty("rt"), NEW k, k = MemChk(blocks, job[First("rt")].mbytes), k # 0
  PROVE  MemFree(MemAlloc(blocks, k, job[First("rt")].mbytes), k) = blocks
  <1>1. /\ Typed /\ Placed /\ WellFormed(blocks) /\ Coalesced(blocks) /\ blocks \in Seq(Block)
        /\ queue["rt"] \in Seq(Jobs) /\ NoRepeats(queue["rt"]) /\ queue["rt"] # << >>
    BY DEF Invariant, Owned, Holding, Typed, TypeOK, Placed, Queues, QueueNames, Empty
  <1>2. First("rt") \in Jobs
    BY <1>1, HeadLeaves DEF First
  <1> DEFINE n == job[First("rt")].mbytes
  <1>3. n \in Nat \ {0} /\ k = MemChk(blocks, n)
    BY <1>1, <1>2, TypeFacts
  <1> HIDE DEF n
  <1>4. k \in 1..Len(blocks) /\ ~blocks[k].allocated /\ blocks[k].size >= n
    <2>1. n \in Nat /\ Len(blocks) \in Nat
      BY <1>1, <1>3, LenProperties
    <2>2. /\ MemChk(blocks, n) \in 0..Len(blocks)
          /\ MemChk(blocks, n) # 0 =>
               ~blocks[MemChk(blocks, n)].allocated /\ blocks[MemChk(blocks, n)].size >= n
      BY <1>1, <2>1, MemChkProperties
    <2>3. QED
      BY <1>3, <2>1, <2>2
  <1>5. n <= blocks[k].size
    <2>1. blocks[k].size \in Nat
      BY <1>1, <1>4, BlockTypes
    <2>2. QED
      BY <1>3, <1>4, <2>1
  <1>6. MemFree(MemAlloc(blocks, k, n), k) = blocks
    BY <1>1, <1>3, <1>4, <1>5, ProbeRestores
  <1>7. QED
    BY <1>6 DEF n

LEMMA ChooseVictimKeeps ==
  ASSUME Invariant, ChooseVictim
  PROVE  Invariant'
  <1> DEFINE k == IF Empty("rt") THEN 0 ELSE MemChk(blocks, job[First("rt")].mbytes)
  <1>1. blocks' = blocks
    <2>1. blocks' = IF k = 0 THEN blocks
                    ELSE MemFree(MemAlloc(blocks, k, job[First("rt")].mbytes), k)
      BY DEF ChooseVictim
    <2>2. CASE k = 0
      BY <2>1, <2>2
    <2>3. CASE k # 0
      <3>1. ~Empty("rt") /\ k = MemChk(blocks, job[First("rt")].mbytes)
        BY <2>3
      <3> HIDE DEF k
      <3>2. QED
        BY <2>1, <2>3, <3>1, ProbeLeavesMemory
    <2>4. QED
      BY <2>2, <2>3
  <1>2. Quiet /\ quantum' = quantum /\ timer' = timer
    BY <1>1 DEF ChooseVictim, Quiet, input, clock
  <1>3. pc = "choose" /\ pc' = "swapOut" /\ check' = check
    BY DEF ChooseVictim
  <1>4. longest' = IF ~Empty("rt") /\ k = 0 /\ (~Empty("L2") \/ RunningLevel2)
                     THEN LongestLevel2 ELSE longest
    BY DEF ChooseVictim
  <1>5. Typed /\ Placed /\ VictimChosen /\ Sliced /\ Admitted /\ Served
        /\ current' = current /\ pcb' = pcb /\ queue' = queue
    BY <1>2 DEF Invariant, Quiet
  <1>6. longest = NoJob
    BY <1>3, <1>5 DEF VictimChosen
  <1>7. longest' # NoJob =>
          ~Empty("rt") /\ (~Empty("L2") \/ RunningLevel2) /\ longest' = LongestLevel2
    BY <1>4, <1>6
  <1>8. Candidates \subseteq Jobs
    <2>1. "L2" \in Places
      BY DEF Places, QueueNames
    <2>2. Where["L2"] \subseteq Jobs
      BY <1>5, <2>1 DEF Placed, Apart
    <2>3. RunningLevel2 => current \in Jobs
      BY <1>5, RunningFacts DEF RunningLevel2
    <2>4. QED
      BY <2>2, <2>3 DEF Candidates
  <1>9. longest' \in Jobs \cup {NoJob}
    BY <1>3, <1>7, <1>8, LongestFacts
  <1>10. Typed'
    BY <1>2, <1>3, <1>5, <1>9 DEF Typed, TypeOK, Quiet
  <1>11. Placed' /\ Owned' /\ Where' = Where
    BY <1>2, QuietKeeps
  <1>12. Sliced'
    BY <1>2, <1>3, <1>5 DEF Sliced, BeforeCharge, Slicing
  <1>13. Timed'
    <2>1. ASSUME NEW i \in Jobs PROVE Uncharged(i)' <= Uncharged(i)
      BY <1>2, <1>3, <1>5, TypeFacts DEF Uncharged, BeforeCharge, Slicing
    <2>2. quantum' \in Nat
      BY <1>2, <1>5, TypeFacts
    <2>3. QED
      BY <1>2, <2>1, <2>2, QuietTimed
  <1>14. VictimChosen'
    <2>1. Candidates' = Candidates
      BY <1>5, <1>11 DEF Candidates, RunningLevel2
    <2>2. \A j : TimeLeft(j)' = TimeLeft(j)
      BY <1>2, <1>5 DEF TimeLeft
    <2>3. Empty("rt")' <=> Empty("rt")
      BY <1>5 DEF Empty
    <2>4. longest' # NoJob =>
            /\ longest' \in Candidates
            /\ \A j \in Candidates : TimeLeft(j) <= TimeLeft(longest')
      BY <1>3, <1>7, LongestFacts
    <2>5. \A j : TimeLeft(j)' = pcb[j].remaining - (IF j = current THEN quantum ELSE 0)
      BY <2>2 DEF TimeLeft
    <2>6. longest' # NoJob =>
            /\ longest' \in Candidates'
            /\ \A j \in Candidates' : TimeLeft(j)' <= TimeLeft(longest)'
      BY <1>5, <1>2, <2>1, <2>4 DEF TimeLeft
    <2>7. QED
      BY <1>3, <1>7, <2>3, <2>6 DEF VictimChosen
  <1>15. Admitted' /\ Served'
    BY <1>2, <1>3, <1>5, QuietKeeps DEF Admitted, Served, QueueNames
  <1>16. QED
    BY <1>10, <1>11, <1>12, <1>13, <1>14, <1>15 DEF Invariant

-----------------------------------------------------------------------------
(* The steps that move a job                                               *)

\* Whether a job holds memory can be told from where it is.
LEMMA OldPlace ==
  ASSUME Placed, NEW p, p \in Places, NEW j, j \in Where[p]
  PROVE  j \in Jobs /\ Suits(p, job[j], pcb[j]) /\ (j \in Resident <=> p \in MemoryPlaces)
  <1>1. Apart(Where) /\ Where = WhereOf(queue, current, pcb) /\ Suited(Where, job, pcb)
    BY DEF Placed, Where
  <1>2. j \in Jobs /\ \A q \in Places : j \in Where[q] <=> q = p
    BY <1>1, OnePlace
  <1>3. Resident = ResidentOf(queue, current)
    BY DEF Resident, Ready, ResidentOf
  <1>4. j \in Resident <=> \E m \in MemoryPlaces : j \in Where[m]
    BY <1>1, <1>3, ResidentPlaces
  <1>5. MemoryPlaces \subseteq Places
    BY DEF MemoryPlaces, Places, QueueNames
  <1>6. Suits(p, job[j], pcb[j])
    BY <1>1 DEF Suited
  <1>7. QED
    BY <1>2, <1>4, <1>5, <1>6

\* MoveHead in the form in which HeadMoves states it
LEMMA MoveHeadShape ==
  ASSUME Queues(queue), NEW from, from \in QueueNames, NEW to, to \in QueueNames, from # to
  PROVE  MoveHead(from, to) =
           Replaced(Replaced(queue, from, Tail(queue[from])), to,
                    Append(queue[to], Head(queue[from])))
  BY DEF MoveHead, Replaced, Queues

\* What a job in a list with first come first served has to say about itself
LEMMA HeadFacts ==
  ASSUME Placed, NEW n, n \in QueueNames, ~Empty(n)
  PROVE  /\ First(n) \in ToSet(queue[n]) /\ First(n) \in Jobs /\ First(n) # current
         /\ Suits(n, job[First(n)], pcb[First(n)]) /\ First(n) \in Where[n]
         /\ n \in Places /\ queue[n] # << >> /\ First(n) = Head(queue[n])
  <1>1. queue[n] \in Seq(Jobs) /\ NoRepeats(queue[n]) /\ queue[n] # << >>
    BY DEF Placed, Queues, Empty
  <1>2. First(n) = Head(queue[n])
    BY DEF First
  <1>3. First(n) \in ToSet(queue[n])
    BY <1>1, <1>2, HeadLeaves
  <1>4. QED
    BY <1>1, <1>2, <1>3, QueuedFacts

LEMMA UnloadKeeps ==
  ASSUME Invariant, Unload
  PROVE  Invariant' /\ \E p \in {"rt", "normal"} : Moves(First("dispatch"), p)
  <1>0. PICK j : j = First("dispatch")
    OBVIOUS
  <1> DEFINE to == IF pcb[j].priority = 0 THEN "rt" ELSE "normal"
  <1>1. /\ job' = job /\ time_quantum' = time_quantum /\ pcb' = pcb /\ current' = current
        /\ blocks' = blocks /\ total' = total /\ longest' = longest
        /\ quantum' = quantum /\ timer' = timer /\ check' = check
        /\ pc = "unload" /\ pc' = pc /\ queue' = MoveHead("dispatch", to)
    BY <1>0 DEF Unload, input, clock
  <1>2. ~Empty("dispatch") /\ job[j].arrival <= timer
    BY <1>0 DEF Unload, HeadHasArrived
  <1>3. Typed /\ Placed /\ Owned /\ VictimChosen /\ Sliced /\ Timed
    BY DEF Invariant
  <1>4. /\ "dispatch" \in QueueNames /\ to \in QueueNames /\ to # "dispatch"
        /\ to \in {"rt", "normal"} /\ to \notin MemoryPlaces /\ "dispatch" \notin MemoryPlaces
        /\ to \in Places /\ to # "cpu"
    BY DEF QueueNames, MemoryPlaces, Places
  <1>5. Queues(queue) /\ Apart(WhereOf(queue, current, pcb))
    BY <1>3 DEF Placed, Where
  <1>6. /\ j \in Jobs /\ j # current /\ Suits("dispatch", job[j], pcb[j])
        /\ j \in Where["dispatch"] /\ queue["dispatch"] # << >> /\ j = Head(queue["dispatch"])
        /\ "dispatch" \in Places
    BY <1>0, <1>2, <1>3, <1>4, HeadFacts
  <1>7. Suits(to, job[j], pcb[j])
    BY <1>6 DEF Suits
  <1> HIDE DEF to
  <1>8. queue' = Replaced(Replaced(queue, "dispatch", Tail(queue["dispatch"])), to,
                          Append(queue[to], j))
    BY <1>1, <1>4, <1>5, <1>6, MoveHeadShape
  <1>9. SameEnded(pcb, pcb')
    BY <1>1 DEF SameEnded
  <1>10. /\ Queues(queue')
         /\ MovedTo(WhereOf(queue, current, pcb), WhereOf(queue', current, pcb'), j, to)
    BY <1>4, <1>5, <1>6, <1>8, <1>9, HeadMoves
  <1>11. MovedTo(WhereOf(queue, current, pcb), WhereOf(queue', current', pcb'), j, to)
    BY <1>1, <1>10
  <1>12. /\ \A i \in Jobs : i # j => pcb'[i] = pcb[i]
         /\ Suits(to, job[j], pcb'[j])
    BY <1>1, <1>7
  <1>13. Placed' /\ \A i : i \in Resident' <=> IF i = j THEN to \in MemoryPlaces
                                               ELSE i \in Resident
    BY <1>1, <1>3, <1>4, <1>6, <1>10, <1>11, <1>12, StepMoves
  <1>14. j \notin Resident
    BY <1>3, <1>4, <1>6, OldPlace
  <1>15. Owned'
    <2>1. \A i : i \in Resident' <=> i \in Resident
      BY <1>4, <1>13, <1>14
    <2>2. \A i \in Resident : pcb'[i].block = pcb[i].block
      BY <1>1
    <2>3. QED
      BY <1>1, <1>3, <2>1, <2>2, HoldingSame DEF Owned
  <1>16. Typed'
    <2>1. queue' \in [QueueNames -> Seq(Jobs)]
      BY <1>10 DEF Queues
    <2>2. QED
      BY <1>1, <1>3, <2>1 DEF Typed, TypeOK
  <1>17. Timed'
    <2>1. \A i \in Jobs : i # j => Uncharged(i)' <= Uncharged(i)
      BY <1>1, <1>3, TypeFacts DEF Uncharged
    <2>2. Uncharged(j)' = 0
      BY <1>1, <1>6 DEF Uncharged
    <2>3. timer >= job[j].arrival + job[j].service - pcb'[j].remaining + Uncharged(j)'
      <3>1. pcb'[j].remaining = job[j].service
        BY <1>1, <1>6 DEF Suits
      <3>2. job[j].arrival \in Nat /\ job[j].service \in Nat /\ timer \in Nat
        BY <1>3, <1>6, TypeFacts
      <3>3. QED
        BY <1>2, <2>2, <3>1, <3>2
    <2>4. total'.finish >= total'.arrival + total'.service
      BY <1>1, <1>3 DEF Timed
    <2>5. QED
      BY <1>1, <1>3, <1>4, <1>5, <1>6, <1>11, <1>12, <1>16, <2>1, <2>3, <2>4, TimedMoves
  <1>18. Sliced'
    BY <1>1, <1>3 DEF Sliced
  <1>19. VictimChosen'
    BY <1>1, <1>3, NoVictim
  <1>20. Admitted' /\ Served'
    BY <1>1 DEF Admitted, Served
  <1>21. QED
    BY <1>0, <1>4, <1>11, <1>13, <1>15, <1>16, <1>17, <1>18, <1>19, <1>20 DEF Invariant, Moves

\* Admission: the head of an arrived queue gets its memory and joins a ready queue.
LEMMA AdmitKeeps ==
  ASSUME Invariant, NEW from, NEW to,
         (from = "normal" /\ to = "L1") \/ (from = "rt" /\ to = "L0"),
         ~Empty(from), Fits(First(from)), Admit(from, to),
         UNCHANGED << input, current, longest, check, clock, total, pc >>,
         pc \in {"admitNormal", "admitRT"}
  PROVE  /\ Typed' /\ Placed' /\ Owned' /\ Sliced' /\ Timed' /\ VictimChosen' /\ Served'
         /\ ~Empty(to)' /\ Moves(First(from), to)
  <1>0. PICK j : j = First(from)
    OBVIOUS
  <1> DEFINE n == job[j].mbytes
             k == MemChk(blocks, n)
  <1>1. /\ job' = job /\ time_quantum' = time_quantum /\ current' = current
        /\ total' = total /\ longest' = longest
        /\ quantum' = quantum /\ timer' = timer /\ check' = check /\ pc' = pc
    BY DEF input, clock
  <1>2. /\ blocks' = MemAlloc(blocks, k, n) /\ k # 0
        /\ pcb' = [pcb EXCEPT ![j].block = blocks[k].offset]
        /\ queue' = MoveHead(from, to)
    BY <1>0 DEF Admit, Fits
  <1>3. Typed /\ Placed /\ Owned /\ VictimChosen /\ Sliced /\ Timed
    BY DEF Invariant
  <1>4. /\ from \in QueueNames /\ to \in QueueNames /\ from # to
        /\ to \in MemoryPlaces /\ from \notin MemoryPlaces
        /\ to \in Places /\ from \in Places /\ to # "cpu"
    BY DEF QueueNames, MemoryPlaces, Places
  <1>5. Queues(queue) /\ Apart(WhereOf(queue, current, pcb))
    BY <1>3 DEF Placed, Where
  <1>6. /\ j \in Jobs /\ j # current /\ Suits(from, job[j], pcb[j])
        /\ j \in Where[from] /\ queue[from] # << >> /\ j = Head(queue[from])
    BY <1>0, <1>3, <1>4, HeadFacts
  <1>7. queue' = Replaced(Replaced(queue, from, Tail(queue[from])), to, Append(queue[to], j))
    BY <1>2, <1>4, <1>5, <1>6, MoveHeadShape
  <1>8. /\ \A i \in Jobs : i # j => pcb'[i] = pcb[i]
        /\ pcb'[j].priority = pcb[j].priority /\ pcb'[j].remaining = pcb[j].remaining
        /\ pcb'[j].status = pcb[j].status /\ pcb'[j].block = blocks[k].offset
    <2> HIDE DEF k
    <2>1. QED
      BY <1>2, <1>3, <1>6 DEF Typed, TypeOK
  <1>9. SameEnded(pcb, pcb')
    BY <1>8 DEF SameEnded
  <1>10. /\ Queues(queue')
         /\ MovedTo(WhereOf(queue, current, pcb), WhereOf(queue', current, pcb'), j, to)
    BY <1>4, <1>5, <1>6, <1>7, <1>9, HeadMoves
  <1>11. MovedTo(WhereOf(queue, current, pcb), WhereOf(queue', current', pcb'), j, to)
    BY <1>1, <1>10
  <1>12. j \notin Resident
    BY <1>3, <1>4, <1>6, OldPlace
  <1>13. n \in Nat \ {0}
    BY <1>3, <1>6, TypeFacts
  <1>14. \A i \in Resident : pcb'[i].block = pcb[i].block
    <2>1. Resident \subseteq Jobs
      <3>1. /\ "L0" \in QueueNames /\ "L1" \in QueueNames /\ "L2" \in QueueNames
        BY DEF QueueNames
      <3>2. \A i \in Ready : i \in Jobs
        BY <1>3, <3>1, QueuedFacts DEF Ready
      <3>3. current # NoJob => current \in Jobs
        BY <1>3, RunningFacts
      <3>4. QED
        BY <3>2, <3>3 DEF Resident
    <2>2. QED
      BY <1>8, <1>12, <2>1
  <1> DEFINE S == Resident \cup {j}
  <1>15. /\ Holding(blocks', S, pcb', job)
         /\ blocks[k].offset \in 0..MemSize-1 /\ n <= MemSize /\ blocks' \in Seq(Block)
    <2>1. Holding(blocks, Resident, pcb, job)
      BY <1>3 DEF Owned
    <2>2. KeepBlocks(Resident, pcb, pcb')
      BY <1>14 DEF KeepBlocks
    <2>3. k = MemChk(blocks, job[j].mbytes) /\ blocks' = MemAlloc(blocks, k, job[j].mbytes)
      BY <1>2
    <2>4. job[j].mbytes \in Nat \ {0}
      BY <1>13
    <2>5. /\ MemChk(blocks, job[j].mbytes) # 0
          /\ pcb'[j].block = blocks[MemChk(blocks, job[j].mbytes)].offset
      BY <1>2, <1>8
    <2> HIDE DEF k, n
    <2>6. /\ Holding(blocks', S, pcb', job)
          /\ blocks[k].offset \in 0..MemSize-1 /\ job[j].mbytes <= MemSize
          /\ blocks' \in Seq(Block)
      BY <1>12, <2>1, <2>2, <2>3, <2>4, <2>5, GrantBlock DEF S
    <2>7. QED
      BY <2>6 DEF n
  <1>16. Suits(to, job[j], pcb'[j])
    BY <1>6, <1>8, <1>15 DEF Suits
  <1> HIDE DEF n, k
  <1>17. Placed' /\ \A i : i \in Resident' <=> IF i = j THEN to \in MemoryPlaces
                                               ELSE i \in Resident
    BY <1>1, <1>3, <1>4, <1>6, <1>8, <1>10, <1>11, <1>16, StepMoves
  <1>18. Owned'
    <2>1. \A i : i \in Resident' <=> i \in S
      BY <1>4, <1>17
    <2>2. Resident' = S
      BY <2>1
    <2>3. QED
      BY <1>1, <1>15, <2>2 DEF Owned
  <1>19. Typed'
    <2>1. queue' \in [QueueNames -> Seq(Jobs)]
      BY <1>10 DEF Queues
    <2>2. pcb' \in [Jobs -> [priority  : 0..2,
                       remaining : Int,
                       status    : {"INITIALIZED", "RUNNING", "SUSPENDED", "TERMINATED"},
                       block     : 0..MemSize-1 \cup {NoOffset}]]
      BY <1>2, <1>3, <1>6, <1>15 DEF Typed, TypeOK
    <2>3. QED
      BY <1>1, <1>3, <1>15, <2>1, <2>2 DEF Typed, TypeOK
  <1>20. Timed'
    <2>1. \A i \in Jobs : i # j => Uncharged(i)' <= Uncharged(i)
      BY <1>1, <1>3, TypeFacts DEF Uncharged
    <2>2. Uncharged(j)' = Uncharged(j)
      BY <1>1 DEF Uncharged
    <2>3. timer >= job[j].arrival + job[j].service - pcb'[j].remaining + Uncharged(j)'
      <3>1. from \notin {"dispatch", "gone"}
        OBVIOUS
      <3>2. timer >= job[j].arrival + job[j].service - pcb[j].remaining + Uncharged(j)
        BY <1>3, <1>4, <1>6, <3>1 DEF Timed
      <3>3. QED
        BY <1>8, <2>2, <3>2
    <2>4. total'.finish >= total'.arrival + total'.service
      BY <1>1, <1>3 DEF Timed
    <2>5. QED
      BY <1>1, <1>3, <1>4, <1>5, <1>6, <1>8, <1>11, <1>19, <2>1, <2>3, <2>4, TimedMoves
  <1>21. Sliced'
    <2>1. current # NoJob => pcb'[current] = pcb[current]
      BY <1>3, <1>6, <1>8, RunningFacts
    <2>2. QED
      BY <1>1, <1>3, <2>1 DEF Sliced
  <1>22. VictimChosen'
    <2>1. pc # "swapOut"
      OBVIOUS
    <2>2. QED
      BY <1>1, <1>3, <2>1, NoVictim
  <1>23. Served'
    BY <1>1 DEF Served
  <1>24. ~Empty(to)'
    <2>1. j \in Where'[to]
      BY <1>4, <1>11 DEF MovedTo, Where
    <2>2. Where'[to] = ToSet(queue'[to])
      BY <1>4, WhereMembers DEF Where
    <2>3. queue'[to] \in Seq(Jobs)
      BY <1>4, <1>10 DEF Queues
    <2>4. queue'[to] # << >>
      BY <2>1, <2>2, <2>3, InQueue
    <2>5. QED
      BY <2>4 DEF Empty
  <1>25. QED
    BY <1>0, <1>11, <1>17, <1>18, <1>19, <1>20, <1>21, <1>22, <1>23, <1>24 DEF Moves

LEMMA AdmitNormalKeeps ==
  ASSUME Invariant, AdmitNormal
  PROVE  Invariant' /\ Moves(First("normal"), "L1")
  <1>1. /\ ~Empty("normal") /\ Fits(First("normal")) /\ Admit("normal", "L1")
        /\ UNCHANGED << input, current, longest, check, clock, total, pc >>
        /\ pc = "admitNormal" /\ pc' = pc
    BY DEF AdmitNormal, CanAdmitNormal
  <1>2. /\ Typed' /\ Placed' /\ Owned' /\ Sliced' /\ Timed' /\ VictimChosen' /\ Served'
        /\ Moves(First("normal"), "L1")
    BY <1>1, AdmitKeeps
  <1>3. Admitted'
    BY <1>1 DEF Admitted
  <1>4. QED
    BY <1>2, <1>3 DEF Invariant

LEMMA AdmitRealTimeKeeps ==
  ASSUME Invariant, AdmitRealTime
  PROVE  Invariant' /\ Moves(First("rt"), "L0")
  <1>1. /\ ~Empty("rt") /\ Fits(First("rt")) /\ Admit("rt", "L0")
        /\ UNCHANGED << input, current, longest, check, clock, total, pc >>
        /\ pc = "admitRT" /\ pc' = pc
    BY DEF AdmitRealTime, CanAdmitRealTime
  <1>2. /\ Typed' /\ Placed' /\ Owned' /\ Sliced' /\ Timed' /\ VictimChosen' /\ Served'
        /\ ~Empty("L0")' /\ Moves(First("rt"), "L0")
    BY <1>1, AdmitKeeps
  <1>3. Admitted'
    BY <1>1, <1>2 DEF Admitted
  <1>4. QED
    BY <1>2, <1>3 DEF Invariant

\* Who holds memory is a job.
LEMMA ResidentJobs ==
  ASSUME Typed, Placed
  PROVE  Resident \subseteq Jobs
  <1>1. "L0" \in QueueNames /\ "L1" \in QueueNames /\ "L2" \in QueueNames
    BY DEF QueueNames
  <1>2. \A i \in Ready : i \in Jobs
    BY <1>1, QueuedFacts DEF Ready
  <1>3. current # NoJob => current \in Jobs
    BY RunningFacts
  <1>4. QED
    BY <1>2, <1>3 DEF Resident

LEMMA TerminateKeeps ==
  ASSUME Invariant, Terminate
  PROVE  Invariant' /\ Moves(current, "gone")
  <1>0. PICK j : j = current
    OBVIOUS
  <1>1. /\ job' = job /\ time_quantum' = time_quantum /\ queue' = queue /\ current' = NoJob
        /\ longest' = longest /\ quantum' = quantum /\ timer' = timer
        /\ check' = TRUE /\ pc = "expire" /\ pc' = "admitNormal"
        /\ blocks' = MemFree(blocks, BlockAt(blocks, pcb[j].block))
    BY <1>0 DEF Terminate, input, clock, Released
  <1>2. total' = [n       |-> total.n + 1,
                  arrival |-> total.arrival + job[j].arrival,
                  service |-> total.service + job[j].service,
                  finish  |-> total.finish + timer]
    BY <1>0 DEF Terminate
  <1>3. pcb' = [pcb EXCEPT ![j].remaining = @ - quantum,
                           ![j].status = "TERMINATED",
                           ![j].block = NoOffset]
    BY <1>0 DEF Terminate
  <1>4. j # NoJob /\ pcb[j].remaining - quantum <= 0
    BY <1>0 DEF Terminate, Expired
  <1>5. Typed /\ Placed /\ Owned /\ VictimChosen /\ Sliced /\ Timed
    BY DEF Invariant
  <1>6. /\ j \in Jobs /\ Suits("cpu", job[j], pcb[j]) /\ pcb[j].remaining \in Nat \ {0}
        /\ j \in Where["cpu"] /\ "cpu" \in Places /\ pcb[j].priority \in 0..2
    BY <1>0, <1>4, <1>5, RunningFacts
  <1>7. pcb[j].remaining = quantum /\ quantum \in Nat
    <2>1. quantum <= pcb[j].remaining
      BY <1>0, <1>1, <1>4, <1>5 DEF Sliced, BeforeCharge
    <2>2. quantum \in Nat
      BY <1>5, TypeFacts
    <2>3. QED
      BY <1>4, <1>6, <2>1, <2>2
  <1>8. /\ \A i \in Jobs : i # j => pcb'[i] = pcb[i]
        /\ pcb'[j].priority = pcb[j].priority /\ pcb'[j].remaining = pcb[j].remaining - quantum
        /\ pcb'[j].status = "TERMINATED"
    BY <1>3, <1>5, <1>6 DEF Typed, TypeOK
  <1>9. pcb'[j].remaining = 0
    BY <1>6, <1>7, <1>8
  <1>10. /\ Queues(queue) /\ Apart(WhereOf(queue, current, pcb))
    BY <1>5 DEF Placed, Where
  <1>11. MovedTo(WhereOf(queue, current, pcb), WhereOf(queue', current', pcb'), j, "gone")
    <2>1. MovedTo(WhereOf(queue, j, pcb), WhereOf(queue, NoJob, pcb'), j, "gone")
      BY <1>0, <1>4, <1>8, <1>10, RunningEnds
    <2>2. QED
      BY <1>0, <1>1, <2>1
  <1>12. Suits("gone", job[j], pcb'[j])
    BY <1>6, <1>8, <1>9 DEF Suits
  <1>13. "gone" \in Places /\ "gone" \notin MemoryPlaces /\ "cpu" \in MemoryPlaces
    BY DEF Places, MemoryPlaces
  <1>14. Placed' /\ \A i : i \in Resident' <=> IF i = j THEN "gone" \in MemoryPlaces
                                               ELSE i \in Resident
    BY <1>1, <1>5, <1>6, <1>8, <1>10, <1>11, <1>12, <1>13, StepMoves
  <1>15. Owned' /\ blocks' \in Seq(Block)
    <2>1. j \in Resident
      BY <1>5, <1>6, <1>13, OldPlace
    <2>2. KeepBlocks(Resident \ {j}, pcb, pcb')
      BY <1>5, <1>8, ResidentJobs DEF KeepBlocks
    <2>3. Holding(blocks, Resident, pcb, job)
      BY <1>5 DEF Owned
    <2>4. Holding(blocks', Resident \ {j}, pcb', job) /\ blocks' \in Seq(Block)
      BY <1>1, <2>1, <2>2, <2>3, ReturnBlock
    <2>5. Resident' = Resident \ {j}
      BY <1>13, <1>14
    <2>6. QED
      BY <1>1, <2>4, <2>5 DEF Owned
  <1>16. /\ {total'.n, total'.arrival, total'.service, total'.finish} \subseteq Nat
         /\ total'.finish >= total'.arrival + total'.service
    <2>1. {total.n, total.arrival, total.service, total.finish} \subseteq Nat
      BY <1>5 DEF Typed, TypeOK
    <2>2. job[j].arrival \in Nat /\ job[j].service \in Nat /\ timer \in Nat
      BY <1>5, <1>6, TypeFacts
    <2>3. "cpu" \notin {"dispatch", "gone"}
      OBVIOUS
    <2>4. timer >= job[j].arrival + job[j].service - pcb[j].remaining + Uncharged(j)
      BY <1>5, <1>6, <2>3 DEF Timed
    <2>5. Uncharged(j) = quantum
      BY <1>0, <1>1 DEF Uncharged, BeforeCharge
    <2>6. timer >= job[j].arrival + job[j].service
      BY <1>7, <2>2, <2>4, <2>5
    <2>7. total.finish >= total.arrival + total.service
      BY <1>5 DEF Timed
    <2>8. /\ total'.n = total.n + 1 /\ total'.arrival = total.arrival + job[j].arrival
          /\ total'.service = total.service + job[j].service
          /\ total'.finish = total.finish + timer
      BY <1>2
    <2>9. QED
      BY <2>1, <2>2, <2>6, <2>7, <2>8
  <1>17. Typed'
    <2>1. pcb' \in [Jobs -> [priority  : 0..2,
                       remaining : Int,
                       status    : {"INITIALIZED", "RUNNING", "SUSPENDED", "TERMINATED"},
                       block     : 0..MemSize-1 \cup {NoOffset}]]
      <3>1. pcb[j].remaining - quantum \in Int
        BY <1>6, <1>7
      <3> DEFINE r == [pcb[j] EXCEPT !.remaining = @ - quantum, !.status = "TERMINATED",
                                     !.block = NoOffset]
      <3>2. pcb[j] \in [priority  : 0..2,
                        remaining : Int,
                        status    : {"INITIALIZED", "RUNNING", "SUSPENDED", "TERMINATED"},
                        block     : 0..MemSize-1 \cup {NoOffset}]
        BY <1>5, <1>6 DEF Typed, TypeOK
      <3>3. r \in [priority  : 0..2,
                   remaining : Int,
                   status    : {"INITIALIZED", "RUNNING", "SUSPENDED", "TERMINATED"},
                   block     : 0..MemSize-1 \cup {NoOffset}]
        BY <3>1, <3>2
      <3>4. pcb' = [pcb EXCEPT ![j] = r]
        BY <1>3, <1>5, <1>6, <3>2 DEF Typed, TypeOK
      <3> HIDE DEF r
      <3>5. QED
        BY <1>5, <1>6, <3>3, <3>4 DEF Typed, TypeOK
    <2>2. QED
      BY <1>1, <1>5, <1>15, <1>16, <2>1 DEF Typed, TypeOK
  <1>18. Timed'
    <2>1. \A i \in Jobs : i # j => Uncharged(i)' <= Uncharged(i)
      <3>1. \A i \in Jobs : Uncharged(i)' = 0 /\ Uncharged(i) \in Nat
        BY <1>1, <1>5, UnchargedFacts DEF Uncharged, Jobs, NoJob
      <3>2. QED
        BY <3>1
    <2>2. QED
      BY <1>1, <1>5, <1>6, <1>8, <1>10, <1>11, <1>13, <1>16, <1>17, <2>1, TimedMoves
  <1>19. Sliced'
    BY <1>1 DEF Sliced
  <1>20. VictimChosen'
    BY <1>1, <1>5, NoVictim
  <1>21. Admitted' /\ Served'
    BY <1>1 DEF Admitted, Served
  <1>22. QED
    BY <1>0, <1>11, <1>14, <1>15, <1>17, <1>18, <1>19, <1>20, <1>21 DEF Invariant, Moves

Process == [priority  : 0..2,
            remaining : Int,
            status    : {"INITIALIZED", "RUNNING", "SUSPENDED", "TERMINATED"},
            block     : 0..MemSize-1 \cup {NoOffset}]

\* What admission has left behind stays so while the arrived queues, the ready queue of
\* level 0 and the memory stay the same.
LEMMA AdmittedKeeps ==
  ASSUME Admitted, pc = "charge", pc' = "dispatch", job' = job, blocks' = blocks,
         queue'["rt"] = queue["rt"], queue'["normal"] = queue["normal"],
         queue'["L0"] = queue["L0"]
  PROVE  Admitted'
  <1>1. /\ Empty("rt")' <=> Empty("rt")
        /\ Empty("normal")' <=> Empty("normal")
        /\ Empty("L0")' <=> Empty("L0")
    BY DEF Empty
  <1>2. /\ Fits(First("rt"))' <=> Fits(First("rt"))
        /\ Fits(First("normal"))' <=> Fits(First("normal"))
    BY DEF Fits, First
  <1>3. QED
    BY <1>1, <1>2 DEF Admitted

\* The running process is charged and joins level 2, which becomes u.
LEMMA SuspendKeeps ==
  ASSUME Invariant, pc = "charge", current # NoJob, pcb' = Suspended,
         NEW u, With(u, queue["L2"], current), queue' = Replaced(queue, "L2", u),
         current' = NoJob, pc' = "dispatch", check' \in BOOLEAN,
         UNCHANGED << input, longest, clock, blocks, total >>
  PROVE  Invariant' /\ Moves(current, "L2")
  <1>0. PICK j : j = current
    OBVIOUS
  <1>1. /\ job' = job /\ time_quantum' = time_quantum
        /\ longest' = longest /\ quantum' = quantum /\ timer' = timer
        /\ blocks' = blocks /\ total' = total
    BY DEF input, clock
  <1>2. pcb' = [pcb EXCEPT ![j].remaining = @ - quantum,
                           ![j].status = "SUSPENDED",
                           ![j].priority = IF @ = 1 THEN 2 ELSE @]
    BY <1>0 DEF Suspended
  <1>3. Typed /\ Placed /\ Owned /\ VictimChosen /\ Sliced /\ Timed /\ Admitted
    BY DEF Invariant
  <1>4. /\ j \in Jobs /\ Suits("cpu", job[j], pcb[j]) /\ pcb[j].remaining \in Nat \ {0}
        /\ j \in Where["cpu"] /\ "cpu" \in Places /\ pcb[j].priority \in 0..2
    BY <1>0, <1>3, RunningFacts
  <1>5. quantum < pcb[j].remaining /\ quantum \in Nat /\ pcb[j].priority # 0
    <2>1. quantum \in Nat
      BY <1>3, TypeFacts
    <2>2. QED
      BY <1>0, <1>3, <2>1 DEF Sliced, Slicing
  <1>6. pcb[j] \in Process
    BY <1>3, <1>4 DEF Typed, TypeOK, Process
  <1>7. /\ \A i \in Jobs : i # j => pcb'[i] = pcb[i]
        /\ pcb'[j].priority = 2 /\ pcb'[j].remaining = pcb[j].remaining - quantum
        /\ pcb'[j].status = "SUSPENDED" /\ pcb'[j].block = pcb[j].block
    <2>1. IF pcb[j].priority = 1 THEN pcb'[j].priority = 2
                                 ELSE pcb'[j].priority = pcb[j].priority
      BY <1>2, <1>3, <1>4 DEF Typed, TypeOK
    <2>2. pcb'[j].priority = 2
      BY <1>4, <1>5, <2>1
    <2>3. QED
      BY <1>2, <1>3, <1>4, <2>2 DEF Typed, TypeOK
  <1>8. pcb'[j].remaining > 0 /\ pcb'[j].remaining \in Int
    BY <1>4, <1>5, <1>7
  <1>9. Queues(queue) /\ Apart(WhereOf(queue, current, pcb))
    BY <1>3 DEF Placed, Where
  <1>10. SameEnded(pcb, pcb')
    <2>1. pcb[j].status # "TERMINATED"
      BY <1>4 DEF Suits
    <2>2. QED
      BY <1>7, <2>1 DEF SameEnded
  <1>11. "L2" \in QueueNames /\ "L2" \in Places /\ "L2" \in MemoryPlaces /\ "cpu" \in MemoryPlaces
    BY DEF QueueNames, Places, MemoryPlaces
  <1>12. /\ Queues(queue')
         /\ \A n \in QueueNames : n # "L2" => queue'[n] = queue[n]
         /\ MovedTo(WhereOf(queue, current, pcb), WhereOf(queue', NoJob, pcb'), current, "L2")
    BY <1>9, <1>10, <1>11, RunningMoves
  <1>13. MovedTo(WhereOf(queue, current, pcb), WhereOf(queue', current', pcb'), j, "L2")
    BY <1>0, <1>12
  <1>14. Suits("L2", job[j], pcb'[j])
    BY <1>4, <1>5, <1>7, <1>8 DEF Suits
  <1>15. Placed' /\ \A i : i \in Resident' <=> IF i = j THEN "L2" \in MemoryPlaces
                                               ELSE i \in Resident
    BY <1>1, <1>3, <1>4, <1>7, <1>11, <1>12, <1>13, <1>14, StepMoves
  <1>16. Owned'
    <2>1. \A i : i \in Resident' <=> i \in Resident
      BY <1>3, <1>4, <1>11, <1>15, OldPlace
    <2>2. \A i \in Resident : pcb'[i].block = pcb[i].block
      BY <1>3, <1>7, ResidentJobs
    <2>3. QED
      BY <1>1, <1>3, <2>1, <2>2, HoldingSame DEF Owned
  <1>17. Typed'
    <2> DEFINE r == [pcb[j] EXCEPT !.remaining = @ - quantum, !.status = "SUSPENDED",
                                   !.priority = IF @ = 1 THEN 2 ELSE @]
    <2>1. pcb[j].remaining - quantum \in Int
      BY <1>4, <1>5
    <2>2. r \in Process
      <3>1. CASE pcb[j].priority = 1
        <4>1. r = [pcb[j] EXCEPT !.remaining = @ - quantum, !.status = "SUSPENDED",
                                 !.priority = 2]
          BY <3>1
        <4>2. 2 \in 0..2
          OBVIOUS
        <4> HIDE DEF r
        <4>3. QED
          BY <1>6, <2>1, <4>1, <4>2 DEF Process
      <3>2. CASE pcb[j].priority # 1
        <4>1. r = [pcb[j] EXCEPT !.remaining = @ - quantum, !.status = "SUSPENDED",
                                 !.priority = @]
          BY <3>2
        <4> HIDE DEF r
        <4>2. QED
          BY <1>4, <1>6, <2>1, <4>1 DEF Process
      <3>3. QED
        BY <3>1, <3>2
    <2>3. pcb' = [pcb EXCEPT ![j] = r]
      BY <1>2, <1>3, <1>4, <1>6 DEF Typed, TypeOK, Process
    <2> HIDE DEF r
    <2>4. pcb' \in [Jobs -> Process]
      BY <1>3, <1>4, <2>2, <2>3 DEF Typed, TypeOK, Process
    <2>5. queue' \in [QueueNames -> Seq(Jobs)]
      BY <1>12 DEF Queues
    <2>6. QED
      BY <1>1, <1>3, <2>4, <2>5 DEF Typed, TypeOK, Process
  <1>18. Timed'
    <2>1. \A i \in Jobs : i # j => Uncharged(i)' <= Uncharged(i)
      <3>1. \A i \in Jobs : Uncharged(i)' = 0 /\ Uncharged(i) \in Nat
        BY <1>3, UnchargedFacts DEF Uncharged, Jobs, NoJob
      <3>2. QED
        BY <3>1
    <2>2. timer >= job[j].arrival + job[j].service - pcb'[j].remaining + Uncharged(j)'
      <3>1. "cpu" \notin {"dispatch", "gone"}
        OBVIOUS
      <3>2. timer >= job[j].arrival + job[j].service - pcb[j].remaining + Uncharged(j)
        BY <1>3, <1>4, <3>1 DEF Timed
      <3>3. Uncharged(j) = quantum
        BY <1>0 DEF Uncharged, Slicing
      <3>4. Uncharged(j)' = 0
        BY <1>4 DEF Uncharged, Jobs, NoJob
      <3>5. timer \in Nat /\ job[j].arrival \in Nat /\ job[j].service \in Nat
        BY <1>3, <1>4, TypeFacts
      <3>6. QED
        BY <1>4, <1>5, <1>7, <3>2, <3>3, <3>4, <3>5
    <2>3. total'.finish >= total'.arrival + total'.service
      BY <1>1, <1>3 DEF Timed
    <2>4. QED
      BY <1>1, <1>3, <1>4, <1>7, <1>9, <1>11, <1>13, <1>17, <2>1, <2>2, <2>3, TimedMoves
  <1>19. Sliced'
    BY DEF Sliced
  <1>20. VictimChosen'
    BY <1>1, <1>3, NoVictim
  <1>21. Admitted'
    <2>1. /\ queue'["rt"] = queue["rt"] /\ queue'["normal"] = queue["normal"]
          /\ queue'["L0"] = queue["L0"]
      BY <1>12 DEF QueueNames
    <2>2. QED
      BY <1>1, <1>3, <2>1, AdmittedKeeps
  <1>22. Served'
    BY DEF Served
  <1>23. QED
    BY <1>0, <1>13, <1>15, <1>16, <1>17, <1>18, <1>19, <1>20, <1>21, <1>22
    DEF Invariant, Moves

\* The running process may join level 2 at either end.
LEMMA JoinsLevel2 ==
  ASSUME Typed, Placed, current # NoJob
  PROVE  /\ With(Append(queue["L2"], current), queue["L2"], current)
         /\ With(Cons(current, queue["L2"]), queue["L2"], current)
  <1> DEFINE s == queue["L2"]
  <1>1. "L2" \in QueueNames
    BY DEF QueueNames
  <1>2. s \in Seq(Jobs) /\ NoRepeats(s) /\ current \in Jobs /\ current \notin ToSet(s)
    BY <1>1, RunningFacts DEF Placed, Queues
  <1> HIDE DEF s
  <1>3. /\ Append(s, current) \in Seq(Jobs) /\ NoRepeats(Append(s, current))
        /\ \A x : x \in ToSet(Append(s, current)) <=> x \in ToSet(s) \/ x = current
    BY <1>2, JoinsAtEnd
  <1>4. /\ Cons(current, s) \in Seq(Jobs) /\ NoRepeats(Cons(current, s))
        /\ \A x : x \in ToSet(Cons(current, s)) <=> x \in ToSet(s) \/ x = current
    BY <1>2, JoinsAtFront
  <1>5. With(Append(s, current), s, current) /\ With(Cons(current, s), s, current)
    BY <1>3, <1>4 DEF With
  <1>6. QED
    BY <1>5 DEF s

LEMMA PreemptKeeps ==
  ASSUME Invariant, Preempt
  PROVE  Invariant' /\ Moves(current, "L2")
  <1> DEFINE u == IF pcb[current].priority = 1 THEN Append(queue["L2"], current)
                                               ELSE Cons(current, queue["L2"])
  <1>1. /\ pc = "charge" /\ current # NoJob /\ pcb' = Suspended
        /\ current' = NoJob /\ pc' = "dispatch" /\ check' = check
        /\ UNCHANGED << input, longest, clock, blocks, total >>
    BY DEF Preempt
  <1>2. queue' = Replaced(queue, "L2", u)
    BY DEF Preempt, Replaced
  <1>3. With(u, queue["L2"], current)
    BY <1>1, JoinsLevel2 DEF Invariant
  <1>4. check' \in BOOLEAN
    BY <1>1 DEF Invariant, Typed, TypeOK
  <1> HIDE DEF u
  <1>5. QED
    BY <1>1, <1>2, <1>3, <1>4, SuspendKeeps

LEMMA DemoteKeeps ==
  ASSUME Invariant, Demote
  PROVE  Invariant' /\ Moves(current, "L2")
  <1> DEFINE u == Append(queue["L2"], current)
  <1>1. /\ pc = "charge" /\ current # NoJob /\ pcb' = Suspended
        /\ current' = NoJob /\ pc' = "dispatch" /\ check' \in BOOLEAN
        /\ UNCHANGED << input, longest, clock, blocks, total >>
    BY DEF Demote
  <1>2. queue' = Replaced(queue, "L2", u)
    BY DEF Demote, Replaced
  <1>3. With(u, queue["L2"], current)
    BY <1>1, JoinsLevel2 DEF Invariant
  <1> HIDE DEF u
  <1>4. QED
    BY <1>1, <1>2, <1>3, SuspendKeeps

LEMMA KeepRunningKeeps ==
  ASSUME Invariant, KeepRunning
  PROVE  Invariant' /\ Moves(current, "cpu")
  <1>0. PICK j : j = current
    OBVIOUS
  <1>1. /\ job' = job /\ time_quantum' = time_quantum /\ queue' = queue /\ current' = current
        /\ longest' = longest /\ quantum' = quantum /\ timer' = timer /\ check' = check
        /\ blocks' = blocks /\ total' = total /\ pc = "charge" /\ pc' = "dispatch"
        /\ j # NoJob /\ ~SomeoneIsWaiting
    BY <1>0 DEF KeepRunning, input, clock
  <1>2. pcb' = [pcb EXCEPT ![j].remaining = @ - quantum]
    BY <1>0 DEF KeepRunning
  <1>3. Typed /\ Placed /\ Owned /\ VictimChosen /\ Sliced /\ Timed /\ Admitted
    BY DEF Invariant
  <1>4. /\ j \in Jobs /\ Suits("cpu", job[j], pcb[j]) /\ pcb[j].remaining \in Nat \ {0}
        /\ j \in Where["cpu"] /\ "cpu" \in Places
    BY <1>0, <1>1, <1>3, RunningFacts
  <1>5. quantum < pcb[j].remaining /\ quantum \in Nat /\ pcb[j].priority # 0
    <2>1. quantum \in Nat
      BY <1>3, TypeFacts
    <2>2. QED
      BY <1>0, <1>1, <1>3, <2>1 DEF Sliced, Slicing
  <1>6. pcb[j] \in Process
    BY <1>3, <1>4 DEF Typed, TypeOK, Process
  <1>7. /\ \A i \in Jobs : i # j => pcb'[i] = pcb[i]
        /\ pcb'[j].priority = pcb[j].priority
        /\ pcb'[j].remaining = pcb[j].remaining - quantum
        /\ pcb'[j].status = pcb[j].status /\ pcb'[j].block = pcb[j].block
    BY <1>2, <1>3, <1>4 DEF Typed, TypeOK
  <1>8. pcb'[j].remaining > 0 /\ pcb'[j].remaining \in Int
    BY <1>4, <1>5, <1>7
  <1>9. Queues(queue) /\ Apart(WhereOf(queue, current, pcb))
    BY <1>3 DEF Placed, Where
  <1>10. SameEnded(pcb, pcb')
    BY <1>7 DEF SameEnded
  <1>11. MovedTo(WhereOf(queue, current, pcb), WhereOf(queue', current', pcb'), j, "cpu")
    <2>1. MovedTo(WhereOf(queue, current, pcb), WhereOf(queue, current, pcb'), current, "cpu")
      BY <1>0, <1>1, <1>9, <1>10, RunningStays
    <2>2. QED
      BY <1>0, <1>1, <2>1
  <1>12. Suits("cpu", job[j], pcb'[j])
    BY <1>4, <1>5, <1>7, <1>8 DEF Suits
  <1>13. "cpu" \in MemoryPlaces
    BY DEF MemoryPlaces
  <1>14. Placed' /\ \A i : i \in Resident' <=> IF i = j THEN "cpu" \in MemoryPlaces
                                               ELSE i \in Resident
    BY <1>1, <1>3, <1>4, <1>7, <1>9, <1>11, <1>12, StepMoves
  <1>15. Owned'
    <2>1. \A i : i \in Resident' <=> i \in Resident
      BY <1>3, <1>4, <1>13, <1>14, OldPlace
    <2>2. \A i \in Resident : pcb'[i].block = pcb[i].block
      BY <1>3, <1>7, ResidentJobs
    <2>3. QED
      BY <1>1, <1>3, <2>1, <2>2, HoldingSame DEF Owned
  <1>16. Typed'
    <2> DEFINE r == [pcb[j] EXCEPT !.remaining = @ - quantum]
    <2>1. pcb[j].remaining - quantum \in Int
      BY <1>4, <1>5
    <2>2. r \in Process
      BY <1>6, <2>1 DEF Process
    <2>3. pcb' = [pcb EXCEPT ![j] = r]
      BY <1>2, <1>3, <1>4, <1>6 DEF Typed, TypeOK, Process
    <2> HIDE DEF r
    <2>4. pcb' \in [Jobs -> Process]
      BY <1>3, <1>4, <2>2, <2>3 DEF Typed, TypeOK, Process
    <2>5. QED
      BY <1>1, <1>3, <2>4 DEF Typed, TypeOK, Process
  <1>17. Timed'
    <2>1. \A i \in Jobs : Uncharged(i)' = 0 /\ Uncharged(i) \in Nat
      BY <1>1, <1>3, UnchargedFacts DEF Uncharged, BeforeCharge, Slicing
    <2>2. timer >= job[j].arrival + job[j].service - pcb'[j].remaining + Uncharged(j)'
      <3>1. "cpu" \notin {"dispatch", "gone"}
        OBVIOUS
      <3>2. timer >= job[j].arrival + job[j].service - pcb[j].remaining + Uncharged(j)
        BY <1>3, <1>4, <3>1 DEF Timed
      <3>3. Uncharged(j) = quantum
        BY <1>0, <1>1 DEF Uncharged, Slicing
      <3>4. timer \in Nat /\ job[j].arrival \in Nat /\ job[j].service \in Nat
        BY <1>3, <1>4, TypeFacts
      <3>5. QED
        BY <1>4, <1>5, <1>7, <2>1, <3>2, <3>3, <3>4
    <2>3. total'.finish >= total'.arrival + total'.service
      BY <1>1, <1>3 DEF Timed
    <2>4. \A i \in Jobs : i # j => Uncharged(i)' <= Uncharged(i)
      BY <2>1
    <2>5. QED
      BY <1>1, <1>3, <1>4, <1>7, <1>9, <1>11, <1>16, <2>2, <2>3, <2>4, TimedMoves
  <1>18. Sliced'
    BY <1>1, <1>3 DEF Sliced, BeforeCharge, Slicing
  <1>19. VictimChosen'
    BY <1>1, <1>3, NoVictim
  <1>20. Admitted'
    BY <1>1, <1>3, AdmittedKeeps
  <1>21. Served'
    <2>1. Empty("L0")' /\ Empty("L1")'
      BY <1>1 DEF SomeoneIsWaiting, Empty
    <2>2. QED
      BY <1>0, <1>1, <1>5, <1>7, <2>1 DEF Served
  <1>22. QED
    BY <1>0, <1>11, <1>14, <1>15, <1>16, <1>17, <1>18, <1>19, <1>20, <1>21
    DEF Invariant, Moves

\* The head of a queue gets the processor, and its memory if it has none.
LEMMA StartKeeps ==
  ASSUME Invariant, pc = "dispatch", pc' = "sleep", current = NoJob, ~check,
         NEW from, from \in {"L0", "L1", "L2", "swap"}, ~Empty(from),
         NEW j, j = First(from),
         queue' = Replaced(queue, from, Tail(queue[from])), current' = j,
         \A i \in Jobs : i # j => pcb'[i] = pcb[i],
         pcb'[j].priority = pcb[j].priority, pcb'[j].remaining = pcb[j].remaining,
         pcb'[j].status = "RUNNING", pcb' \in [Jobs -> Process],
         Holding(blocks', Resident \cup {j}, pcb', job), blocks' \in Seq(Block),
         UNCHANGED << input, longest, check, clock, total >>
  PROVE  /\ Typed' /\ Placed' /\ Owned' /\ Sliced' /\ Timed' /\ VictimChosen' /\ Admitted'
         /\ \A n \in QueueNames : n # from => queue'[n] = queue[n]
         /\ Moves(j, "cpu")
  <1>1. /\ job' = job /\ time_quantum' = time_quantum /\ longest' = longest
        /\ quantum' = quantum /\ timer' = timer /\ check' = check /\ total' = total
    BY DEF input, clock
  <1>2. Typed /\ Placed /\ VictimChosen /\ Timed
    BY DEF Invariant
  <1>3. /\ from \in QueueNames /\ from \in Places /\ "cpu" \in Places /\ "cpu" \in MemoryPlaces
        /\ from \notin {"dispatch", "gone"}
    BY DEF QueueNames, Places, MemoryPlaces
  <1>4. /\ j \in Jobs /\ Suits(from, job[j], pcb[j]) /\ j \in Where[from]
        /\ queue[from] # << >> /\ j = Head(queue[from])
    BY <1>2, <1>3, HeadFacts
  <1>5. Queues(queue) /\ Apart(WhereOf(queue, current, pcb))
    BY <1>2 DEF Placed, Where
  <1>6. SameEnded(pcb, pcb')
    <2>1. pcb[j].status # "TERMINATED"
      BY <1>3, <1>4 DEF Suits
    <2>2. QED
      BY <2>1 DEF SameEnded
  <1>7. /\ Queues(queue')
        /\ \A n \in QueueNames : n # from => queue'[n] = queue[n]
        /\ MovedTo(WhereOf(queue, current, pcb), WhereOf(queue', j, pcb'), j, "cpu")
    BY <1>3, <1>4, <1>5, <1>6, HeadStarts
  <1>8. MovedTo(WhereOf(queue, current, pcb), WhereOf(queue', current', pcb'), j, "cpu")
    BY <1>7
  <1>9. Suits("cpu", job[j], pcb'[j])
    BY <1>3, <1>4 DEF Suits
  <1>10. Placed' /\ \A i : i \in Resident' <=> IF i = j THEN "cpu" \in MemoryPlaces
                                               ELSE i \in Resident
    BY <1>1, <1>2, <1>3, <1>4, <1>7, <1>8, <1>9, StepMoves
  <1>11. Owned'
    <2>1. Resident' = Resident \cup {j}
      BY <1>3, <1>10
    <2>2. QED
      BY <1>1, <2>1 DEF Owned
  <1>12. Typed'
    <2>1. queue' \in [QueueNames -> Seq(Jobs)]
      BY <1>7 DEF Queues
    <2>2. QED
      BY <1>1, <1>2, <1>4, <2>1 DEF Typed, TypeOK, Process
  <1>13. Timed'
    <2>1. \A i \in Jobs : Uncharged(i)' = 0 /\ Uncharged(i) = 0
      BY DEF Uncharged, BeforeCharge, Slicing
    <2>2. timer >= job[j].arrival + job[j].service - pcb'[j].remaining + Uncharged(j)'
      <3>1. timer >= job[j].arrival + job[j].service - pcb[j].remaining + Uncharged(j)
        BY <1>2, <1>3, <1>4 DEF Timed
      <3>2. QED
        BY <1>4, <2>1, <3>1
    <2>3. total'.finish >= total'.arrival + total'.service
      BY <1>1, <1>2 DEF Timed
    <2>4. \A i \in Jobs : i # j => Uncharged(i)' <= Uncharged(i)
      BY <2>1
    <2>5. QED
      BY <1>1, <1>2, <1>3, <1>4, <1>5, <1>8, <1>12, <2>2, <2>3, <2>4, TimedMoves
  <1>14. Sliced'
    BY <1>1 DEF Sliced, BeforeCharge, Slicing
  <1>15. VictimChosen'
    BY <1>1, <1>2, NoVictim
  <1>16. Admitted'
    BY DEF Admitted
  <1>17. QED
    BY <1>7, <1>8, <1>10, <1>11, <1>12, <1>13, <1>14, <1>15, <1>16 DEF Moves

LEMMA DispatchReadyKeeps ==
  ASSUME Invariant, DispatchReady
  PROVE  /\ Invariant'
         /\ \E p \in {"L0", "L1", "L2"} : ~Empty(p) /\ Moves(First(p), "cpu")
  <1> DEFINE from == ReadyLevel
  <1>1. /\ pc = "dispatch" /\ pc' = "sleep" /\ current = NoJob /\ ~check /\ blocks' = blocks
        /\ \E name \in {"L0", "L1", "L2"} : ~Empty(name)
        /\ UNCHANGED << input, longest, check, clock, total >> /\ job' = job
    BY DEF DispatchReady, MustDispatch, input
  <1>2. /\ from \in {"L0", "L1", "L2"} /\ ~Empty(from)
        /\ from # "L0" => Empty("L0")
        /\ from = "L2" => Empty("L1")
    BY <1>1 DEF ReadyLevel
  <1>3. /\ current' = First(from)
        /\ queue' = Replaced(queue, from, Tail(queue[from]))
        /\ pcb' = [pcb EXCEPT ![First(from)].status = "RUNNING"]
    BY DEF DispatchReady, Replaced
  <1>4. PICK j : j = First(from)
    OBVIOUS
  <1>5. PICK n : n = from
    OBVIOUS
  <1> HIDE DEF from
  <1>6. Typed /\ Placed /\ Owned
    BY DEF Invariant
  <1>7. n \in QueueNames /\ n \in MemoryPlaces /\ n \in {"L0", "L1", "L2", "swap"}
    BY <1>2, <1>5 DEF QueueNames, MemoryPlaces
  <1>8. /\ j \in Jobs /\ Suits(n, job[j], pcb[j]) /\ j \in Where[n] /\ n \in Places
    BY <1>2, <1>4, <1>5, <1>6, <1>7, HeadFacts
  <1>9. pcb' = [pcb EXCEPT ![j].status = "RUNNING"] /\ pcb \in [Jobs -> Process]
    BY <1>3, <1>4, <1>6 DEF Typed, TypeOK, Process
  <1>10. /\ \A i \in Jobs : i # j => pcb'[i] = pcb[i]
         /\ pcb'[j].priority = pcb[j].priority /\ pcb'[j].remaining = pcb[j].remaining
         /\ pcb'[j].status = "RUNNING" /\ pcb'[j].block = pcb[j].block
         /\ pcb' \in [Jobs -> Process]
    BY <1>8, <1>9 DEF Process
  <1>11. Holding(blocks', Resident \cup {j}, pcb', job) /\ blocks' \in Seq(Block)
    <2>1. j \in Resident
      BY <1>6, <1>7, <1>8, OldPlace
    <2> DEFINE S == Resident \cup {j}
    <2>2. \A i : i \in S <=> i \in Resident
      BY <2>1
    <2>3. \A i \in Resident : pcb'[i].block = pcb[i].block
      BY <1>6, <1>10, ResidentJobs
    <2> HIDE DEF S
    <2>4. Holding(blocks, S, pcb', job)
      BY <1>6, <2>2, <2>3, HoldingSame DEF Owned
    <2>5. QED
      BY <1>1, <1>6, <2>4 DEF S, Typed, TypeOK
  <1>12. /\ Typed' /\ Placed' /\ Owned' /\ Sliced' /\ Timed' /\ VictimChosen' /\ Admitted'
         /\ \A m \in QueueNames : m # n => queue'[m] = queue[m]
         /\ Moves(j, "cpu")
    BY <1>1, <1>2, <1>3, <1>4, <1>5, <1>7, <1>10, <1>11, StartKeeps
  <1>13. Served'
    <2>1. current' = j
      BY <1>3, <1>4
    <2>2. n # "L0" => Empty("L0")'
      BY <1>2, <1>5, <1>12 DEF Empty, QueueNames
    <2>3. n = "L2" => Empty("L1")'
      BY <1>2, <1>5, <1>12 DEF Empty, QueueNames
    <2>4. n = "L0" => pcb'[j].priority = 0
      BY <1>8, <1>10 DEF Suits
    <2>5. n = "L1" => pcb'[j].priority = job[j].priority /\ job[j].priority \in 0..2
      BY <1>6, <1>8, <1>10, TypeFacts DEF Suits
    <2>6. n \in {"L0", "L1", "L2"}
      BY <1>2, <1>5
    <2>7. ~Empty("L0")' => pcb'[j].priority = 0
      BY <2>2, <2>4
    <2>8. ~Empty("L1")' => pcb'[j].priority < 2 \/ job[j].priority = 2
      BY <2>3, <2>4, <2>5, <2>6
    <2>9. QED
      BY <1>1, <2>1, <2>7, <2>8 DEF Served
  <1>14. QED
    BY <1>2, <1>4, <1>12, <1>13 DEF Invariant

LEMMA DispatchSwappedKeeps ==
  ASSUME Invariant, DispatchSwapped
  PROVE  Invariant' /\ Moves(First("swap"), "cpu")
  <1>0. PICK j : j = First("swap")
    OBVIOUS
  <1> DEFINE k == MemChk(blocks, job[j].mbytes)
  <1>1. /\ pc = "dispatch" /\ pc' = "sleep" /\ current = NoJob /\ ~check
        /\ UNCHANGED << input, longest, check, clock, total >> /\ job' = job
    BY DEF DispatchSwapped, OnlySwapLeft, MustDispatch, input
  <1>2. Empty("L0") /\ Empty("L1") /\ Empty("L2") /\ ~Empty("swap")
    BY DEF DispatchSwapped, OnlySwapLeft, MustDispatch, ReadyToRun
  <1>3. /\ k # 0 /\ blocks' = MemAlloc(blocks, k, job[j].mbytes) /\ current' = j
        /\ queue' = Replaced(queue, "swap", Tail(queue["swap"]))
        /\ pcb' = [pcb EXCEPT ![j].block = blocks[k].offset, ![j].status = "RUNNING"]
    BY <1>0 DEF DispatchSwapped, Replaced
  <1>4. Typed /\ Placed /\ Owned
    BY DEF Invariant
  <1>5. "swap" \in QueueNames /\ "swap" \notin MemoryPlaces
    BY DEF QueueNames, MemoryPlaces
  <1>6. /\ j \in Jobs /\ Suits("swap", job[j], pcb[j]) /\ j \in Where["swap"]
        /\ "swap" \in Places
    BY <1>0, <1>2, <1>4, <1>5, HeadFacts
  <1>7. j \notin Resident
    BY <1>4, <1>5, <1>6, OldPlace
  <1>8. pcb \in [Jobs -> Process]
    BY <1>4 DEF Typed, TypeOK, Process
  <1>9. /\ \A i \in Jobs : i # j => pcb'[i] = pcb[i]
        /\ pcb'[j].priority = pcb[j].priority /\ pcb'[j].remaining = pcb[j].remaining
        /\ pcb'[j].status = "RUNNING" /\ pcb'[j].block = blocks[k].offset
    <2> HIDE DEF k
    <2>1. QED
      BY <1>3, <1>6, <1>8 DEF Process
  <1>10. /\ Holding(blocks', Resident \cup {j}, pcb', job) /\ blocks' \in Seq(Block)
         /\ blocks[k].offset \in 0..MemSize-1
    <2>1. Holding(blocks, Resident, pcb, job)
      BY <1>4 DEF Owned
    <2>2. KeepBlocks(Resident, pcb, pcb')
      BY <1>4, <1>7, <1>9, ResidentJobs DEF KeepBlocks
    <2>3. job[j].mbytes \in Nat \ {0}
      BY <1>4, <1>6, TypeFacts
    <2>4. /\ MemChk(blocks, job[j].mbytes) # 0
          /\ pcb'[j].block = blocks[MemChk(blocks, job[j].mbytes)].offset
      BY <1>3, <1>9
    <2>5. blocks' = MemAlloc(blocks, MemChk(blocks, job[j].mbytes), job[j].mbytes)
      BY <1>3
    <2>6. QED
      BY <1>7, <2>1, <2>2, <2>3, <2>4, <2>5, GrantBlock
  <1>11. pcb' \in [Jobs -> Process]
    <2> DEFINE o == blocks[k].offset
               r == [pcb[j] EXCEPT !.block = o, !.status = "RUNNING"]
    <2>1. o \in 0..MemSize-1 \cup {NoOffset}
      BY <1>10
    <2> HIDE DEF o
    <2>2. r \in Process
      BY <1>6, <1>8, <2>1 DEF Process
    <2>3. pcb' = [pcb EXCEPT ![j] = r]
      BY <1>3, <1>6, <1>8 DEF o, Process
    <2> HIDE DEF r
    <2>4. QED
      BY <1>6, <1>8, <2>2, <2>3
  <1> HIDE DEF k
  <1>12. /\ Typed' /\ Placed' /\ Owned' /\ Sliced' /\ Timed' /\ VictimChosen' /\ Admitted'
         /\ \A m \in QueueNames : m # "swap" => queue'[m] = queue[m]
         /\ Moves(j, "cpu")
    BY <1>0, <1>1, <1>2, <1>3, <1>9, <1>10, <1>11, StartKeeps
  <1>13. Served'
    <2>1. Empty("L0")' /\ Empty("L1")'
      BY <1>2, <1>12 DEF Empty, QueueNames
    <2>2. QED
      BY <1>1, <2>1 DEF Served
  <1>14. QED
    BY <1>0, <1>12, <1>13 DEF Invariant

\* A job leaves the memory for the swap queue.
LEMMA LeaveMemoryKeeps ==
  ASSUME Invariant, pc = "swapOut", pc' = "admitRT", longest # NoJob, longest' = NoJob,
         NEW j, j \in Resident, NEW p, p \in {"L2", "cpu"}, j \in Where[p],
         Queues(queue'), queue'["rt"] = queue["rt"],
         MovedTo(WhereOf(queue, current, pcb), WhereOf(queue', current', pcb'), j, "swap"),
         \A i \in Jobs : i # j => pcb'[i] = pcb[i],
         pcb' \in [Jobs -> Process], Suits("swap", job[j], pcb'[j]),
         pcb'[j].remaining = pcb[j].remaining - Uncharged(j),
         current' \in {current, NoJob}, current' # j,
         blocks' = MemFree(blocks, BlockAt(blocks, pcb[j].block)),
         UNCHANGED << input, check, clock, total >>
  PROVE  Invariant'
  <1>1. /\ job' = job /\ time_quantum' = time_quantum
        /\ quantum' = quantum /\ timer' = timer /\ check' = check /\ total' = total
    BY DEF input, clock
  <1>2. Typed /\ Placed /\ Owned /\ VictimChosen /\ Sliced /\ Timed
    BY DEF Invariant
  <1>3. Apart(WhereOf(queue, current, pcb)) /\ j \in Jobs
    BY <1>2, ResidentJobs DEF Placed, Where
  <1>4. "swap" \in Places /\ "swap" \notin MemoryPlaces
    BY DEF Places, QueueNames, MemoryPlaces
  <1>5. Placed' /\ \A i : i \in Resident' <=> IF i = j THEN "swap" \in MemoryPlaces
                                               ELSE i \in Resident
    BY <1>1, <1>2, <1>3, <1>4, StepMoves
  <1>6. Owned' /\ blocks' \in Seq(Block)
    <2>1. KeepBlocks(Resident \ {j}, pcb, pcb')
      BY <1>2, ResidentJobs DEF KeepBlocks
    <2>2. Holding(blocks, Resident, pcb, job)
      BY <1>2 DEF Owned
    <2>3. Holding(blocks', Resident \ {j}, pcb', job) /\ blocks' \in Seq(Block)
      BY <2>1, <2>2, ReturnBlock
    <2>4. Resident' = Resident \ {j}
      BY <1>4, <1>5
    <2>5. QED
      BY <1>1, <2>3, <2>4 DEF Owned
  <1>7. Typed'
    <2>1. queue' \in [QueueNames -> Seq(Jobs)]
      BY DEF Queues
    <2>2. QED
      BY <1>1, <1>2, <1>6, <2>1 DEF Typed, TypeOK, Process
  <1>8. Timed'
    <2>1. \A i \in Jobs : i # j => Uncharged(i)' <= Uncharged(i)
      BY <1>1, <1>2, TypeFacts DEF Uncharged, Slicing, Jobs, NoJob
    <2>2. timer >= job[j].arrival + job[j].service - pcb'[j].remaining + Uncharged(j)'
      <3>1. p \in Places \ {"dispatch", "gone"}
        BY DEF Places, QueueNames
      <3>2. timer >= job[j].arrival + job[j].service - pcb[j].remaining + Uncharged(j)
        BY <1>2, <3>1 DEF Timed
      <3>3. Uncharged(j)' = 0 /\ Uncharged(j) \in Nat
        BY <1>2, UnchargedFacts DEF Uncharged
      <3>4. /\ timer \in Nat /\ job[j].arrival \in Nat /\ job[j].service \in Nat
            /\ pcb[j].remaining \in Int
        BY <1>2, <1>3, TypeFacts
      <3>5. QED
        BY <3>2, <3>3, <3>4
    <2>3. total'.finish >= total'.arrival + total'.service
      BY <1>1, <1>2 DEF Timed
    <2>4. QED
      BY <1>1, <1>2, <1>3, <1>4, <1>7, <2>1, <2>2, <2>3, TimedMoves
  <1>9. Sliced'
    <2>1. current' # NoJob => current' = current /\ pcb'[current] = pcb[current]
      BY <1>2, TypeFacts
    <2>2. QED
      BY <1>1, <1>2, <2>1 DEF Sliced, BeforeCharge, Slicing
  <1>10. VictimChosen'
    BY DEF VictimChosen
  <1>11. Admitted'
    <2>1. ~Empty("rt")'
      BY <1>2 DEF VictimChosen, Empty
    <2>2. QED
      BY <2>1 DEF Admitted
  <1>12. Served'
    BY DEF Served
  <1>13. QED
    BY <1>5, <1>6, <1>7, <1>8, <1>9, <1>10, <1>11, <1>12 DEF Invariant

\* The process ids in level 2 are those of its jobs, so that removeSpecificJob takes out
\* the job it is asked to.
LEMMA Level2LeftFacts ==
  ASSUME Typed, Placed, NEW j, j \in ToSet(queue["L2"]), j = longest
  PROVE  Without(Level2Left, queue["L2"], j)
  <1> DEFINE s == queue["L2"]
             I == { i \in 1..Len(s) : Pid(s[i]) = Pid(j) }
             m == Min(I)
  <1>1. "L2" \in QueueNames
    BY DEF QueueNames
  <1>2. s \in Seq(Jobs) /\ NoRepeats(s)
    BY <1>1 DEF Placed, Queues
  <1>3. \A x \in ToSet(s) : Pid(x) = x
    <2>1. ASSUME NEW x \in ToSet(s) PROVE Pid(x) = x
      <3>1. Suits("L2", job[x], pcb[x])
        BY <1>1, QueuedFacts
      <3>2. pcb[x].status = "SUSPENDED"
        BY <3>1 DEF Suits
      <3>3. QED
        BY <3>2 DEF Pid
    <2>2. QED
      BY <2>1
  <1>4. \A i \in 1..Len(s) : s[i] \in ToSet(s)
    BY <1>2, InQueue
  <1>5. PICK l \in 1..Len(s) : s[l] = j
    BY <1>2, InQueue
  <1>6. l \in I /\ I \subseteq Nat /\ I # {}
    BY <1>5
  <1>7. m \in I
    <2> HIDE DEF I
    <2>1. QED
      BY <1>6, MinOfNaturals
  <1>8. m \in 1..Len(s) /\ s[m] = j
    <2>1. m \in 1..Len(s) /\ Pid(s[m]) = Pid(j)
      BY <1>7
    <2> HIDE DEF m, I
    <2>2. QED
      BY <1>3, <1>4, <2>1
  <1>9. Level2Left = RemoveAt(s, m)
    <2>1. SelectInSeq(s, LAMBDA i : Pid(i) = Pid(longest)) = IF I # {} THEN Min(I) ELSE 0
      BY DEF SelectInSeq
    <2>2. QED
      BY <1>6, <2>1 DEF Level2Left, RemoveSpecificJob
  <1> HIDE DEF m, s, I
  <1>10. /\ RemoveAt(s, m) \in Seq(Jobs) /\ NoRepeats(RemoveAt(s, m))
         /\ \A x : x \in ToSet(RemoveAt(s, m)) <=> x \in ToSet(s) /\ x # s[m]
    BY <1>2, <1>8, OneLeaves
  <1>11. Without(RemoveAt(s, m), s, j)
    BY <1>8, <1>10 DEF Without
  <1>12. QED
    BY <1>9, <1>11 DEF s

LEMMA SwapOutKeeps ==
  ASSUME Invariant, SwapOut
  PROVE  Invariant' /\ Moves(longest, "swap")
  <1>0. PICK j : j = longest
    OBVIOUS
  <1>1. /\ pc = "swapOut" /\ pc' = "admitRT" /\ longest # NoJob /\ longest' = NoJob
        /\ blocks' = MemFree(blocks, BlockAt(blocks, pcb[j].block))
        /\ UNCHANGED << input, check, clock, total >>
        /\ quantum' = quantum
    BY <1>0 DEF SwapOut, Released, clock
  <1>2. Typed /\ Placed /\ VictimChosen /\ Sliced
    BY DEF Invariant
  <1>3. /\ "L2" \in QueueNames /\ "swap" \in QueueNames /\ "L2" \in Places /\ "cpu" \in Places
        /\ "L2" \in MemoryPlaces /\ "cpu" \in MemoryPlaces
    BY DEF QueueNames, Places, MemoryPlaces
  <1>4. Where["L2"] = ToSet(queue["L2"])
    BY <1>3, WhereMembers DEF Where
  <1>5. j \in Candidates
    BY <1>0, <1>1, <1>2 DEF VictimChosen
  <1>6. /\ Queues(queue) /\ Apart(WhereOf(queue, current, pcb)) /\ pcb \in [Jobs -> Process]
        /\ queue["swap"] \in Seq(Jobs) /\ NoRepeats(queue["swap"])
    BY <1>2, <1>3 DEF Placed, Where, Queues, Typed, TypeOK, Process
  <1>7. CASE RunningIsVictim
    <2>1. current # NoJob /\ Pid(j) = Pid(current)
      BY <1>0, <1>7 DEF RunningIsVictim
    <2>2. /\ current \in Jobs /\ Suits("cpu", job[current], pcb[current])
          /\ pcb[current].remaining \in Nat \ {0} /\ current \in Where["cpu"]
          /\ pcb[current].status = "RUNNING" /\ \A m \in QueueNames : current \notin ToSet(queue[m])
      BY <1>2, <2>1, RunningFacts
    <2>3. Pid(current) = current
      BY <2>2 DEF Pid
    <2>4. j = current /\ RunningLevel2
      <3>1. CASE j \in ToSet(queue["L2"])
        <4>1. j # current /\ Suits("L2", job[j], pcb[j])
          BY <1>2, <1>3, <3>1, QueuedFacts
        <4>2. Pid(j) = j
          BY <4>1 DEF Suits, Pid
        <4>3. QED
          BY <2>1, <2>3, <4>1, <4>2
      <3>2. CASE j \notin ToSet(queue["L2"])
        BY <1>4, <1>5, <3>2 DEF Candidates
      <3>3. QED
        BY <3>1, <3>2
    <2>5. /\ pcb' = [pcb EXCEPT ![j].remaining = @ - quantum,
                                ![j].status = "SUSPENDED",
                                ![j].block = NoOffset]
          /\ current' = NoJob
          /\ queue' = [queue EXCEPT !["swap"] = Append(@, j)]
      BY <1>0, <1>7, <2>4 DEF SwapOut
    <2>6. queue' = Replaced(queue, "swap", Append(queue["swap"], j))
      BY <1>3, <2>5 DEF Replaced
    <2>7. pcb[j].priority = 2 /\ quantum < pcb[j].remaining /\ quantum \in Nat
      BY <1>1, <1>2, <2>1, <2>4, TypeFacts DEF RunningLevel2, Sliced, Slicing
    <2>8. /\ \A i \in Jobs : i # j => pcb'[i] = pcb[i]
          /\ pcb'[j].priority = pcb[j].priority
          /\ pcb'[j].remaining = pcb[j].remaining - quantum
          /\ pcb'[j].status = "SUSPENDED"
      BY <1>6, <2>2, <2>4, <2>5 DEF Process
    <2>9. pcb'[j].remaining > 0 /\ pcb'[j].remaining \in Int
      BY <2>2, <2>4, <2>7, <2>8
    <2>10. pcb' \in [Jobs -> Process]
      <3> DEFINE r == [pcb[j] EXCEPT !.remaining = @ - quantum, !.status = "SUSPENDED",
                                     !.block = NoOffset]
      <3>1. pcb[j].remaining - quantum \in Int
        BY <2>8, <2>9
      <3>2. r \in Process
        BY <1>6, <2>2, <2>4, <3>1 DEF Process
      <3>3. pcb' = [pcb EXCEPT ![j] = r]
        BY <1>6, <2>2, <2>4, <2>5 DEF Process
      <3> HIDE DEF r
      <3>4. QED
        BY <1>6, <2>2, <2>4, <3>2, <3>3
    <2>11. Suits("swap", job[j], pcb'[j])
      BY <2>2, <2>4, <2>7, <2>8, <2>9 DEF Suits
    <2>12. SameEnded(pcb, pcb')
      BY <2>2, <2>4, <2>8 DEF SameEnded
    <2> DEFINE u == Append(queue["swap"], j)
    <2>13. With(u, queue["swap"], current)
      <3>1. current \notin ToSet(queue["swap"])
        BY <1>3, <2>2
      <3>2. QED
        BY <1>6, <2>2, <2>4, <3>1, JoinsAtEnd DEF With
    <2>14. queue' = Replaced(queue, "swap", u)
      BY <2>6
    <2> HIDE DEF u
    <2>15. /\ Queues(queue') /\ \A n \in QueueNames : n # "swap" => queue'[n] = queue[n]
           /\ MovedTo(WhereOf(queue, current, pcb), WhereOf(queue', NoJob, pcb'), current, "swap")
      <3>1. /\ Queues(queue) /\ Apart(WhereOf(queue, current, pcb))
            /\ "swap" \in QueueNames /\ current # NoJob
        BY <1>3, <1>6, <2>1
      <3>2. QED
        BY <2>12, <2>13, <2>14, <3>1, RunningMoves
    <2>16. /\ MovedTo(WhereOf(queue, current, pcb), WhereOf(queue', current', pcb'), j, "swap")
           /\ queue'["rt"] = queue["rt"]
      BY <2>4, <2>5, <2>15 DEF QueueNames
    <2>17. j \in Where["cpu"] /\ j \in Resident
      BY <1>2, <1>3, <2>2, <2>4, OldPlace
    <2>18. Uncharged(j) = quantum
      BY <1>1, <2>4 DEF Uncharged, Slicing
    <2>19. current' \in {current, NoJob} /\ current' # j
      BY <2>1, <2>4, <2>5
    <2>20. "cpu" \in {"L2", "cpu"} /\ pcb'[j].remaining = pcb[j].remaining - Uncharged(j)
      BY <2>8, <2>18
    <2>21. QED
      <3>1. Invariant'
        BY <1>1, <2>8, <2>10, <2>11, <2>15, <2>16, <2>17, <2>19, <2>20, LeaveMemoryKeeps
      <3>2. QED
        BY <1>0, <2>16, <3>1 DEF Moves
  <1>8. CASE ~RunningIsVictim
    <2>1. j \in ToSet(queue["L2"])
      BY <1>0, <1>4, <1>5, <1>8 DEF Candidates, RunningIsVictim, RunningLevel2
    <2>2. /\ pcb' = [pcb EXCEPT ![j].block = NoOffset] /\ current' = current
          /\ queue' = [queue EXCEPT !["L2"] = Level2Left, !["swap"] = Append(@, j)]
      BY <1>0, <1>8 DEF SwapOut
    <2>3. queue' = Replaced(Replaced(queue, "L2", Level2Left), "swap", Append(queue["swap"], j))
      BY <1>3, <2>2 DEF Replaced
    <2>4. /\ j \in Jobs /\ j # current /\ Suits("L2", job[j], pcb[j]) /\ j \in Where["L2"]
      BY <1>2, <1>3, <2>1, QueuedFacts
    <2>5. /\ \A i \in Jobs : i # j => pcb'[i] = pcb[i]
          /\ pcb'[j].priority = pcb[j].priority /\ pcb'[j].remaining = pcb[j].remaining
          /\ pcb'[j].status = pcb[j].status /\ pcb' \in [Jobs -> Process]
      BY <1>6, <2>2, <2>4 DEF Process
    <2>6. Suits("swap", job[j], pcb'[j])
      BY <2>4, <2>5 DEF Suits
    <2>7. SameEnded(pcb, pcb')
      BY <2>5 DEF SameEnded
    <2>8. Without(Level2Left, queue["L2"], j)
      BY <1>0, <1>2, <2>1, Level2LeftFacts
    <2> DEFINE t == Level2Left
    <2>9. /\ Without(t, queue["L2"], j)
          /\ queue' = Replaced(Replaced(queue, "L2", t), "swap", Append(queue["swap"], j))
      BY <2>3, <2>8
    <2> HIDE DEF t
    <2>10. /\ Queues(queue')
           /\ \A n \in QueueNames : n # "L2" /\ n # "swap" => queue'[n] = queue[n]
           /\ MovedTo(WhereOf(queue, current, pcb), WhereOf(queue', current, pcb'), j, "swap")
      <3>1. /\ "L2" # "swap" /\ "L2" \in QueueNames /\ "swap" \in QueueNames
            /\ Queues(queue) /\ Apart(WhereOf(queue, current, pcb))
        BY <1>3, <1>6
      <3>2. QED
        BY <2>1, <2>7, <2>9, <3>1, OneMoves
    <2>11. /\ MovedTo(WhereOf(queue, current, pcb), WhereOf(queue', current', pcb'), j, "swap")
           /\ queue'["rt"] = queue["rt"]
      BY <2>2, <2>10 DEF QueueNames
    <2>12. j \in Resident
      BY <1>2, <1>3, <2>4, OldPlace
    <2>13. Uncharged(j) = 0 /\ pcb[j].remaining \in Int
      BY <1>2, <2>4, UnchargedFacts, TypeFacts
    <2>14. current' \in {current, NoJob} /\ current' # j
      BY <2>2, <2>4
    <2>15. "L2" \in {"L2", "cpu"} /\ pcb'[j].remaining = pcb[j].remaining - Uncharged(j)
      BY <2>5, <2>13
    <2>16. QED
      <3>1. Invariant'
        BY <1>1, <2>4, <2>5, <2>6, <2>10, <2>11, <2>12, <2>14, <2>15, LeaveMemoryKeeps
      <3>2. QED
        BY <1>0, <2>11, <3>1 DEF Moves
  <1>9. QED
    BY <1>7, <1>8

-----------------------------------------------------------------------------
(* The invariant holds                                                     *)

LEMMA InitInvariant == Init => Invariant
  <1> SUFFICES ASSUME Init PROVE Invariant
    OBVIOUS
  <1> DEFINE l == [i \in Jobs |-> i]
  <1>1. /\ job \in [Jobs -> JobKinds] /\ time_quantum \in Quanta
        /\ current = NoJob /\ longest = NoJob /\ check = FALSE /\ quantum = 0 /\ timer = 0
        /\ blocks = WholeMemory /\ pc = "loop"
        /\ total = [n |-> 0, arrival |-> 0, service |-> 0, finish |-> 0]
    BY DEF Init
  <1>2. pcb = [j \in Jobs |-> [priority  |-> job[j].priority,
                               remaining |-> job[j].service,
                               status    |-> "INITIALIZED",
                               block     |-> NoOffset]]
    BY DEF Init
  <1>3. \A n \in QueueNames : queue[n] = IF n = "dispatch" THEN l ELSE << >>
    BY DEF Init
  <1>4. N \in Nat /\ Jobs = 1..N
    BY SchedulerAssumption DEF Jobs
  <1>5. /\ l \in Seq(Jobs) /\ NoRepeats(l) /\ \A x : x \in ToSet(l) <=> x \in Jobs
    <2>1. l \in Seq(Jobs) /\ Len(l) = N
      BY <1>4
    <2>2. \A i \in 1..N : l[i] = i
      BY <1>4
    <2> HIDE DEF l
    <2>3. NoRepeats(l)
      BY <2>1, <2>2 DEF NoRepeats
    <2>4. \A x : x \in ToSet(l) <=> \E i \in 1..Len(l) : l[i] = x
      BY <2>1, InQueue
    <2>5. QED
      BY <1>4, <2>1, <2>2, <2>3, <2>4
  <1> HIDE DEF l
  <1>6. /\ << >> \in Seq(Jobs) /\ NoRepeats(<< >>) /\ \A x : x \notin ToSet(<< >>)
    <2>1. << >> \in Seq(Jobs) /\ Len(<< >>) = 0
      OBVIOUS
    <2>2. NoRepeats(<< >>)
      BY <2>1 DEF NoRepeats
    <2>3. \A x : x \notin ToSet(<< >>)
      BY <2>1, InQueue
    <2>4. QED
      BY <2>1, <2>2, <2>3
  <1>7. Queues(queue)
    <2>1. queue \in [QueueNames -> Seq(Jobs)]
      BY <1>5, <1>6 DEF Init, l
    <2>2. \A n \in QueueNames : NoRepeats(queue[n])
      BY <1>3, <1>5, <1>6
    <2>3. QED
      BY <2>1, <2>2 DEF Queues
  <1>8. \A j \in Jobs : job[j] \in [arrival : Nat, service : Nat \ {0},
                                    priority : 0..2, mbytes : Nat \ {0}]
    BY <1>1, SchedulerAssumption
  <1>9. \A j \in Jobs : /\ job[j].arrival \in Nat /\ job[j].service \in Nat \ {0}
                        /\ job[j].priority \in 0..2 /\ job[j].mbytes \in Nat \ {0}
    BY <1>8
  <1>10. \A j \in Jobs : /\ pcb[j].priority = job[j].priority
                         /\ pcb[j].remaining = job[j].service
                         /\ pcb[j].status = "INITIALIZED" /\ pcb[j].block = NoOffset
    BY <1>2
  <1>11. \A p \in Places : \A j : j \in Where[p] <=> p = "dispatch" /\ j \in Jobs
    <2>1. "dispatch" \in QueueNames /\ "dispatch" # "cpu" /\ "dispatch" # "gone"
      BY DEF QueueNames
    <2>2. \A n \in QueueNames : \A j : j \in Where[n] <=> n = "dispatch" /\ j \in Jobs
      BY <1>3, <1>5, <1>6, WhereMembers DEF Where
    <2>3. \A j : j \notin Where["cpu"]
      BY <1>1, WhereMembers DEF Where
    <2>4. \A j : j \notin Where["gone"]
      BY <1>10, WhereMembers DEF Where
    <2>5. \A p \in Places : p \in QueueNames \/ p = "cpu" \/ p = "gone"
      BY DEF Places
    <2>6. QED
      BY <2>1, <2>2, <2>3, <2>4, <2>5
  <1>12. Placed
    <2>1. "dispatch" \in Places
      BY DEF Places, QueueNames
    <2>2. Apart(Where)
      BY <1>11, <2>1 DEF Apart
    <2>3. Suited(Where, job, pcb)
      BY <1>9, <1>10, <1>11 DEF Suited, Suits
    <2>4. QED
      BY <1>7, <2>2, <2>3 DEF Placed
  <1>13. /\ WholeMemory \in Seq(Block) /\ WellFormed(WholeMemory) /\ Coalesced(WholeMemory)
         /\ \A r : r \notin UsedIntervals(WholeMemory)
    <2>1. /\ Len(WholeMemory) = 1
          /\ WholeMemory[1] = [offset |-> 0, size |-> MemSize, allocated |-> FALSE]
      BY DEF WholeMemory
    <2>2. WellFormed(WholeMemory)
      BY WholeMemoryWellFormed
    <2>3. Coalesced(WholeMemory)
      BY <2>1 DEF Coalesced
    <2>4. \A i \in 1..Len(WholeMemory) : ~WholeMemory[i].allocated
      BY <2>1
    <2>5. \A r : r \notin UsedIntervals(WholeMemory)
      BY <2>4, UsedIntervalsMembers
    <2>6. QED
      BY <2>2, <2>3, <2>5, BlockTypes
  <1>14. Owned
    <2>1. "L0" \in QueueNames /\ "L1" \in QueueNames /\ "L2" \in QueueNames
      BY DEF QueueNames
    <2>2. \A i : i \notin Resident
      BY <1>1, <1>3, <1>6, <2>1 DEF Resident, Ready
    <2>3. QED
      BY <1>1, <1>13, <2>2 DEF Owned, Holding
  <1>15. Typed
    <2>1. pcb \in [Jobs -> Process]
      <3>1. \A j \in Jobs : [priority  |-> job[j].priority,
                             remaining |-> job[j].service,
                             status    |-> "INITIALIZED",
                             block     |-> NoOffset] \in Process
        BY <1>9 DEF Process
      <3>2. QED
        BY <1>2, <3>1
    <2>2. queue \in [QueueNames -> Seq(Jobs)]
      BY <1>7 DEF Queues
    <2>3. {total.n, total.arrival, total.service, total.finish} \subseteq Nat
      BY <1>1
    <2>4. QED
      BY <1>1, <1>13, <2>1, <2>2, <2>3 DEF Typed, TypeOK, Process
  <1>16. Sliced
    BY <1>1 DEF Sliced
  <1>17. Timed
    BY <1>1, <1>11 DEF Timed
  <1>18. VictimChosen /\ Admitted /\ Served
    BY <1>1 DEF VictimChosen, Admitted, Served
  <1>19. QED
    BY <1>12, <1>14, <1>15, <1>16, <1>17, <1>18 DEF Invariant

LEMMA NextInvariant == Invariant /\ [Next]_vars => Invariant'
  <1> SUFFICES ASSUME Invariant, [Next]_vars PROVE Invariant'
    OBVIOUS
  <1>1. CASE LoopTest
    BY <1>1, LoopTestKeeps
  <1>2. CASE Unload
    BY <1>2, UnloadKeeps
  <1>3. CASE UnloadDone
    BY <1>3, UnloadDoneKeeps
  <1>4. CASE Terminate
    BY <1>4, TerminateKeeps
  <1>5. CASE NotExpired
    BY <1>5, NotExpiredKeeps
  <1>6. CASE AdmitNormal
    BY <1>6, AdmitNormalKeeps
  <1>7. CASE AdmitNormalDone
    BY <1>7, AdmitNormalDoneKeeps
  <1>8. CASE ChooseVictim
    BY <1>8, ChooseVictimKeeps
  <1>9. CASE SwapOut
    BY <1>9, SwapOutKeeps
  <1>10. CASE NoSwapOut
    BY <1>10, NoSwapOutKeeps
  <1>11. CASE AdmitRealTime
    BY <1>11, AdmitRealTimeKeeps
  <1>12. CASE AdmitRealTimeDone
    BY <1>12, AdmitRealTimeDoneKeeps
  <1>13. CASE NothingToCharge
    BY <1>13, NothingToChargeKeeps
  <1>14. CASE Preempt
    BY <1>14, PreemptKeeps
  <1>15. CASE Demote
    BY <1>15, DemoteKeeps
  <1>16. CASE KeepRunning
    BY <1>16, KeepRunningKeeps
  <1>17. CASE NoDispatch
    BY <1>17, NoDispatchKeeps
  <1>18. CASE DispatchReady
    BY <1>18, DispatchReadyKeeps
  <1>19. CASE DispatchSwapped
    BY <1>19, DispatchSwappedKeeps
  <1>20. CASE DispatchNothing
    BY <1>20, DispatchNothingKeeps
  <1>21. CASE Sleep
    BY <1>21, SleepKeeps
  <1>22. CASE UNCHANGED vars
    BY <1>22, StoppedKeeps
  <1>23. Stopped => UNCHANGED vars
    BY DEF Stopped
  <1>24. QED
    BY <1>1, <1>2, <1>3, <1>4, <1>5, <1>6, <1>7, <1>8, <1>9, <1>10, <1>11, <1>12, <1>13,
       <1>14, <1>15, <1>16, <1>17, <1>18, <1>19, <1>20, <1>21, <1>22, <1>23 DEF Next

LEMMA InvariantHolds == Spec => []Invariant
  <1>1. Init => Invariant
    BY InitInvariant
  <1>2. Invariant /\ [Next]_vars => Invariant'
    BY NextInvariant
  <1>3. QED
    BY <1>1, <1>2, PTL DEF Spec

\* Every field of the dispatcher's state keeps its type, whatever the job list and the
\* time quantum are (the globals and locals of main() in mlq.c).
THEOREM TypesAreKept == Spec => []TypeOK
  <1>1. Invariant => TypeOK
    BY DEF Invariant, Typed
  <1>2. QED
    BY <1>1, InvariantHolds, PTL

\* A queue without repetition is no longer than the job list.
LEMMA QueuesAreShort ==
  ASSUME NEW s, s \in Seq(Jobs), NoRepeats(s)
  PROVE  Len(s) \in Nat /\ Len(s) <= N
  <1>1. N \in Nat /\ Jobs = 1..N
    BY SchedulerAssumption DEF Jobs
  <1>2. IsFiniteSet(Jobs) /\ Cardinality(Jobs) = N
    BY <1>1, FS_Interval
  <1>3. Len(s) \in Nat /\ DOMAIN s = 1..Len(s) /\ \A i \in 1..Len(s) : s[i] \in Jobs
    BY LenProperties
  <1> DEFINE D == 1..Len(s)
  <1>4. IsFiniteSet(D) /\ Cardinality(D) = Len(s)
    <2> DEFINE l == Len(s)
    <2>1. l \in Nat
      BY <1>3
    <2> HIDE DEF l
    <2>2. IsFiniteSet(1..l) /\ Cardinality(1..l) = IF 1 > l THEN 0 ELSE l-1+1
      BY <2>1, FS_Interval
    <2>3. Cardinality(1..l) = l
      BY <2>1, <2>2
    <2>4. QED
      BY <2>2, <2>3 DEF l
  <1>5. s \in Injection(D, Jobs)
    BY <1>3 DEF Injection, IsInjective, NoRepeats
  <1>6. Cardinality(D) <= Cardinality(Jobs)
    BY <1>2, <1>5, FS_Injection
  <1>7. QED
    BY <1>2, <1>3, <1>4, <1>6

\* Where a job is queued
Positions(q, j) ==
  { p \in QueueNames \X Jobs : p[2] \in DOMAIN q[p[1]] /\ q[p[1]][p[2]] = j }

LEMMA PositionsOf ==
  ASSUME NEW q, Queues(q), NEW j
  PROVE  /\ (\A n \in QueueNames : j \notin ToSet(q[n])) => Cardinality(Positions(q, j)) = 0
         /\ (\E n \in QueueNames : \A m \in QueueNames : j \in ToSet(q[m]) <=> m = n)
              => Cardinality(Positions(q, j)) = 1
  <1>1. ASSUME NEW n \in QueueNames
        PROVE  /\ DOMAIN q[n] = 1..Len(q[n]) /\ NoRepeats(q[n])
               /\ j \in ToSet(q[n]) <=> \E i \in 1..Len(q[n]) : q[n][i] = j
               /\ \A i \in 1..Len(q[n]) : i \in Jobs
    <2>1. q[n] \in Seq(Jobs) /\ NoRepeats(q[n])
      BY DEF Queues
    <2>2. Len(q[n]) \in Nat /\ Len(q[n]) <= N /\ DOMAIN q[n] = 1..Len(q[n])
      BY <2>1, QueuesAreShort, LenProperties
    <2>3. j \in ToSet(q[n]) <=> \E i \in 1..Len(q[n]) : q[n][i] = j
      BY <2>1, InQueue
    <2>4. QED
      BY <2>1, <2>2, <2>3, SchedulerAssumption DEF Jobs
  <1>2. ASSUME \A n \in QueueNames : j \notin ToSet(q[n])
        PROVE  Cardinality(Positions(q, j)) = 0
    <2>1. Positions(q, j) = {}
      BY <1>1, <1>2 DEF Positions
    <2>2. QED
      BY <2>1, FS_EmptySet
  <1>3. ASSUME NEW n \in QueueNames, \A m \in QueueNames : j \in ToSet(q[m]) <=> m = n
        PROVE  Cardinality(Positions(q, j)) = 1
    <2>1. PICK i \in 1..Len(q[n]) : q[n][i] = j
      BY <1>1, <1>3
    <2>2. ASSUME NEW p \in Positions(q, j) PROVE p = << n, i >>
      <3>1. p \in QueueNames \X Jobs /\ p[2] \in DOMAIN q[p[1]] /\ q[p[1]][p[2]] = j
        BY <2>2 DEF Positions
      <3>2. PICK m \in QueueNames, k \in Jobs : p = << m, k >>
        BY <3>1
      <3>3. k \in 1..Len(q[m]) /\ q[m][k] = j
        BY <1>1, <3>1, <3>2
      <3>4. m = n
        BY <1>1, <1>3, <3>3
      <3>5. k = i
        BY <1>1, <2>1, <3>3, <3>4 DEF NoRepeats
      <3>6. QED
        BY <3>2, <3>4, <3>5
    <2>3. << n, i >> \in Positions(q, j)
      BY <1>1, <2>1 DEF Positions
    <2>4. Positions(q, j) = {<< n, i >>}
      BY <2>2, <2>3
    <2>5. QED
      BY <2>4, FS_Singleton
  <1>4. QED
    BY <1>2, <1>3

\* Whatever the job list is, the seven queues and the memory agree (main() of mlq.c with
\* enqPcb, deqPcb, removeSpecificJob, memAlloc and memFree): no job is lost or queued
\* twice, and the allocated blocks are those of the jobs admitted and not swapped out.
THEOREM JobsKeepTheirMemory == Spec => []JobsAndMemoryAgree
  <1>1. ASSUME Invariant PROVE MemoryIsOwned
    <2>1. Holding(blocks, Resident, pcb, job)
      BY <1>1 DEF Invariant, Owned
    <2>2. Tiles(blocks) /\ Coalesced(blocks)
      BY <2>1 DEF Holding, WellFormed
    <2>3. UsedIntervals(blocks)
            = { [offset |-> pcb[j].block, size |-> job[j].mbytes] : j \in Resident }
      BY <2>1 DEF Holding
    <2>4. \A i, j \in Resident : i # j => pcb[i].block # pcb[j].block
      BY <2>1 DEF Holding
    <2>5. QED
      BY <2>2, <2>3, <2>4 DEF MemoryIsOwned
  <1>2. ASSUME Invariant PROVE EachJobInOnePlace
    <2>1. Queues(queue) /\ Apart(Where) /\ Suited(Where, job, pcb)
      BY <1>2 DEF Invariant, Placed
    <2>2. ASSUME NEW j \in Jobs
          PROVE  Cardinality(Positions(queue, j)) + (IF current = j THEN 1 ELSE 0) =
                   IF pcb[j].status = "TERMINATED" THEN 0 ELSE 1
      <3>1. PICK p \in Places : \A m \in Places : j \in Where[m] <=> m = p
        BY <2>1 DEF Apart
      <3>2. /\ \A n \in QueueNames : n \in Places /\ (j \in ToSet(queue[n]) <=> n = p)
            /\ current = j <=> p = "cpu"
            /\ pcb[j].status = "TERMINATED" <=> p = "gone"
            /\ "cpu" \notin QueueNames /\ "gone" \notin QueueNames
        <4>1. j # NoJob
          BY DEF Jobs, NoJob
        <4>2. QED
          BY <3>1, <4>1, WhereMembers DEF Where
      <3>3. CASE p \in QueueNames
        <4>1. Cardinality(Positions(queue, j)) = 1
          BY <2>1, <3>2, <3>3, PositionsOf
        <4>2. QED
          BY <3>2, <3>3, <4>1
      <3>4. CASE p \notin QueueNames
        <4>1. Cardinality(Positions(queue, j)) = 0
          BY <2>1, <3>2, <3>4, PositionsOf
        <4>2. p = "cpu" \/ p = "gone"
          BY <3>4 DEF Places
        <4>3. QED
          BY <3>2, <4>1, <4>2
      <3>5. QED
        BY <3>3, <3>4
    <2>3. QED
      BY <2>2 DEF EachJobInOnePlace, Positions
  <1>3. Invariant => JobsAndMemoryAgree
    BY <1>1, <1>2 DEF JobsAndMemoryAgree
  <1>4. QED
    BY <1>3, InvariantHolds, PTL

\* By the time Terminate counts a job (main() of mlq.c, step iii) it has been charged for
\* its service time exactly, and the totals behind the averages add up.
THEOREM ServiceIsCharged == Spec => []AccountingIsExact
  <1>1. ASSUME Invariant PROVE AccountingIsExact
    <2>1. ASSUME NEW j \in Jobs, pcb[j].status = "TERMINATED" PROVE pcb[j].remaining = 0
      <3>1. j \in Where["gone"] /\ "gone" \in Places
        BY <2>1, WhereMembers DEF Where
      <3>2. Suits("gone", job[j], pcb[j])
        BY <1>1, <3>1 DEF Invariant, Placed, Suited
      <3>3. QED
        BY <3>2 DEF Suits
    <2>2. total.finish >= total.arrival + total.service
      BY <1>1 DEF Invariant, Timed
    <2>3. QED
      BY <2>1, <2>2 DEF AccountingIsExact
  <1>2. QED
    BY <1>1, InvariantHolds, PTL

\* Where step viii of main() in mlq.c swaps a job in, memAlloc cannot fail, and
\* current_process can be NULL only for a job that the memory could never hold.
THEOREM SwappedJobsFit == Spec => []SwapInIsSafe
  <1>1. ASSUME Invariant, pc = "dispatch", OnlySwapLeft
        PROVE  /\ Fits(First("swap"))
               /\ NothingArrived \/ \E name \in {"normal", "rt"} :
                                      ~Empty(name) /\ job[First(name)].mbytes > MemSize
    <2>1. Typed /\ Placed /\ Owned /\ Admitted
      BY <1>1 DEF Invariant
    <2>2. /\ current = NoJob /\ Empty("L0") /\ Empty("L1") /\ Empty("L2") /\ ~Empty("swap")
      BY <1>1 DEF OnlySwapLeft, MustDispatch, ReadyToRun
    <2>3. /\ "L0" \in QueueNames /\ "L1" \in QueueNames /\ "L2" \in QueueNames
          /\ "swap" \in QueueNames /\ "rt" \in QueueNames /\ "normal" \in QueueNames
      BY DEF QueueNames
    <2>4. Resident = {}
      <3>1. \A n \in QueueNames : Empty(n) => \A i : i \notin ToSet(queue[n])
        BY <2>1, InQueue DEF Placed, Queues, Empty
      <3>2. \A i : i \notin Resident
        BY <2>2, <2>3, <3>1 DEF Resident, Ready
      <3>3. QED
        BY <3>2
    <2>5. ASSUME NEW n \in QueueNames, ~Empty(n)
          PROVE  /\ First(n) \in Jobs /\ Suits(n, job[First(n)], pcb[First(n)])
                 /\ job[First(n)].mbytes \in Nat \ {0}
                 /\ Fits(First(n)) <=> job[First(n)].mbytes <= MemSize
      <3>1. First(n) \in Jobs /\ Suits(n, job[First(n)], pcb[First(n)])
        BY <2>1, <2>5, HeadFacts
      <3>2. job[First(n)].mbytes \in Nat \ {0}
        BY <2>1, <3>1, TypeFacts
      <3>3. Holding(blocks, Resident, pcb, job)
        BY <2>1 DEF Owned
      <3>4. MemChk(blocks, job[First(n)].mbytes) # 0 <=> job[First(n)].mbytes <= MemSize
        BY <2>4, <3>2, <3>3, EmptyMemory
      <3>5. QED
        BY <3>1, <3>2, <3>4 DEF Fits
    <2>6. Fits(First("swap"))
      BY <2>2, <2>3, <2>5 DEF Suits
    <2>7. CASE ~Empty("rt")
      <3>1. ~Fits(First("rt"))
        BY <1>1, <2>1, <2>7 DEF Admitted
      <3>2. job[First("rt")].mbytes > MemSize
        BY <2>3, <2>5, <2>7, <3>1, MemSizeAssumption
      <3>3. QED
        BY <2>6, <2>7, <3>2
    <2>8. CASE Empty("rt") /\ ~Empty("normal")
      <3>1. ~Fits(First("normal"))
        BY <1>1, <2>1, <2>2, <2>8 DEF Admitted
      <3>2. job[First("normal")].mbytes > MemSize
        BY <2>3, <2>5, <2>8, <3>1, MemSizeAssumption
      <3>3. QED
        BY <2>6, <2>8, <3>2
    <2>9. QED
      BY <2>6, <2>7, <2>8 DEF NothingArrived
  <1>2. Invariant => SwapInIsSafe
    BY <1>1 DEF SwapInIsSafe
  <1>3. QED
    BY <1>2, InvariantHolds, PTL

\* Steps iv.b and v of main() in mlq.c swap out the level 2 job that has the most left
\* to do, although findMaxRemainingTime and the comparison with the running process see
\* the remaining times before the slice in progress is charged.
THEOREM LongestIsSwappedOut == Spec => VictimIsLongest
  <1> DEFINE Right == SwapOut =>
                 /\ pcb[longest].priority = 2
                 /\ \A j \in ToSet(queue["L2"])
                             \cup (IF RunningLevel2 THEN {current} ELSE {}) :
                      TimeLeft(j) <= TimeLeft(longest)
  <1>1. ASSUME Invariant PROVE Right
    <2>1. SUFFICES ASSUME SwapOut
                   PROVE  /\ pcb[longest].priority = 2
                          /\ \A j \in ToSet(queue["L2"])
                                 \cup (IF RunningLevel2 THEN {current} ELSE {}) :
                               TimeLeft(j) <= TimeLeft(longest)
      OBVIOUS
    <2>2. longest # NoJob
      BY <2>1 DEF SwapOut
    <2>3. Placed /\ longest \in Candidates
          /\ \A j \in Candidates : TimeLeft(j) <= TimeLeft(longest)
      BY <1>1, <2>2 DEF Invariant, VictimChosen
    <2>4. "L2" \in QueueNames
      BY DEF QueueNames
    <2>5. Where["L2"] = ToSet(queue["L2"])
      BY <2>4, WhereMembers DEF Where
    <2>6. pcb[longest].priority = 2
      <3>1. CASE longest \in ToSet(queue["L2"])
        BY <2>3, <2>4, <3>1, QueuedFacts DEF Suits
      <3>2. CASE longest \notin ToSet(queue["L2"])
        BY <2>3, <2>5, <3>2 DEF Candidates, RunningLevel2
      <3>3. QED
        BY <3>1, <3>2
    <2>7. QED
      BY <2>3, <2>5, <2>6 DEF Candidates
  <1>2. Invariant /\ [Next]_vars => [Right]_vars
    BY <1>1
  <1>3. Spec => [][Right]_vars
    <2> HIDE DEF Right
    <2>1. QED
      BY <1>2, InvariantHolds, PTL DEF Spec
  <1>4. QED
    BY <1>3 DEF VictimIsLongest

\* Steps vii to xi of main() in mlq.c never let the clock run while a job of a higher
\* level is ready and one of a lower level, or nobody, has the processor.
THEOREM HigherLevelsAreServedFirst == Spec => HigherLevelFirst
  <1> DEFINE Right == Sleep /\ timer' > timer =>
                 /\ ~Empty("L0") => current # NoJob /\ pcb[current].priority = 0
                 /\ ~Empty("L1") => /\ current # NoJob
                                    /\ pcb[current].priority < 2 \/ job[current].priority = 2
                 /\ ~Empty("L2") => current # NoJob
  <1>1. ASSUME Invariant PROVE Right
    <2>1. SUFFICES ASSUME Sleep, timer' > timer
                   PROVE  /\ ~Empty("L0") => current # NoJob /\ pcb[current].priority = 0
                          /\ ~Empty("L1") => /\ current # NoJob
                                             /\ \/ pcb[current].priority < 2
                                                \/ job[current].priority = 2
                          /\ ~Empty("L2") => current # NoJob
      OBVIOUS
    <2>2. pc = "sleep" /\ timer' = timer + Quantum
      BY <2>1 DEF Sleep
    <2>3. Typed /\ Served /\ timer \in Nat
      BY <1>1, TypeFacts DEF Invariant
    <2>4. CASE current # NoJob
      BY <2>2, <2>3, <2>4 DEF Served
    <2>5. CASE current = NoJob
      <3>1. Quantum = IdleTick
        BY <2>5 DEF Quantum
      <3>2. IdleTick # 0
        BY <2>1, <2>2, <2>3, <3>1
      <3>3. Idle
        BY <3>2 DEF IdleTick
      <3>4. QED
        BY <3>3 DEF Idle
    <2>6. QED
      BY <2>4, <2>5
  <1>2. Invariant /\ [Next]_vars => [Right]_vars
    BY <1>1
  <1>3. Spec => [][Right]_vars
    <2> HIDE DEF Right
    <2>1. QED
      BY <1>2, InvariantHolds, PTL DEF Spec
  <1>4. QED
    BY <1>3 DEF HigherLevelFirst

-----------------------------------------------------------------------------
(* The memory is never overcommitted                                       *)

\* The memory cells of the jobs in s, for process blocks own and job list need
Cells(s, own, need) ==
  { x \in 0..MemSize-1 : \E j \in s : own[j].block <= x
                                        /\ x < own[j].block + need[j].mbytes }

\* it adds up w over each subset of S.
AddsUp(it, S, w) ==
  it = [s \in SUBSET S |->
          IF s = {} THEN 0
          ELSE w[CHOOSE x \in s : TRUE] + it[s \ {CHOOSE x \in s : TRUE}]]

\* Each job of S has a range of cells, and they do not overlap.
OwnCells(S, own, need) ==
  /\ \A j \in S : /\ own[j].block \in Nat /\ need[j].mbytes \in Nat
                  /\ own[j].block + need[j].mbytes <= MemSize
  /\ \A i, j \in S : i # j => \/ own[i].block + need[i].mbytes <= own[j].block
                              \/ own[j].block + need[j].mbytes <= own[i].block

\* The size of an interval
LEMMA IntervalSize ==
  ASSUME NEW lo, NEW n, lo \in Int, n \in Nat
  PROVE  IsFiniteSet(lo .. lo + n - 1) /\ Cardinality(lo .. lo + n - 1) = n
  <1>1. PICK hi : hi = lo + n - 1
    OBVIOUS
  <1>2. lo \in Int /\ hi \in Int
    BY <1>1
  <1>3. IsFiniteSet(lo..hi) /\ Cardinality(lo..hi) = IF lo > hi THEN 0 ELSE hi-lo+1
    BY <1>2, FS_Interval
  <1>4. Cardinality(lo..hi) = n
    BY <1>1, <1>3
  <1>5. QED
    BY <1>1, <1>3, <1>4

\* The size of an interval that starts at 0
LEMMA RangeSize ==
  ASSUME NEW n, n \in Nat
  PROVE  IsFiniteSet(0 .. n - 1) /\ Cardinality(0 .. n - 1) = n
  <1>1. IsFiniteSet(0 .. 0 + n - 1) /\ Cardinality(0 .. 0 + n - 1) = n
    BY 0 \in Int, IntervalSize
  <1>2. 0 + n - 1 = n - 1
    OBVIOUS
  <1>3. QED
    BY <1>1, <1>2

\* A job's cells add to those of the others.
LEMMA CellsOfOneMore ==
  ASSUME NEW S, NEW own, NEW need, OwnCells(S, own, need), NEW s, s \subseteq S,
         NEW c, c \in s
  PROVE  /\ IsFiniteSet(Cells(s, own, need)) /\ Cardinality(Cells(s, own, need)) \in Nat
         /\ Cardinality(Cells(s, own, need)) =
              need[c].mbytes + Cardinality(Cells(s \ {c}, own, need))
  <1> DEFINE lo == own[c].block
             hi == own[c].block + need[c].mbytes - 1
             A  == Cells(s, own, need)
             B  == Cells(s \ {c}, own, need)
             C  == lo..hi
  <1>1. /\ lo \in Nat /\ need[c].mbytes \in Nat /\ lo + need[c].mbytes <= MemSize
        /\ MemSize \in Nat /\ hi \in Int /\ hi = lo + need[c].mbytes - 1
    BY MemSizeAssumption DEF OwnCells
  <1>2. A = B \cup C
    <2>1. \A x : x \in A <=> x \in B \/ x \in C
      <3>1. \A x : x \in C => x \in 0..MemSize-1 /\ lo <= x /\ x < lo + need[c].mbytes
        BY <1>1
      <3>2. \A x \in 0..MemSize-1 : lo <= x /\ x < lo + need[c].mbytes => x \in C
        BY <1>1
      <3> HIDE DEF C
      <3>3. QED
        BY <3>1, <3>2 DEF Cells
    <2>2. QED
      BY <2>1
  <1>3. B \cap C = {}
    <2>1. ASSUME NEW x \in B, x \in C PROVE FALSE
      <3>1. PICK j \in s \ {c} : own[j].block <= x /\ x < own[j].block + need[j].mbytes
        BY <2>1 DEF Cells
      <3>2. /\ j \in S /\ j # c /\ x \in Int
            /\ own[j].block \in Nat /\ need[j].mbytes \in Nat
        BY <2>1, <3>1 DEF OwnCells, Cells
      <3>3. \/ own[j].block + need[j].mbytes <= lo
            \/ lo + need[c].mbytes <= own[j].block
        BY <3>2 DEF OwnCells
      <3>4. QED
        BY <1>1, <2>1, <3>1, <3>2, <3>3
    <2>2. QED
      BY <2>1
  <1>4. IsFiniteSet(C) /\ Cardinality(C) = need[c].mbytes
    BY <1>1, IntervalSize
  <1>5. IsFiniteSet(0..MemSize-1)
    BY MemSizeAssumption, RangeSize
  <1>6. IsFiniteSet(A) /\ IsFiniteSet(B)
    BY <1>5, FS_Subset DEF Cells
  <1> HIDE DEF A, B, C, lo, hi
  <1>7. Cardinality(B \cup C) = Cardinality(B) + Cardinality(C) - Cardinality(B \cap C)
    BY <1>4, <1>6, FS_Union
  <1>8. Cardinality(B \cap C) = 0
    BY <1>3, FS_EmptySet
  <1>9. Cardinality(A) \in Nat /\ Cardinality(B) \in Nat
    BY <1>6, FS_CardinalityType
  <1>10. Cardinality(A) = need[c].mbytes + Cardinality(B)
    BY <1>1, <1>2, <1>4, <1>7, <1>8, <1>9
  <1>11. QED
    BY <1>6, <1>9, <1>10 DEF A, B

\* What adds up the sizes counts the cells.
LEMMA SumCountsCells ==
  ASSUME NEW S, IsFiniteSet(S), NEW own, NEW need, OwnCells(S, own, need),
         NEW w, \A j \in S : w[j] = need[j].mbytes
  PROVE  /\ \E it : AddsUp(it, S, w)
         /\ \A it : AddsUp(it, S, w) => it[S] = Cardinality(Cells(S, own, need))
  <1> DEFINE cells(s) == Cardinality(Cells(s, own, need))
             pick(s)  == CHOOSE x \in s : TRUE
  <1>1. cells({}) = 0
    <2>1. Cells({}, own, need) = {}
      BY DEF Cells
    <2>2. QED
      BY <2>1, FS_EmptySet
  <1>2. ASSUME NEW s \in SUBSET S, s # {}
        PROVE  /\ pick(s) \in s /\ s \ {pick(s)} \in SUBSET S
               /\ cells(s) = w[pick(s)] + cells(s \ {pick(s)})
    <2>1. pick(s) \in s
      BY <1>2
    <2> DEFINE c == pick(s)
    <2>2. c \in s /\ c \in S
      BY <2>1
    <2> HIDE DEF c
    <2>3. cells(s) = need[c].mbytes + cells(s \ {c})
      BY <2>2, CellsOfOneMore
    <2>4. cells(s) = w[c] + cells(s \ {c})
      BY <2>2, <2>3
    <2>5. QED
      BY <2>2, <2>4 DEF c
  <1> HIDE DEF cells
  <1>3. \E it : AddsUp(it, S, w)
    <2> DEFINE it == [s \in SUBSET S |-> cells(s)]
    <2>1. \A s \in SUBSET S :
            it[s] = IF s = {} THEN 0 ELSE w[pick(s)] + it[s \ {pick(s)}]
      BY <1>1, <1>2
    <2>2. it = [s \in SUBSET S |-> it[s]]
      OBVIOUS
    <2> HIDE DEF it
    <2>3. AddsUp(it, S, w)
      BY <2>1, <2>2 DEF AddsUp
    <2>4. QED
      BY <2>3
  <1>4. ASSUME NEW it, AddsUp(it, S, w) PROVE it[S] = cells(S)
    <2>1. \A s \in SUBSET S :
            it[s] = IF s = {} THEN 0 ELSE w[pick(s)] + it[s \ {pick(s)}]
      BY <1>4 DEF AddsUp
    <2> DEFINE Bad == { n \in Nat : \E s \in SUBSET S : Cardinality(s) = n /\ it[s] # cells(s) }
               m   == Min(Bad)
    <2>2. Bad = {}
      <3>1. SUFFICES ASSUME Bad # {} PROVE FALSE
        OBVIOUS
      <3>2. Bad \subseteq Nat
        OBVIOUS
      <3>3. m \in Bad /\ \A x \in Bad : m <= x
        <4> HIDE DEF Bad
        <4>1. QED
          BY <3>1, <3>2, MinOfNaturals
      <3> HIDE DEF m
      <3>4. PICK s \in SUBSET S : Cardinality(s) = m /\ it[s] # cells(s)
        BY <3>3
      <3>5. s # {}
        BY <1>1, <2>1, <3>4
      <3>6. PICK c : c = pick(s)
        OBVIOUS
      <3> DEFINE t == s \ {c}
      <3>7. /\ c \in s /\ t \in SUBSET S /\ cells(s) = w[c] + cells(t)
            /\ it[s] = w[c] + it[t]
        BY <1>2, <2>1, <3>5, <3>6
      <3>8. it[t] # cells(t)
        BY <3>4, <3>7
      <3>9. IsFiniteSet(s) /\ m \in Nat
        BY <3>3, FS_Subset
      <3>10. Cardinality(t) = m - 1 /\ Cardinality(t) \in Nat
        <4>1. IsFiniteSet(t) /\ Cardinality(t) = Cardinality(s) - 1
          BY <3>7, <3>9, FS_RemoveElement
        <4>2. Cardinality(t) \in Nat
          BY <4>1, FS_CardinalityType
        <4>3. QED
          BY <3>4, <4>1, <4>2
      <3>11. m - 1 \in Bad
        BY <3>7, <3>8, <3>10
      <3>12. QED
        BY <3>3, <3>9, <3>11
    <2>3. Cardinality(S) \in Nat
      BY FS_CardinalityType
    <2>4. QED
      BY <2>2, <2>3
  <1>5. QED
    BY <1>3, <1>4 DEF cells

\* The sum of w over S, in the way MapThenSumSet adds it up
SumOf(S, w) == (CHOOSE it : AddsUp(it, S, w))[S]

\* What memChk finds room for fits into what the holders of memory leave.
LEMMA RoomFor ==
  ASSUME NEW b, NEW R, NEW own, NEW need, Holding(b, R, own, need), IsFiniteSet(R),
         NEW n, n \in Nat \ {0}, MemChk(b, n) # 0,
         NEW w, \A j \in R : w[j] = need[j].mbytes
  PROVE  n <= MemSize - SumOf(R, w)
  <1>1. /\ WellFormed(b) /\ Ordered(b) /\ b \in Seq(Block) /\ Len(b) \in Nat \ {0}
        /\ \A i \in 1..Len(b) : /\ b[i].offset \in Nat /\ b[i].size \in Nat \ {0}
                                /\ b[i].allocated \in BOOLEAN
                                /\ b[i].offset + b[i].size <= MemSize
    BY BlockTypes, OffsetInMemory DEF Holding, WellFormed
  <1>2. PICK k \in 1..Len(b) : ~b[k].allocated /\ b[k].size >= n
    <2>1. /\ MemChk(b, n) \in 0..Len(b)
          /\ MemChk(b, n) # 0 => ~b[MemChk(b, n)].allocated /\ b[MemChk(b, n)].size >= n
      BY <1>1, MemChkProperties
    <2>2. QED
      BY <1>1, <2>1
  <1>3. ASSUME NEW j \in R
        PROVE  \E l \in 1..Len(b) : /\ b[l].allocated /\ own[j].block = b[l].offset
                                    /\ need[j].mbytes = b[l].size
    <2>1. [offset |-> own[j].block, size |-> need[j].mbytes] \in UsedIntervals(b)
      BY DEF Holding
    <2>2. PICK l \in 1..Len(b) :
            b[l].allocated /\ [offset |-> own[j].block, size |-> need[j].mbytes] = Interval(b, l)
      BY <2>1, UsedIntervalsMembers
    <2>3. own[j].block = b[l].offset /\ need[j].mbytes = b[l].size
      BY <2>2 DEF Interval
    <2>4. QED
      BY <2>2, <2>3
  <1>4. OwnCells(R, own, need)
    <2>1. \A j \in R : /\ own[j].block \in Nat /\ need[j].mbytes \in Nat
                       /\ own[j].block + need[j].mbytes <= MemSize
      BY <1>1, <1>3
    <2>2. ASSUME NEW i \in R, NEW j \in R, i # j
          PROVE  \/ own[i].block + need[i].mbytes <= own[j].block
                 \/ own[j].block + need[j].mbytes <= own[i].block
      <3>1. PICK l \in 1..Len(b) : own[i].block = b[l].offset /\ need[i].mbytes = b[l].size
        BY <1>3
      <3>2. PICK m \in 1..Len(b) : own[j].block = b[m].offset /\ need[j].mbytes = b[m].size
        BY <1>3
      <3>3. l # m
        BY <2>2, <3>1, <3>2 DEF Holding
      <3>4. l < m \/ m < l
        BY <1>1, <3>3
      <3>5. QED
        BY <1>1, <3>1, <3>2, <3>4 DEF Ordered
    <2>3. QED
      BY <2>1, <2>2 DEF OwnCells
  <1>5. SumOf(R, w) = Cardinality(Cells(R, own, need))
    BY <1>4, SumCountsCells DEF SumOf
  <1> DEFINE A  == Cells(R, own, need)
             lo == b[k].offset
             hi == b[k].offset + b[k].size - 1
             C  == lo..hi
             M  == 0..MemSize-1
  <1>6. /\ lo \in Nat /\ b[k].size \in Nat \ {0} /\ lo + b[k].size <= MemSize
        /\ MemSize \in Nat /\ hi \in Int /\ hi = lo + b[k].size - 1
    BY <1>1, MemSizeAssumption
  <1>7. A \cap C = {}
    <2>1. ASSUME NEW x \in A, x \in C PROVE FALSE
      <3>1. PICK j \in R : own[j].block <= x /\ x < own[j].block + need[j].mbytes
        BY <2>1 DEF Cells
      <3>2. PICK l \in 1..Len(b) : /\ b[l].allocated /\ own[j].block = b[l].offset
                                   /\ need[j].mbytes = b[l].size
        BY <1>3
      <3>3. l < k \/ k < l
        BY <1>1, <1>2, <3>2
      <3>4. \/ b[l].offset + b[l].size <= lo
            \/ lo + b[k].size <= b[l].offset
        BY <1>1, <3>3 DEF Ordered
      <3>5. x \in Int /\ b[l].offset \in Nat /\ b[l].size \in Nat
        BY <1>1, <2>1
      <3>6. lo <= x /\ x < lo + b[k].size
        BY <1>6, <2>1
      <3>7. b[l].offset <= x /\ x < b[l].offset + b[l].size
        BY <3>1, <3>2
      <3>8. lo \in Nat /\ b[k].size \in Nat
        BY <1>6
      <3> HIDE DEF A, C, M, lo, hi
      <3>9. QED
        BY <3>4, <3>5, <3>6, <3>7, <3>8
    <2>2. QED
      BY <2>1
  <1>8. A \subseteq M /\ C \subseteq M
    BY <1>6 DEF Cells
  <1>9. IsFiniteSet(M) /\ Cardinality(M) = MemSize
    BY MemSizeAssumption, RangeSize
  <1>10. IsFiniteSet(C) /\ Cardinality(C) = b[k].size
    BY <1>6, IntervalSize
  <1> HIDE DEF A, C, M, lo, hi
  <1>11. IsFiniteSet(A) /\ Cardinality(A) \in Nat
    BY <1>8, <1>9, FS_Subset, FS_CardinalityType
  <1>12. Cardinality(A \cup C) = Cardinality(A) + Cardinality(C) - Cardinality(A \cap C)
    BY <1>10, <1>11, FS_Union
  <1>13. Cardinality(A \cap C) = 0
    BY <1>7, FS_EmptySet
  <1>14. Cardinality(A \cup C) <= Cardinality(M)
    <2>1. A \cup C \in SUBSET M
      BY <1>8
    <2>2. QED
      BY <1>9, <2>1, FS_Subset
  <1>15. Cardinality(A) + b[k].size <= MemSize
    BY <1>6, <1>9, <1>10, <1>11, <1>12, <1>13, <1>14
  <1>16. SumOf(R, w) = Cardinality(A)
    BY <1>5 DEF A
  <1>17. QED
    BY <1>2, <1>6, <1>11, <1>15, <1>16

-----------------------------------------------------------------------------
(* The dispatcher implements the life of a job                             *)

\* The phase of a job's life that each place stands for
Stage(p) == IF p = "cpu" THEN "running"
            ELSE IF p \in {"L0", "L1", "L2"} THEN "ready"
            ELSE IF p = "swap" THEN "swapped"
            ELSE IF p \in {"normal", "rt"} THEN "arrived"
            ELSE IF p = "dispatch" THEN "listed"
            ELSE "done"

PhaseIn(q, c, j) ==
  CASE j = c -> "running"
    [] j \in ToSet(q["L0"]) \cup ToSet(q["L1"]) \cup ToSet(q["L2"]) -> "ready"
    [] j \in ToSet(q["swap"]) -> "swapped"
    [] j \in ToSet(q["normal"]) \cup ToSet(q["rt"]) -> "arrived"
    [] j \in ToSet(q["dispatch"]) -> "listed"
    [] OTHER -> "done"

Phase == [j \in Jobs |-> PhaseOf(j)]

\* The phase of a job can be told from where it is.
LEMMA PlaceTellsPhase ==
  ASSUME NEW q, NEW c, NEW r, Apart(WhereOf(q, c, r)),
         NEW p, p \in Places, NEW j, j \in WhereOf(q, c, r)[p]
  PROVE  j \in Jobs /\ PhaseIn(q, c, j) = Stage(p)
  <1> DEFINE W == WhereOf(q, c, r)
  <1>1. j \in Jobs /\ \A m \in Places : j \in W[m] <=> m = p
    BY OnePlace
  <1>2. /\ \A n \in QueueNames : n \in Places /\ W[n] = ToSet(q[n])
        /\ "cpu" \in Places /\ \A i : i \in W["cpu"] <=> i = c /\ i # NoJob
    BY WhereMembers
  <1> HIDE DEF W
  <1>3. j # NoJob
    BY <1>1 DEF Jobs, NoJob
  <1>4. j = c <=> p = "cpu"
    BY <1>1, <1>2, <1>3
  <1>5. /\ j \in ToSet(q["L0"]) <=> p = "L0"
        /\ j \in ToSet(q["L1"]) <=> p = "L1"
        /\ j \in ToSet(q["L2"]) <=> p = "L2"
        /\ j \in ToSet(q["swap"]) <=> p = "swap"
        /\ j \in ToSet(q["normal"]) <=> p = "normal"
        /\ j \in ToSet(q["rt"]) <=> p = "rt"
        /\ j \in ToSet(q["dispatch"]) <=> p = "dispatch"
    BY <1>1, <1>2 DEF QueueNames
  <1>6. PhaseIn(q, c, j) = Stage(p)
    BY <1>4, <1>5 DEF PhaseIn, Stage
  <1>7. QED
    BY <1>1, <1>6

\* PhaseOf in terms of the queues and the running process
LEMMA PhaseParts ==
  /\ \A j : PhaseOf(j) = PhaseIn(queue, current, j)
  /\ Phase = [j \in Jobs |-> PhaseIn(queue, current, j)]
  /\ Phase' = [j \in Jobs |-> PhaseIn(queue', current', j)]
  BY DEF Phase, PhaseOf, PhaseIn, Ready

\* Every job has a place, and its phase is that of the place.
LEMMA PhaseFacts ==
  ASSUME Placed
  PROVE  /\ \A p \in Places : \A j \in Where[p] : j \in Jobs /\ Phase[j] = Stage(p)
         /\ \A j \in Jobs : \E p \in Places : j \in Where[p] /\ Phase[j] = Stage(p)
  <1>1. Apart(Where) /\ Where = WhereOf(queue, current, pcb)
    BY DEF Placed, Where
  <1>2. ASSUME NEW p \in Places, NEW j \in Where[p]
        PROVE  j \in Jobs /\ Phase[j] = Stage(p)
    <2>1. j \in Jobs /\ PhaseIn(queue, current, j) = Stage(p)
      BY <1>1, <1>2, PlaceTellsPhase
    <2>2. QED
      BY <2>1, PhaseParts
  <1>3. QED
    BY <1>1, <1>2 DEF Apart

\* A job that changes its place changes its phase, and nobody else does.
LEMMA PhaseMoves ==
  ASSUME Placed, Placed', NEW j, j \in Jobs, NEW p, p \in Places, Moves(j, p)
  PROVE  Phase' = [Phase EXCEPT ![j] = Stage(p)]
  <1> DEFINE W == WhereOf(queue, current, pcb)
             V == WhereOf(queue', current', pcb')
  <1>1. Apart(W) /\ Apart(V) /\ MovedTo(W, V, j, p)
    BY DEF Placed, Where, Moves
  <1>2. /\ \A q \in Places : \A i \in W[q] : i \in Jobs /\ PhaseIn(queue, current, i) = Stage(q)
        /\ \A q \in Places : \A i \in V[q] : i \in Jobs /\ PhaseIn(queue', current', i) = Stage(q)
    BY <1>1, PlaceTellsPhase
  <1> HIDE DEF W, V
  <1>3. PhaseIn(queue', current', j) = Stage(p)
    BY <1>1, <1>2 DEF MovedTo
  <1>4. ASSUME NEW i \in Jobs, i # j
        PROVE  PhaseIn(queue', current', i) = PhaseIn(queue, current, i)
    <2>1. PICK q \in Places : i \in W[q]
      BY <1>1 DEF Apart
    <2>2. i \in V[q]
      BY <1>1, <1>4, <2>1 DEF MovedTo
    <2>3. QED
      BY <1>2, <2>1, <2>2
  <1>5. QED
    BY <1>3, <1>4, PhaseParts

\* The jobs in memory and the room they leave, as JobLifecycle sees them
LEMMA RoomParts ==
  ASSUME Typed, Placed
  PROVE  /\ Lifecycle!Resident = Resident
         /\ Lifecycle!Room = MemSize - SumOf(Resident, [j \in Jobs |-> job[j].mbytes])
  <1>1. \A i : i \in Lifecycle!Resident <=>
               i \in Jobs /\ (Phase[i] = "ready" \/ Phase[i] = "running")
    BY DEF Lifecycle!Resident, Lifecycle!In, Phase
  <1>2. \A p \in Places : Stage(p) \in {"ready", "running"} <=> p \in MemoryPlaces
    BY DEF Stage, MemoryPlaces
  <1>3. \A i \in Jobs : i \in Resident <=> Phase[i] \in {"ready", "running"}
    BY <1>2, PhaseFacts, OldPlace
  <1>4. Lifecycle!Resident = Resident
    BY <1>1, <1>3, ResidentJobs
  <1>5. Lifecycle!Room =
          MemSize - SumOf(Lifecycle!Resident, [j \in Jobs |-> job[j].mbytes])
    BY DEF Lifecycle!Room, Lifecycle!MapThenSumSet, Lifecycle!MapThenFoldSet, SumOf, AddsUp
  <1>6. QED
    BY <1>4, <1>5

\* A step that moves a job is a move of JobLifecycle, and one that moves nobody is none.
LEMMA LifecycleMoves ==
  ASSUME Placed, Placed', job' = job, NEW p, p \in Places, NEW j, j \in Where[p],
         NEW q, q \in Places, Moves(j, q)
  PROVE  /\ j \in Jobs /\ Lifecycle!Move(j, Stage(p), Stage(q))
         /\ Stage(p) = Stage(q) => UNCHANGED Lifecycle!vars
  <1>1. j \in Jobs /\ Phase[j] = Stage(p)
    BY PhaseFacts
  <1>2. Phase' = [Phase EXCEPT ![j] = Stage(q)]
    BY <1>1, PhaseMoves
  <1>3. Lifecycle!Move(j, Stage(p), Stage(q))
    BY <1>1, <1>2 DEF Lifecycle!Move, Phase
  <1>4. Stage(p) = Stage(q) => Phase' = Phase
    BY <1>1, <1>2 DEF Phase
  <1>5. Stage(p) = Stage(q) => UNCHANGED Lifecycle!vars
    BY <1>4 DEF Lifecycle!vars, Phase
  <1>6. QED
    BY <1>1, <1>3, <1>5

\* What a job list says of a real-time job, as JobLifecycle sees it
LEMMA RealTimeJobs ==
  ASSUME Placed, NEW p, p \in Places, NEW j, j \in Where[p]
  PROVE  j \in { i \in Jobs : job[i].priority = 0 } <=> pcb[j].priority = 0
  BY OldPlace DEF Suits

\* Whoever is admitted fits into the room that the resident jobs leave.
LEMMA AdmitIsAdmit ==
  ASSUME Invariant, Placed', job' = job, NEW from, from \in {"normal", "rt"},
         NEW to, to \in {"L0", "L1"}, ~Empty(from), Fits(First(from)), Moves(First(from), to)
  PROVE  \E j \in Jobs : Lifecycle!Admit(j)
  <1>1. PICK j : j = First(from)
    OBVIOUS
  <1>2. Typed /\ Placed /\ Owned
    BY DEF Invariant
  <1>3. from \in QueueNames /\ to \in Places /\ from # "cpu"
    BY DEF QueueNames, Places
  <1>4. j \in Jobs /\ j \in Where[from] /\ from \in Places
    BY <1>1, <1>2, <1>3, HeadFacts
  <1>5. Lifecycle!Move(j, "arrived", "ready")
    <2>1. Stage(from) = "arrived" /\ Stage(to) = "ready"
      BY DEF Stage
    <2>2. Lifecycle!Move(j, Stage(from), Stage(to))
      BY <1>1, <1>2, <1>3, <1>4, LifecycleMoves
    <2>3. QED
      BY <2>1, <2>2
  <1> DEFINE w == [i \in Jobs |-> job[i].mbytes]
  <1>6. job[j].mbytes <= MemSize - SumOf(Resident, w)
    <2>1. Holding(blocks, Resident, pcb, job) /\ IsFiniteSet(Resident)
      <3>1. IsFiniteSet(Jobs)
        BY SchedulerAssumption, FS_Interval DEF Jobs
      <3>2. QED
        BY <1>2, <3>1, ResidentJobs, FS_Subset DEF Owned
    <2>2. job[j].mbytes \in Nat \ {0} /\ MemChk(blocks, job[j].mbytes) # 0
      BY <1>1, <1>2, <1>4, TypeFacts DEF Fits
    <2>3. \A i \in Resident : w[i] = job[i].mbytes
      BY <1>2, ResidentJobs
    <2> HIDE DEF w
    <2>4. QED
      BY <2>1, <2>2, <2>3, RoomFor
  <1>7. w[j] <= Lifecycle!Room
    BY <1>2, <1>4, <1>6, RoomParts
  <1>8. Lifecycle!Admit(j)
    BY <1>5, <1>7 DEF Lifecycle!Admit
  <1>9. QED
    BY <1>4, <1>8

\* Nobody is running while current_process is NULL.
LEMMA NobodyRuns ==
  ASSUME Placed, current = NoJob
  PROVE  Lifecycle!In("running") = {}
  <1>1. \A p \in Places : Stage(p) = "running" => p = "cpu"
    BY DEF Stage
  <1>2. \A i : i \notin Where["cpu"]
    BY WhereMembers DEF Where
  <1>3. \A i \in Jobs : Phase[i] # "running"
    BY <1>1, <1>2, PhaseFacts
  <1>4. QED
    BY <1>3 DEF Lifecycle!In, Phase

\* Nobody waits when the queues are empty.
LEMMA NobodyWaits ==
  ASSUME Placed, current = NoJob,
         \A n \in {"normal", "rt", "L0", "L1", "L2"} : Empty(n)
  PROVE  Lifecycle!In("arrived") \cup Lifecycle!Resident = {}
  <1>1. \A p \in Places : Stage(p) \in {"arrived", "ready", "running"}
                            => p \in {"normal", "rt", "L0", "L1", "L2", "cpu"}
    BY DEF Stage
  <1>2. \A p \in {"normal", "rt", "L0", "L1", "L2", "cpu"} : \A i : i \notin Where[p]
    <2>1. \A n \in {"normal", "rt", "L0", "L1", "L2"} :
            n \in QueueNames /\ ToSet(queue[n]) = {}
      BY DEF QueueNames, Empty, ToSet
    <2>2. QED
      BY <2>1, WhereMembers DEF Where
  <1>3. \A i \in Jobs : Phase[i] \notin {"arrived", "ready", "running"}
    BY <1>1, <1>2, PhaseFacts
  <1>4. QED
    BY <1>3 DEF Lifecycle!In, Lifecycle!Resident, Phase

\* A step that moves nobody is none of JobLifecycle.
LEMMA QuietSteps ==
  ASSUME job' = job, queue' = queue, current' = current
  PROVE  UNCHANGED Lifecycle!vars
  <1>1. Phase' = Phase
    BY PhaseParts
  <1>2. QED
    BY <1>1 DEF Lifecycle!vars, Phase

\* Each step of the loop is a step in the life of one job, or of none.
LEMMA StepsAreJobSteps == Invariant /\ [Next]_vars => [Lifecycle!Next]_(Lifecycle!vars)
  <1> SUFFICES ASSUME Invariant, [Next]_vars
               PROVE  (\E j \in Jobs : \/ Lifecycle!Arrive(j) \/ Lifecycle!Admit(j)
                                       \/ Lifecycle!Start(j) \/ Lifecycle!Preempt(j)
                                       \/ Lifecycle!SwapOut(j) \/ Lifecycle!SwapIn(j)
                                       \/ Lifecycle!Finish(j))
                      \/ UNCHANGED Lifecycle!vars
    BY DEF Lifecycle!Next
  <1>1. Typed /\ Placed /\ VictimChosen /\ Invariant' /\ Placed'
    BY NextInvariant DEF Invariant
  <1>2. /\ Stage("dispatch") = "listed" /\ Stage("normal") = "arrived" /\ Stage("rt") = "arrived"
        /\ Stage("L0") = "ready" /\ Stage("L1") = "ready" /\ Stage("L2") = "ready"
        /\ Stage("swap") = "swapped" /\ Stage("cpu") = "running" /\ Stage("gone") = "done"
    BY DEF Stage
  <1>3. /\ {"dispatch", "normal", "rt", "L0", "L1", "L2", "swap"} = QueueNames
        /\ QueueNames \subseteq Places /\ "cpu" \in Places /\ "gone" \in Places
    BY DEF QueueNames, Places
  <1>4. ASSUME NEW p \in {"L2", "gone", "cpu", "swap"}, current # NoJob, job' = job,
               Moves(current, p)
        PROVE  /\ current \in Jobs /\ Lifecycle!Move(current, "running", Stage(p))
               /\ p = "cpu" => UNCHANGED Lifecycle!vars
    <2>1. current \in Where["cpu"]
      BY <1>1, <1>4, RunningFacts
    <2>2. QED
      BY <1>1, <1>2, <1>3, <1>4, <2>1, LifecycleMoves
  <1>5. ASSUME NEW n \in QueueNames, ~Empty(n), NEW p \in Places, job' = job, Moves(First(n), p)
        PROVE  First(n) \in Jobs /\ Lifecycle!Move(First(n), Stage(n), Stage(p))
    <2>1. First(n) \in Where[n]
      BY <1>1, <1>5, HeadFacts
    <2>2. QED
      BY <1>1, <1>3, <1>5, <2>1, LifecycleMoves
  <1>6. CASE \/ LoopTest \/ UnloadDone \/ NotExpired \/ AdmitNormalDone \/ ChooseVictim
             \/ NoSwapOut \/ AdmitRealTimeDone \/ NothingToCharge \/ NoDispatch
             \/ DispatchNothing \/ Sleep \/ Stopped \/ UNCHANGED vars
    <2>1. job' = job /\ queue' = queue /\ current' = current
      BY <1>6 DEF LoopTest, UnloadDone, NotExpired, AdmitNormalDone, ChooseVictim, NoSwapOut,
         AdmitRealTimeDone, NothingToCharge, NoDispatch, DispatchNothing, Sleep, Stopped,
         vars, input
    <2>2. QED
      BY <2>1, QuietSteps
  <1>7. CASE Unload
    <2>1. job' = job /\ ~Empty("dispatch")
      BY <1>7 DEF Unload, HeadHasArrived, input
    <2>2. PICK p \in {"rt", "normal"} : Moves(First("dispatch"), p)
      BY <1>7, UnloadKeeps
    <2>3. First("dispatch") \in Jobs /\ Lifecycle!Move(First("dispatch"), "listed", "arrived")
      BY <1>2, <1>3, <1>5, <2>1, <2>2
    <2>4. Lifecycle!Arrive(First("dispatch"))
      BY <2>3 DEF Lifecycle!Arrive
    <2>5. QED
      BY <2>3, <2>4
  <1>8. CASE Terminate
    <2>1. job' = job /\ current # NoJob
      BY <1>8 DEF Terminate, Expired, input
    <2>2. Moves(current, "gone")
      BY <1>8, TerminateKeeps
    <2>3. current \in Jobs /\ Lifecycle!Finish(current)
      BY <1>2, <1>4, <2>1, <2>2 DEF Lifecycle!Finish
    <2>4. QED
      BY <2>3
  <1>9. CASE AdmitNormal
    <2>1. job' = job /\ ~Empty("normal") /\ Fits(First("normal"))
      BY <1>9 DEF AdmitNormal, CanAdmitNormal, input
    <2>2. Moves(First("normal"), "L1")
      BY <1>9, AdmitNormalKeeps
    <2>3. QED
      BY <1>1, <2>1, <2>2, AdmitIsAdmit
  <1>10. CASE AdmitRealTime
    <2>1. job' = job /\ ~Empty("rt") /\ Fits(First("rt"))
      BY <1>10 DEF AdmitRealTime, CanAdmitRealTime, input
    <2>2. Moves(First("rt"), "L0")
      BY <1>10, AdmitRealTimeKeeps
    <2>3. QED
      BY <1>1, <2>1, <2>2, AdmitIsAdmit
  <1>11. CASE SwapOut
    <2>1. job' = job /\ longest # NoJob /\ longest \in Candidates /\ ~Empty("rt")
      BY <1>1, <1>11 DEF SwapOut, VictimChosen, input
    <2>2. Moves(longest, "swap")
      BY <1>11, SwapOutKeeps
    <2>3. PICK p \in {"L2", "cpu"} : longest \in Where[p] /\ pcb[longest].priority = 2
      <3>1. CASE longest \in Where["L2"]
        BY <1>1, <1>3, <3>1, OldPlace DEF Suits
      <3>2. CASE longest = current /\ RunningLevel2
        BY <1>1, <2>1, <3>2, RunningFacts DEF RunningLevel2
      <3>3. QED
        BY <2>1, <3>1, <3>2 DEF Candidates
    <2>4. longest \in Jobs /\ Lifecycle!Move(longest, Stage(p), "swapped")
      BY <1>1, <1>2, <1>3, <2>1, <2>2, <2>3, LifecycleMoves
    <2>5. Stage(p) \in {"ready", "running"}
      BY <1>2
    <2>6. longest \notin { i \in Jobs : job[i].priority = 0 }
      BY <1>1, <1>3, <2>3, RealTimeJobs
    <2>7. \E r \in { i \in Jobs : job[i].priority = 0 } : Phase[r] = "arrived"
      <3>1. First("rt") \in Where["rt"] /\ pcb[First("rt")].priority = 0
        BY <1>1, <1>3, <2>1, HeadFacts DEF Suits
      <3>2. Phase[First("rt")] = "arrived"
        BY <1>1, <1>2, <1>3, <3>1, PhaseFacts
      <3>3. First("rt") \in { i \in Jobs : job[i].priority = 0 }
        BY <1>1, <1>3, <3>1, RealTimeJobs
      <3>4. QED
        BY <3>2, <3>3
    <2>8. Lifecycle!SwapOut(longest)
      BY <2>4, <2>5, <2>6, <2>7 DEF Lifecycle!SwapOut, Phase
    <2>9. QED
      BY <2>4, <2>8
  <1>12. CASE Preempt \/ Demote
    <2>1. job' = job /\ current # NoJob /\ pc = "charge"
      BY <1>12 DEF Preempt, Demote, input
    <2>2. Moves(current, "L2")
      BY <1>12, PreemptKeeps, DemoteKeeps
    <2>3. current \in Jobs /\ Lifecycle!Move(current, "running", "ready")
      BY <1>2, <1>4, <2>1, <2>2
    <2>4. current \notin { i \in Jobs : job[i].priority = 0 }
      <3>1. pcb[current].priority # 0
        BY <2>1 DEF Invariant, Sliced, Slicing
      <3>2. current \in Where["cpu"]
        BY <1>1, <2>1, RunningFacts
      <3>3. QED
        BY <1>1, <1>3, <3>1, <3>2, RealTimeJobs
    <2>5. Lifecycle!Preempt(current)
      BY <2>3, <2>4 DEF Lifecycle!Preempt
    <2>6. QED
      BY <2>3, <2>5
  <1>13. CASE KeepRunning
    <2>1. job' = job /\ current # NoJob
      BY <1>13 DEF KeepRunning, input
    <2>2. Moves(current, "cpu")
      BY <1>13, KeepRunningKeeps
    <2>3. QED
      BY <1>4, <2>1, <2>2
  <1>14. CASE DispatchReady
    <2>1. job' = job /\ current = NoJob
      BY <1>14 DEF DispatchReady, MustDispatch, input
    <2>2. PICK p \in {"L0", "L1", "L2"} : ~Empty(p) /\ Moves(First(p), "cpu")
      BY <1>14, DispatchReadyKeeps
    <2>3. First(p) \in Jobs /\ Lifecycle!Move(First(p), "ready", "running")
      BY <1>2, <1>3, <1>5, <2>1, <2>2
    <2>4. Lifecycle!Start(First(p))
      BY <1>1, <2>1, <2>3, NobodyRuns DEF Lifecycle!Start
    <2>5. QED
      BY <2>3, <2>4
  <1>15. CASE DispatchSwapped
    <2>1. /\ job' = job /\ current = NoJob /\ ~Empty("swap")
          /\ \A n \in {"normal", "rt", "L0", "L1", "L2"} : Empty(n)
      BY <1>15 DEF DispatchSwapped, OnlySwapLeft, MustDispatch, ReadyToRun, NothingArrived, input
    <2>2. Moves(First("swap"), "cpu")
      BY <1>15, DispatchSwappedKeeps
    <2>3. First("swap") \in Jobs /\ Lifecycle!Move(First("swap"), "swapped", "running")
      BY <1>2, <1>3, <1>5, <2>1, <2>2
    <2>4. Lifecycle!SwapIn(First("swap"))
      BY <1>1, <2>1, <2>3, NobodyWaits DEF Lifecycle!SwapIn
    <2>5. QED
      BY <2>3, <2>4
  <1>16. QED
    BY <1>6, <1>7, <1>8, <1>9, <1>10, <1>11, <1>12, <1>13, <1>14, <1>15 DEF Next

\* The job list starts all jobs off as JobLifecycle does.
LEMMA InitIsInit == Init => Lifecycle!Init
  <1> SUFFICES ASSUME Init PROVE Lifecycle!Init
    OBVIOUS
  <1>1. Typed /\ Placed
    BY InitInvariant DEF Invariant
  <1>2. "dispatch" \in QueueNames /\ "dispatch" \in Places /\ Stage("dispatch") = "listed"
    BY DEF QueueNames, Places, Stage
  <1>3. \A j \in Jobs : j \in Where["dispatch"]
    <2>1. queue["dispatch"] = [j \in Jobs |-> j]
      BY <1>2 DEF Init
    <2>2. \A j \in Jobs : j \in ToSet(queue["dispatch"])
      BY <2>1 DEF ToSet
    <2>3. QED
      BY <1>2, <2>2, WhereMembers DEF Where
  <1>4. \A j \in Jobs : Phase[j] = "listed"
    BY <1>1, <1>2, <1>3, PhaseFacts
  <1>5. [j \in Jobs |-> job[j].mbytes] \in [Jobs -> Nat]
    BY <1>1, TypeFacts
  <1>6. QED
    BY <1>4, <1>5 DEF Lifecycle!Init, Phase

\* The dispatcher implements the life of a job: one processor, a memory that is never
\* overcommitted, real-time jobs never interrupted or swapped out, and swaps only for a
\* blocked real-time job (main() of mlq.c with pcb.c and mab.c).
THEOREM DispatcherImplementsLifecycle == Spec => ImplementsLifecycle
  <1>1. Init => Lifecycle!Init
    BY InitIsInit
  <1>2. Invariant /\ [Next]_vars => [Lifecycle!Next]_(Lifecycle!vars)
    BY StepsAreJobSteps
  <1>3. QED
    BY <1>1, <1>2, InvariantHolds, PTL DEF Spec, ImplementsLifecycle, Lifecycle!Spec
=============================================================================
