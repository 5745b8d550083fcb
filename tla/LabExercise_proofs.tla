------------------------- MODULE LabExercise_proofs -------------------------
(***************************************************************************)
(* Theorems about LabExercise for any number of students, any group size   *)
(* and any time limit, whenever main makes its stores and whatever waits   *)
(* return unsignalled.  Types and main's last message hold in every run;   *)
(* the rest until the run has been disturbed: by a store of main that      *)
(* clears a flag that was set, or by an unsignalled return of one of the   *)
(* two waits that are not in a loop.                                       *)
(***************************************************************************)
EXTENDS LabExercise, FiniteSetTheorems, TLAPS

-----------------------------------------------------------------------------
(* The inductive invariant                                                 *)

Smaller(a, b) == IF a <= b THEN a ELSE b

Assigned == { s \in Students : my_group_id[s] # 0 }

\* the members of the groups 1 to g
Upto(g) == { s \in Students : my_group_id[s] \in 1..g }

Left == { s \in Students : pcStudent[s] = "left" }

Giving  == pcTeacher \in {"new", "give", "giveWait", "giveWoken", "lastWait"}
Calling == pcTeacher \in {"call", "callWait", "exercise", "done"}

\* There is no teacher before main has created it.
TeacherIsCreated == pcMain = "createTeacher" => pcTeacher = "new"

\* The ids that have been taken are those handed out but for the one on offer, and
\* the students who have one have it as their group.
IdsCounted ==
  /\ local_id = n_current_assigned_id + 1
  /\ Cardinality(Assigned) = n_current_assigned_id - (IF s_id_available THEN 1 ELSE 0)
  /\ n_groups = IF n_current_assigned_id = 0 THEN 0
                ELSE CalculateGroupId(n_current_assigned_id)
  /\ \A s \in Students : pcStudent[s] \in {"new", "get", "getWait"} <=> my_group_id[s] = 0

\* Groups are filled one after the other.
GroupsFillUp ==
  \A g \in Nat : Cardinality(Upto(g)) = Smaller(g * K, Cardinality(Assigned))

\* At its waits for a student the teacher knows whether the id has been taken.
IdsHandedOver ==
  /\ pcTeacher = "giveWait" => s_id_available /\ local_id <= n
  /\ pcTeacher = "giveWoken" => ~s_id_available /\ local_id <= n
  /\ pcTeacher = "lastWait" => s_id_available
  /\ pcTeacher = "lastWait" \/ Calling => local_id = n + 1
  /\ Calling => ~s_id_available
  /\ Giving => called_gid = 0 /\ ~room_available

\* Who has left: everybody of the groups before the one called last, and of that one
\* everybody unless the room is taken.
RoomIsKept ==
  /\ l_id = called_gid /\ called_gid <= n_groups
  /\ n_current_finish = Cardinality(Left)
  /\ Left \subseteq Upto(called_gid)
  /\ ~room_available => Left = Upto(called_gid)
  /\ room_available => /\ called_gid > 0 /\ Upto(called_gid - 1) \subseteq Left
                       /\ n_current_finish < Cardinality(Upto(called_gid))

\* What the teacher knows of the room: a taken room is one whose exercise is over once
\* the teacher is back at its call.
CallsAreGuarded ==
  /\ lab_exercise_finish => room_available
  /\ pcTeacher = "exercise" => room_available /\ ~lab_exercise_finish
  /\ pcTeacher = "callWait" => room_available
  /\ pcTeacher \in {"call", "callWait", "done"} /\ room_available => lab_exercise_finish
  /\ pcTeacher = "done" => l_id = n_groups

Invariant ==
  /\ TypeOK /\ TeacherIsCreated /\ IdsCounted /\ GroupsFillUp /\ IdsHandedOver
  /\ RoomIsKept /\ CallsAreGuarded /\ OneGroupInLab /\ MessageIsTrue

\* What no disturbance changes
Always ==
  /\ TypeOK /\ disturbed \in BOOLEAN /\ MessageIsTrue
  /\ local_id = n_current_assigned_id + 1
  /\ pcTeacher \in {"giveWait", "giveWoken"} => local_id <= n
  /\ s_id_available => n_current_assigned_id > 0
  /\ l_id <= n_groups
  /\ n_current_finish = Cardinality(Left)

-----------------------------------------------------------------------------
(* Arithmetic                                                              *)

\* Division by the group size
LEMMA DivFacts ==
  ASSUME NEW a \in Nat
  PROVE  a \div K \in Nat /\ (a \div K) * K <= a /\ a < (a \div K + 1) * K
  BY LabAssumption

\* Products are monotone.
LEMMA Products ==
  ASSUME NEW g \in Nat, NEW h \in Nat
  PROVE  /\ g * K \in Nat
         /\ g <= h => g * K <= h * K
         /\ g < h => g * K + K <= h * K
         /\ (g + 1) * K = g * K + K
  BY LabAssumption

\* Between two multiples of K only the second one is divisible by it.
LEMMA NextMultiple ==
  ASSUME NEW m \in Nat, NEW g \in Nat, g * K < m, m <= (g + 1) * K
  PROVE  m % K = 0 <=> m = (g + 1) * K
  <1>1. ASSUME m = (g + 1) * K PROVE m % K = 0
    BY <1>1, LabAssumption
  <1>2. ASSUME m % K = 0 PROVE m = (g + 1) * K
    <2> DEFINE q == m \div K
    <2>1. m = q * K
      BY <1>2, LabAssumption
    <2>2. q \in Nat
      BY DivFacts
    <2> HIDE DEF q
    <2>3. ~(q <= g)
      <3>1. q <= g => q * K <= g * K
        BY <2>2, Products
      <3>2. q * K \in Nat /\ g * K \in Nat
        BY <2>2, Products
      <3>3. QED
        BY <2>1, <3>1, <3>2
    <2>4. ~(g + 1 < q)
      <3>1. g + 1 < q => (g + 1) * K + K <= q * K
        BY <2>2, Products
      <3>2. q * K \in Nat /\ (g + 1) * K \in Nat
        BY <2>2, Products
      <3>3. QED
        BY <2>1, <3>1, <3>2, LabAssumption
    <2>5. q = g + 1
      BY <2>2, <2>3, <2>4
    <2>6. QED
      BY <2>1, <2>5
  <1>3. QED
    BY <1>1, <1>2

\* Group ids start at 1, do not fall and do not exceed the id; the id lies in the
\* range of its group.
LEMMA GroupIdFacts ==
  ASSUME NEW id \in Nat \ {0}
  PROVE  /\ CalculateGroupId(id) \in 1..id
         /\ (CalculateGroupId(id) - 1) * K < id
         /\ id <= CalculateGroupId(id) * K
         /\ CalculateGroupId(id) <= CalculateGroupId(id + 1)
  <1> DEFINE q == (id - 1) \div K
             r == id \div K
  <1>1. CalculateGroupId(id) = q + 1 /\ CalculateGroupId(id + 1) = r + 1
    BY DEF CalculateGroupId
  <1>2. q \in Nat /\ q * K <= id - 1 /\ id - 1 < (q + 1) * K
    BY DivFacts
  <1>3. r \in Nat /\ r * K <= id /\ id < (r + 1) * K
    BY DivFacts
  <1> HIDE DEF q, r
  <1>4. q <= q * K
    BY <1>2, LabAssumption
  <1>5. q <= r
    <2>1. q * K \in Nat /\ (r + 1) * K \in Nat /\ (r + 1 <= q => (r + 1) * K <= q * K)
      BY <1>2, <1>3, Products
    <2>2. ~(r + 1 <= q)
      BY <1>2, <1>3, <2>1
    <2>3. QED
      BY <1>2, <1>3, <2>2
  <1>6. q * K \in Nat /\ (q + 1) * K \in Nat
    BY <1>2, Products
  <1>7. q + 1 - 1 = q
    BY <1>2
  <1>8. q + 1 <= id
    BY <1>2, <1>4, <1>6
  <1>9. QED
    BY <1>1, <1>2, <1>3, <1>5, <1>6, <1>7, <1>8

\* Min and Max of two numbers
LEMMA MinMaxOfTwo ==
  ASSUME NEW a \in Int, NEW b \in Int
  PROVE  Min({a, b}) = Smaller(a, b) /\ Max({a, b}) = (IF a <= b THEN b ELSE a)
  <1>1. \E x \in {a, b} : \A y \in {a, b} : x <= y
    OBVIOUS
  <1>2. Min({a, b}) \in {a, b} /\ \A y \in {a, b} : Min({a, b}) <= y
    BY <1>1 DEF Min
  <1>3. \E x \in {a, b} : \A y \in {a, b} : x >= y
    OBVIOUS
  <1>4. Max({a, b}) \in {a, b} /\ \A y \in {a, b} : Max({a, b}) >= y
    BY <1>3 DEF Max
  <1>5. QED
    BY <1>2, <1>4 DEF Smaller

-----------------------------------------------------------------------------
(* What the steps leave alone                                              *)

\* n is a number, and so are the sizes of all sets of students.
LEMMA Sizes ==
  ASSUME NEW S \in SUBSET Students
  PROVE  IsFiniteSet(S) /\ Cardinality(S) \in Nat /\ Cardinality(S) <= n /\ n \in Nat
         /\ (Cardinality(S) = n => S = Students)
  BY LabAssumption, FS_Subset, FS_CardinalityType DEF n

\* As long as the groups do not change nobody's size does.
LEMMA GroupsKept ==
  ASSUME my_group_id' = my_group_id
  PROVE  /\ Assigned' = Assigned /\ \A g : Upto(g)' = Upto(g)
         /\ GroupsFillUp => GroupsFillUp'
  <1>1. Assigned' = Assigned
    BY DEF Assigned
  <1>2. \A g : Upto(g)' = Upto(g)
    BY DEF Upto
  <1>3. QED
    BY <1>1, <1>2 DEF GroupsFillUp

Places == {"new", "get", "getWait", "enter", "enterWait", "labWait", "labWoken", "left"}

Stage(p) == CASE p \in {"new", "get", "getWait"} -> 1
              [] p \in {"enter", "enterWait"} -> 2
              [] p \in {"labWait", "labWoken"} -> 3
              [] p = "left" -> 4

\* Falling asleep and waking up, a student stays at the stage it is at.
SameStages == /\ pcStudent' \in [Students -> Places]
              /\ \A s \in Students : Stage(pcStudent'[s]) = Stage(pcStudent[s])

\* The three kinds of signals only wake.
LEMMA SignalsWake ==
  ASSUME TypeOK,
         \/ pcStudent' = pcStudent
         \/ SignalStudent("getWait", "get")
         \/ BroadcastStudents("enterWait", "enter")
         \/ BroadcastStudents("labWait", "labWoken")
  PROVE  SameStages
  <1>1. pcStudent \in [Students -> Places]
    BY DEF TypeOK, Places
  <1>2. CASE pcStudent' = pcStudent
    BY <1>1, <1>2 DEF SameStages
  <1>3. CASE SignalStudent("getWait", "get")
    <2>1. CASE UNCHANGED pcStudent
      BY <1>1, <2>1 DEF SameStages
    <2>2. ASSUME NEW s \in Students, pcStudent[s] = "getWait",
                 pcStudent' = [pcStudent EXCEPT ![s] = "get"]
          PROVE  SameStages
      BY <1>1, <2>2 DEF SameStages, Places, Stage
    <2>3. QED
      BY <1>3, <2>1, <2>2 DEF SignalStudent
  <1>4. CASE BroadcastStudents("enterWait", "enter")
    BY <1>1, <1>4 DEF BroadcastStudents, SameStages, Places, Stage
  <1>5. CASE BroadcastStudents("labWait", "labWoken")
    BY <1>1, <1>5 DEF BroadcastStudents, SameStages, Places, Stage
  <1>6. QED
    BY <1>2, <1>3, <1>4, <1>5

\* What the students' stages determine stays what it is.
LEMMA StagesKept ==
  ASSUME TypeOK, SameStages
  PROVE  /\ Left' = Left
         /\ \A s \in Students : InLab(s)' <=> InLab(s)
         /\ \A s \in Students : pcStudent'[s] \in {"new", "get", "getWait"} <=>
                                pcStudent[s] \in {"new", "get", "getWait"}
         /\ MessageIsTrue /\ pcMain' = pcMain => MessageIsTrue'
  <1>1. \A s \in Students : pcStudent[s] \in Places /\ pcStudent'[s] \in Places
    BY DEF TypeOK, SameStages, Places
  <1>2. \A s \in Students : Stage(pcStudent'[s]) = Stage(pcStudent[s])
    BY DEF SameStages
  <1>3. \A s \in Students : /\ pcStudent'[s] = "left" <=> pcStudent[s] = "left"
                            /\ InLab(s)' <=> InLab(s)
                            /\ pcStudent'[s] \in {"new", "get", "getWait"} <=>
                               pcStudent[s] \in {"new", "get", "getWait"}
    BY <1>1, <1>2 DEF Places, Stage, InLab
  <1>4. QED
    BY <1>3 DEF Left, MessageIsTrue

\* Nobody takes an id or leaves.
NobodyMoves ==
  /\ Left' = Left
  /\ \A s \in Students : pcStudent'[s] \in {"new", "get", "getWait"} <=>
                         pcStudent[s] \in {"new", "get", "getWait"}

\* The counts that such a step keeps
LEMMA CountsKept ==
  ASSUME Invariant, NobodyMoves,
         UNCHANGED << idVars, called_gid, room_available, n_current_finish, local_id,
                      l_id, my_group_id >>
  PROVE  IdsCounted' /\ GroupsFillUp' /\ RoomIsKept'
  <1>1. GroupsFillUp' /\ Assigned' = Assigned /\ \A g : Upto(g)' = Upto(g)
    BY GroupsKept DEF Invariant
  <1>2. IdsCounted'
    BY <1>1 DEF Invariant, NobodyMoves, IdsCounted, CalculateGroupId, idVars
  <1>3. RoomIsKept'
    <2>1. /\ Upto(called_gid)' = Upto(called_gid)
          /\ Upto(called_gid - 1)' = Upto(called_gid - 1)
      BY <1>1 DEF Upto
    <2>2. QED
      BY <2>1 DEF Invariant, NobodyMoves, RoomIsKept, idVars
  <1>4. QED
    BY <1>1, <1>2, <1>3

\* A step of main that clears no flag
LEMMA MainSteps ==
  ASSUME ~disturbed', Invariant, Main
  PROVE  Invariant'
  <1>1. TypeOK /\ n \in Nat
    BY Sizes DEF Invariant
  <1>2. CASE CreateTeacher
    <2>1. SameStages /\ NobodyMoves
      BY <1>1, <1>2, SignalsWake, StagesKept DEF CreateTeacher, studentVars, NobodyMoves
    <2>2. IdsCounted' /\ GroupsFillUp' /\ RoomIsKept'
      BY <1>2, <2>1, CountsKept DEF CreateTeacher, idVars, roomVars, studentVars
    <2>3. TypeOK' /\ MessageIsTrue' /\ OneGroupInLab'
      BY <1>2, <1>1 DEF CreateTeacher, idVars, roomVars, studentVars, TypeOK, Invariant,
                        MessageIsTrue, OneGroupInLab, InLab, n
    <2>4. pcTeacher = "new"
      BY <1>2 DEF CreateTeacher, Invariant, TeacherIsCreated
    <2>5. TeacherIsCreated' /\ IdsHandedOver' /\ CallsAreGuarded'
      BY <1>2, <2>4 DEF CreateTeacher, idVars, roomVars, studentVars, Invariant, TeacherIsCreated,
                        IdsHandedOver, CallsAreGuarded, Giving, Calling
    <2>6. QED
      BY <2>2, <2>3, <2>5 DEF Invariant
  <1>3. ASSUME NEW s \in Students, CreateStudent(s)
        PROVE  Invariant'
    <2>1. pcStudent' = [pcStudent EXCEPT ![s] = "get"] /\ pcStudent[s] = "new"
      BY <1>3 DEF CreateStudent
    <2>2. SameStages
      BY <1>1, <2>1 DEF TypeOK, SameStages, Places, Stage
    <2>3. NobodyMoves
      BY <1>1, <2>2, StagesKept DEF NobodyMoves
    <2>4. IdsCounted' /\ GroupsFillUp' /\ RoomIsKept'
      BY <1>3, <2>3, CountsKept DEF CreateStudent, idVars, roomVars, teacherVars
    <2>5. OneGroupInLab'
      BY <1>3, <1>1, <2>2, StagesKept
         DEF CreateStudent, roomVars, Invariant, OneGroupInLab
    <2>6. pcMain' \in {"createStudents", "storeId"} /\ pcMain = "createStudents"
      BY <1>3 DEF CreateStudent
    <2>7. TypeOK'
      BY <1>3, <1>1, <2>1, <2>6 DEF CreateStudent, idVars, roomVars, teacherVars, TypeOK, n
    <2>8. TeacherIsCreated' /\ IdsHandedOver' /\ CallsAreGuarded' /\ MessageIsTrue'
      BY <1>3, <2>6 DEF CreateStudent, idVars, roomVars, teacherVars, Invariant, TeacherIsCreated,
                        IdsHandedOver, CallsAreGuarded, Giving, Calling, MessageIsTrue
    <2>9. QED
      BY <2>4, <2>5, <2>7, <2>8 DEF Invariant
  <1>4. CASE StoreId \/ StoreRoom \/ StoreFinish \/ Join
    <2>1. UNCHANGED << idVars, roomVars, teacherVars, studentVars >>
      <3>1. {s_id_available, room_available, lab_exercise_finish} \subseteq BOOLEAN
        BY <1>1 DEF TypeOK
      <3>2. CASE Join
        BY <3>2 DEF Join
      <3>3. CASE StoreId
        BY <3>1, <3>3 DEF StoreId, idVars
      <3>4. CASE StoreRoom
        BY <3>1, <3>4 DEF StoreRoom, roomVars
      <3>5. CASE StoreFinish
        BY <3>1, <3>5 DEF StoreFinish, roomVars
      <3>6. QED
        BY <1>4, <3>2, <3>3, <3>4, <3>5
    <2>2. SameStages /\ NobodyMoves
      BY <1>1, <2>1, SignalsWake, StagesKept DEF studentVars, NobodyMoves
    <2>3. IdsCounted' /\ GroupsFillUp' /\ RoomIsKept'
      BY <2>1, <2>2, CountsKept DEF idVars, roomVars, teacherVars, studentVars
    <2>4. TypeOK' /\ OneGroupInLab' /\ IdsHandedOver' /\ CallsAreGuarded'
      BY <1>4, <1>1, <2>1 DEF StoreId, StoreRoom, StoreFinish, Join, TypeOK, OneGroupInLab, InLab,
         IdsHandedOver, CallsAreGuarded, Giving, Calling, Invariant, n,
         idVars, roomVars, teacherVars, studentVars
    <2>5. TeacherIsCreated' /\ MessageIsTrue'
      BY <1>4, <2>1 DEF StoreId, StoreRoom, StoreFinish, Join, AllEnded, TeacherIsCreated, MessageIsTrue,
         Invariant, idVars, roomVars, teacherVars, studentVars
    <2>6. QED
      BY <2>3, <2>4, <2>5 DEF Invariant
  <1>5. QED
    BY <1>2, <1>3, <1>4 DEF Main

\* The steps of the teacher that give no id and call no group
LEMMA TeacherWaits ==
  ASSUME ~disturbed', Invariant,
         \/ GiveIdWait \/ AllIdsGiven \/ CallWait \/ EndExercise \/ TeacherDone
         \/ WakeTeacher
  PROVE  Invariant'
  <1>1. TypeOK /\ n \in Nat
    BY Sizes DEF Invariant
  <1>2. pcMain' = pcMain /\ pcTeacher # "new"
    BY LabAssumption DEF WakeTeacher, GiveIdWait, AllIdsGiven, CallWait, EndExercise, TeacherDone
  <1>3. /\ UNCHANGED << idVars, called_gid, room_available, n_current_finish, local_id,
                        l_id, t_exe, my_group_id >>
        /\ SameStages
    BY <1>1, SignalsWake DEF GiveIdWait, AllIdsGiven, CallWait, EndExercise, TeacherDone,
       WakeTeacher, idVars, roomVars, studentVars
  <1>4. NobodyMoves /\ MessageIsTrue' /\ \A s \in Students : InLab(s)' <=> InLab(s)
    BY <1>1, <1>2, <1>3, StagesKept DEF NobodyMoves, Invariant
  <1>5. IdsCounted' /\ GroupsFillUp' /\ RoomIsKept'
    BY <1>3, <1>4, CountsKept
  <1>6. OneGroupInLab'
    BY <1>3, <1>4 DEF Invariant, OneGroupInLab
  <1>7. TeacherIsCreated'
    BY <1>2 DEF TeacherIsCreated, Invariant
  <1>8. /\ lab_exercise_finish' \in BOOLEAN
        /\ pcTeacher' \in {"giveWait", "lastWait", "call", "callWait", "done"}
    BY <1>1, LabAssumption DEF TypeOK, GiveIdWait, AllIdsGiven, CallWait, EndExercise,
       TeacherDone, WakeTeacher, roomVars
  <1>9. TypeOK'
    BY <1>1, <1>2, <1>3, <1>8 DEF TypeOK, SameStages, Places, idVars, n
  <1>10. IdsHandedOver'
    BY <1>1, <1>3, LabAssumption DEF TypeOK, GiveIdWait, AllIdsGiven, CallWait, EndExercise,
       TeacherDone, WakeTeacher, idVars, roomVars, Invariant, IdsHandedOver, Giving, Calling, n
  <1>11. CallsAreGuarded'
    BY <1>1, <1>3, LabAssumption DEF TypeOK, GiveIdWait, AllIdsGiven, CallWait, EndExercise,
       TeacherDone, WakeTeacher, RoomIsEmpty, idVars, roomVars, Invariant, CallsAreGuarded,
       IdsHandedOver, Giving
  <1>12. QED
    BY <1>4, <1>5, <1>6, <1>7, <1>9, <1>10, <1>11 DEF Invariant

\* The steps of a student that takes no id and does not leave
LEMMA StudentWaits ==
  ASSUME Invariant, NEW s \in Students,
         GetIdWait(s) \/ EnterWait(s) \/ EnterLab(s) \/ LabWaitAgain(s) \/ WakeStudent(s)
  PROVE  Invariant'
  <1>1. TypeOK /\ pcStudent \in [Students -> Places]
    BY DEF Invariant, TypeOK, Places
  <1>2. UNCHANGED << idVars, roomVars, teacherVars, my_group_id, pcMain >>
    BY DEF GetIdWait, EnterWait, EnterLab, LabWaitAgain, WakeStudent
  <1>3. PICK p \in Places : /\ pcStudent' = [pcStudent EXCEPT ![s] = p]
                            /\ \/ Stage(p) = Stage(pcStudent[s])
                               \/ EnterLab(s) /\ p = "labWait"
    <2>1. CASE GetIdWait(s)
      BY <2>1 DEF GetIdWait, Places, Stage
    <2>2. CASE EnterWait(s)
      BY <2>2 DEF EnterWait, Places, Stage
    <2>3. CASE EnterLab(s)
      BY <2>3 DEF EnterLab, Places
    <2>4. CASE LabWaitAgain(s)
      BY <2>4 DEF LabWaitAgain, Places, Stage
    <2>5. CASE WakeStudent(s)
      <3>1. pcStudent[s] \in {"getWait", "enterWait", "labWait"}
        BY <1>1, <2>5, LabAssumption DEF WakeStudent, Places
      <3>2. QED
        BY <1>1, <2>5, <3>1 DEF WakeStudent, Places, Stage
    <2>6. QED
      BY <2>1, <2>2, <2>3, <2>4, <2>5
  <1>4. \A u \in Students : pcStudent'[u] = (IF u = s THEN p ELSE pcStudent[u])
    BY <1>1, <1>3
  <1>5. /\ p = "left" <=> pcStudent[s] = "left"
        /\ p \in {"new", "get", "getWait"} <=> pcStudent[s] \in {"new", "get", "getWait"}
        /\ p \in {"labWait", "labWoken"} /\ pcStudent[s] \notin {"labWait", "labWoken"} =>
             MayEnter(s)
    BY <1>1, <1>3 DEF Stage, Places, EnterLab
  <1>6. NobodyMoves
    BY <1>4, <1>5 DEF NobodyMoves, Left
  <1>7. IdsCounted' /\ GroupsFillUp' /\ RoomIsKept'
    BY <1>2, <1>6, CountsKept DEF roomVars, teacherVars
  <1>8. OneGroupInLab'
    BY <1>2, <1>4, <1>5 DEF Invariant, OneGroupInLab, InLab, MayEnter, roomVars
  <1>9. MessageIsTrue'
    BY <1>2, <1>4, <1>5 DEF Invariant, MessageIsTrue
  <1>10. TypeOK'
    BY <1>1, <1>2, <1>3 DEF TypeOK, Places, idVars, roomVars, teacherVars, n
  <1>11. TeacherIsCreated' /\ IdsHandedOver' /\ CallsAreGuarded'
    BY <1>2 DEF Invariant, TeacherIsCreated, IdsHandedOver, CallsAreGuarded, Giving, Calling,
                idVars, roomVars, teacherVars, n
  <1>12. QED
    BY <1>7, <1>8, <1>9, <1>10, <1>11 DEF Invariant

\* The teacher hands out an id only when the one before has been taken.
LEMMA TeacherGives ==
  ASSUME Invariant, GiveId \/ GiveIdWoken
  PROVE  Invariant'
  <1>1. TypeOK /\ n \in Nat
    BY Sizes DEF Invariant
  <1>2. AssignId /\ ~s_id_available /\ local_id <= n /\ Giving
    BY DEF GiveId, GiveIdWoken, Invariant, IdsHandedOver, Giving
  <1>3. /\ local_id \in Nat \ {0} /\ n_current_assigned_id \in Nat
        /\ local_id = n_current_assigned_id + 1
    BY <1>1 DEF TypeOK, Invariant, IdsCounted
  <1>4. SameStages
    BY <1>1, <1>2, SignalsWake DEF AssignId
  <1>5. /\ NobodyMoves /\ MessageIsTrue'
        /\ \A s \in Students : InLab(s)' <=> InLab(s)
    BY <1>1, <1>2, <1>4, StagesKept DEF NobodyMoves, AssignId, Invariant
  <1>6. GroupsFillUp' /\ Assigned' = Assigned /\ \A g : Upto(g)' = Upto(g)
    BY <1>2, GroupsKept DEF Invariant, AssignId
  <1>7. n_groups' = CalculateGroupId(local_id) /\ n_groups <= n_groups' /\ n_groups' \in 0..n
    <2>1. CalculateGroupId(local_id) \in 1..local_id
      BY <1>3, GroupIdFacts
    <2>2. n_groups <= CalculateGroupId(local_id)
      <3>1. CASE n_current_assigned_id = 0
        BY <2>1, <3>1 DEF Invariant, IdsCounted
      <3>2. CASE n_current_assigned_id # 0
        <4>1. n_current_assigned_id \in Nat \ {0}
          BY <1>3, <3>2
        <4>2. CalculateGroupId(n_current_assigned_id) <= CalculateGroupId(local_id)
          BY <1>3, <4>1, GroupIdFacts
        <4>3. QED
          BY <3>2, <4>2 DEF Invariant, IdsCounted
      <3>3. QED
        BY <3>1, <3>2
    <2>3. n_groups \in Int
      BY <1>1 DEF TypeOK
    <2>4. n_groups' = CalculateGroupId(local_id)
      <3> DEFINE g == CalculateGroupId(local_id)
      <3>1. n_groups' = Max({n_groups, g})
        BY <1>2 DEF AssignId
      <3>2. g \in Int /\ n_groups <= g
        BY <1>3, <2>1, <2>2
      <3> HIDE DEF g
      <3>3. Max({n_groups, g}) = g
        BY <2>3, <3>2, MinMaxOfTwo
      <3>4. QED
        BY <3>1, <3>3 DEF g
    <2>5. QED
      BY <1>1, <1>2, <1>3, <2>1, <2>2, <2>4
  <1>8. IdsCounted'
    <2>1. Cardinality(Assigned) = n_current_assigned_id
      BY <1>2, <1>3 DEF Invariant, IdsCounted
    <2>2. my_group_id' = my_group_id /\ n_current_assigned_id' = local_id
          /\ s_id_available' = TRUE /\ local_id' = local_id + 1
      BY <1>2 DEF AssignId
    <2>3. n_groups' = CalculateGroupId(n_current_assigned_id)'
      BY <1>7, <2>2 DEF CalculateGroupId
    <2>4. \A s \in Students :
            pcStudent'[s] \in {"new", "get", "getWait"} <=> my_group_id'[s] = 0
      BY <1>5, <2>2 DEF NobodyMoves, Invariant, IdsCounted
    <2>5. QED
      BY <1>3, <1>6, <2>1, <2>2, <2>3, <2>4 DEF IdsCounted
  <1>9. /\ UNCHANGED << called_gid, room_available, lab_exercise_finish, n_current_finish,
                        l_id, t_exe, my_group_id, pcMain >>
        /\ pcTeacher' = "give" /\ called_gid = 0
    BY <1>2 DEF AssignId, roomVars, Invariant, IdsHandedOver
  <1>10. RoomIsKept'
    <2>1. 0 <= n_groups'
      BY <1>7, <1>1
    <2>2. /\ Upto(called_gid)' = Upto(called_gid)
          /\ Upto(called_gid - 1)' = Upto(called_gid - 1)
      BY <1>9 DEF Upto
    <2>3. QED
      BY <1>5, <1>9, <2>1, <2>2 DEF RoomIsKept, NobodyMoves, Invariant
  <1>11. OneGroupInLab'
    BY <1>5, <1>9 DEF Invariant, OneGroupInLab
  <1>12. TeacherIsCreated' /\ IdsHandedOver' /\ CallsAreGuarded'
    BY <1>2, <1>9 DEF Invariant, TeacherIsCreated, IdsHandedOver, CallsAreGuarded, Giving, Calling,
       GiveId, GiveIdWoken
  <1>13. TypeOK'
    <2>1. local_id' = local_id + 1 /\ n_current_assigned_id' = local_id /\ s_id_available' = TRUE
      BY <1>2 DEF AssignId
    <2>2. QED
      BY <1>1, <1>2, <1>3, <1>4, <1>7, <1>9, <2>1 DEF TypeOK, SameStages, Places, n
  <1>14. QED
    BY <1>5, <1>6, <1>8, <1>10, <1>11, <1>12, <1>13 DEF Invariant

\* A student who takes an id joins the group that is not full yet.
LEMMA GroupJoined ==
  ASSUME NEW s \in Students, TypeOK, GroupsFillUp, my_group_id[s] = 0,
         my_group_id' = [my_group_id EXCEPT ![s] = Cardinality(Assigned) \div K + 1]
  PROVE  /\ Cardinality(Assigned') = Cardinality(Assigned) + 1
         /\ Assigned' = Assigned \cup {s}
         /\ GroupsFillUp'
  <1> DEFINE a == Cardinality(Assigned)
             q == a \div K
  <1>1. a \in Nat /\ IsFiniteSet(Assigned)
    BY Sizes DEF Assigned
  <1>2. q \in Nat /\ q * K <= a /\ a < (q + 1) * K
    BY <1>1, DivFacts
  <1>3. \A u \in Students : my_group_id'[u] = (IF u = s THEN q + 1 ELSE my_group_id[u])
    BY DEF TypeOK
  <1> HIDE DEF q
  <1>4. Assigned' = Assigned \cup {s} /\ s \notin Assigned
    BY <1>2, <1>3 DEF Assigned
  <1>5. Cardinality(Assigned') = a + 1
    BY <1>1, <1>4, FS_AddElement
  <1>6. ASSUME NEW g \in Nat
        PROVE  Cardinality(Upto(g)') = Smaller(g * K, a + 1)
    <2>1. Cardinality(Upto(g)) = Smaller(g * K, a)
      BY DEF GroupsFillUp
    <2>2. s \notin Upto(g) /\ IsFiniteSet(Upto(g))
      BY Sizes DEF Upto
    <2>3. g * K \in Nat
      BY Products
    <2>4. CASE q + 1 <= g
      <3>1. Upto(g)' = Upto(g) \cup {s}
        BY <1>2, <1>3, <2>4 DEF Upto
      <3>2. Cardinality(Upto(g)') = Cardinality(Upto(g)) + 1
        BY <3>1, <2>2, FS_AddElement
      <3>3. (q + 1) * K <= g * K /\ (q + 1) * K \in Nat
        BY <1>2, <2>4, Products
      <3>4. QED
        BY <1>1, <1>2, <2>1, <2>3, <3>2, <3>3 DEF Smaller
    <2>5. CASE g <= q
      <3>1. Upto(g)' = Upto(g)
        BY <1>2, <1>3, <2>2, <2>5 DEF Upto
      <3>2. g * K <= q * K /\ q * K \in Nat
        BY <1>2, <2>5, Products
      <3>3. QED
        BY <1>1, <1>2, <2>1, <2>3, <3>1, <3>2 DEF Smaller
    <2>6. QED
      BY <1>2, <2>4, <2>5
  <1>7. GroupsFillUp'
    BY <1>5, <1>6 DEF GroupsFillUp
  <1>8. QED
    BY <1>4, <1>5, <1>7

LEMMA StudentTakesId ==
  ASSUME Invariant, NEW s \in Students, GetId(s)
  PROVE  Invariant' /\ my_group_id' = [my_group_id EXCEPT ![s] = Cardinality(Assigned) \div K + 1]
  <1>1. /\ TypeOK /\ n \in Nat
        /\ pcStudent \in [Students -> Places] /\ my_group_id \in [Students -> 0..n]
    BY Sizes DEF Invariant, TypeOK, Places
  <1>2. pcStudent[s] = "get" /\ s_id_available /\ pcStudent' = [pcStudent EXCEPT ![s] = "enter"]
    BY DEF GetId
  <1>3. UNCHANGED << n_current_assigned_id, n_groups, called_gid, room_available,
                     lab_exercise_finish, n_current_finish, local_id, l_id, t_exe, pcMain >>
        /\ s_id_available' = FALSE
    BY DEF GetId, roomVars
  <1>4. /\ Cardinality(Assigned) = n_current_assigned_id - 1 /\ n_current_assigned_id \in Nat \ {0}
        /\ my_group_id[s] = 0
    <2>1. Cardinality(Assigned) \in Nat
      BY Sizes DEF Assigned
    <2>2. Cardinality(Assigned) = n_current_assigned_id - 1 /\ n_current_assigned_id \in Int
      BY <1>1, <1>2 DEF Invariant, IdsCounted, TypeOK
    <2>3. my_group_id[s] = 0
      BY <1>2 DEF Invariant, IdsCounted
    <2>4. QED
      BY <2>1, <2>2, <2>3
  <1>5. my_group_id' = [my_group_id EXCEPT ![s] = Cardinality(Assigned) \div K + 1]
    BY <1>4 DEF GetId, CalculateGroupId
  <1>6. /\ Cardinality(Assigned') = Cardinality(Assigned) + 1
        /\ GroupsFillUp'
    BY <1>1, <1>4, <1>5, GroupJoined DEF Invariant
  <1>7. CalculateGroupId(n_current_assigned_id) \in 1..n
    <2>1. CalculateGroupId(n_current_assigned_id) \in 1..n_current_assigned_id
      BY <1>4, GroupIdFacts
    <2>2. n_current_assigned_id <= n
      BY <1>1 DEF TypeOK
    <2>3. QED
      BY <1>1, <1>4, <2>1, <2>2
  <1>8. \A u \in Students : /\ pcStudent'[u] = (IF u = s THEN "enter" ELSE pcStudent[u])
                            /\ u # s => my_group_id'[u] = my_group_id[u]
                            /\ u = s => my_group_id'[u] \in 1..n
    BY <1>1, <1>2, <1>7 DEF GetId
  <1>9. IdsCounted'
    <2>1. \A u \in Students : pcStudent'[u] \in {"new", "get", "getWait"} <=> my_group_id'[u] = 0
      BY <1>1, <1>8 DEF Invariant, IdsCounted
    <2>2. Cardinality(Assigned') = n_current_assigned_id
      BY <1>4, <1>6
    <2>3. CalculateGroupId(n_current_assigned_id)' = CalculateGroupId(n_current_assigned_id)
      BY <1>3 DEF CalculateGroupId
    <2>4. local_id' = n_current_assigned_id' + 1
          /\ n_groups' = IF n_current_assigned_id' = 0 THEN 0
                         ELSE CalculateGroupId(n_current_assigned_id)'
      BY <1>3, <2>3 DEF Invariant, IdsCounted
    <2>5. QED
      BY <1>3, <1>4, <2>1, <2>2, <2>4 DEF IdsCounted
  <1>10. Giving /\ called_gid = 0 /\ ~room_available
    BY <1>1, <1>2 DEF Invariant, IdsHandedOver, Giving, Calling, TypeOK
  <1>11. pcTeacher' = IF pcTeacher = "giveWait" THEN "giveWoken"
                      ELSE IF pcTeacher = "lastWait" THEN "call" ELSE pcTeacher
    BY DEF GetId
  <1>12. RoomIsKept'
    <2>1. Left' = Left
      BY <1>2, <1>8 DEF Left
    <2>2. Upto(called_gid) = {} /\ Upto(called_gid)' = {}
      BY <1>3, <1>10 DEF Upto
    <2>3. QED
      BY <1>3, <1>10, <2>1, <2>2 DEF Invariant, RoomIsKept
  <1>13. OneGroupInLab' /\ MessageIsTrue'
    BY <1>2, <1>3, <1>8 DEF Invariant, OneGroupInLab, MessageIsTrue, InLab
  <1>14. TypeOK'
    <2>1. my_group_id' \in [Students -> 0..n] /\ pcStudent' \in [Students -> Places]
      BY <1>1, <1>2, <1>7 DEF GetId, Places
    <2>2. pcTeacher' \in {"new", "give", "giveWait", "giveWoken", "lastWait", "call",
                          "callWait", "exercise", "done"}
      BY <1>1, <1>11 DEF TypeOK
    <2>3. QED
      BY <1>1, <1>3, <2>1, <2>2 DEF TypeOK, Places, n
  <1>15. TeacherIsCreated'
    BY <1>3, <1>11 DEF Invariant, TeacherIsCreated
  <1>16. IdsHandedOver'
    BY <1>2, <1>3, <1>10, <1>11 DEF Invariant, IdsHandedOver, Giving, Calling, n
  <1>17. CallsAreGuarded'
    BY <1>3, <1>10, <1>11 DEF Invariant, CallsAreGuarded, Giving
  <1>18. QED
    BY <1>5, <1>6, <1>9, <1>12, <1>13, <1>14, <1>15, <1>16, <1>17 DEF Invariant

\* The two assertions before the teacher's sleep
LEMMA TimesInRange == ExerciseTimes \subseteq (T \div 2)..T
  <1> DEFINE h == T \div 2
  <1>1. h \in Nat /\ (T % 2 = 0 => T = 2 * h) /\ (T % 2 # 0 => T = 2 * h + 1)
    BY LabAssumption
  <1>2. SUFFICES ASSUME NEW r \in 0..h
                 PROVE  r + (h + 1) - (IF T % 2 = 0 THEN 1 ELSE 0) \in h..T
    BY <1>1 DEF ExerciseTimes
  <1> HIDE DEF h
  <1>3. QED
    BY <1>1

\* Once the ids are given every student has one, and the groups are those that n
\* students fill.
LEMMA GroupsComplete ==
  ASSUME Invariant, Calling
  PROVE  /\ n_current_assigned_id = n /\ Cardinality(Assigned) = n /\ Assigned = Students
         /\ \A g \in Nat : Cardinality(Upto(g)) = Smaller(g * K, n)
         /\ n_groups \in Nat
         /\ n_groups > 0 => (n_groups - 1) * K < n
         /\ n <= n_groups * K
  <1>1. n \in Nat /\ TypeOK
    BY Sizes DEF Invariant
  <1>2. n_current_assigned_id = n /\ ~s_id_available
    BY <1>1 DEF Invariant, IdsHandedOver, IdsCounted, TypeOK
  <1>3. Cardinality(Assigned) = n
    BY <1>1, <1>2 DEF Invariant, IdsCounted
  <1>4. Assigned = Students
    BY <1>3, Sizes DEF Assigned
  <1>5. n_groups = IF n = 0 THEN 0 ELSE CalculateGroupId(n)
    BY <1>2 DEF Invariant, IdsCounted
  <1>6. CASE n = 0
    BY <1>1, <1>2, <1>3, <1>4, <1>5, <1>6, LabAssumption DEF Invariant, GroupsFillUp
  <1>7. CASE n # 0
    <2>1. n \in Nat \ {0}
      BY <1>1, <1>7
    <2>2. /\ CalculateGroupId(n) \in 1..n /\ (CalculateGroupId(n) - 1) * K < n
          /\ n <= CalculateGroupId(n) * K
      BY <2>1, GroupIdFacts
    <2>3. n_groups = CalculateGroupId(n)
      BY <1>5, <1>7
    <2>4. QED
      BY <1>2, <1>3, <1>4, <2>2, <2>3 DEF Invariant, GroupsFillUp
  <1>8. QED
    BY <1>6, <1>7

\* A group that is called has members, and all groups before it are full.
LEMMA CalledGroups ==
  ASSUME Invariant, Calling, NEW g \in Nat, g < n_groups
  PROVE  /\ Cardinality(Upto(g)) = g * K /\ g * K < n
         /\ Cardinality(Upto(g + 1)) = Smaller(g * K + K, n)
         /\ g * K < Cardinality(Upto(g + 1))
  <1>1. n \in Nat /\ g * K \in Nat /\ (g + 1) * K = g * K + K
    BY Sizes, Products
  <1>2. n_groups - 1 \in Nat /\ (n_groups - 1) * K < n
    BY GroupsComplete
  <1>3. g * K <= (n_groups - 1) * K /\ (n_groups - 1) * K \in Nat
    <2>1. g <= n_groups - 1
      BY GroupsComplete
    <2>2. QED
      BY <1>2, <2>1, Products
  <1>4. g * K < n
    BY <1>1, <1>2, <1>3
  <1>5. Cardinality(Upto(g)) = Smaller(g * K, n)
    BY GroupsComplete
  <1>6. Cardinality(Upto(g + 1)) = Smaller(g * K + K, n)
    BY <1>1, GroupsComplete
  <1>7. QED
    BY <1>1, <1>4, <1>5, <1>6, LabAssumption DEF Smaller

\* The teacher calls the next group into an empty room.
LEMMA TeacherCalls ==
  ASSUME Invariant, CallGroup
  PROVE  Invariant'
  <1>1. /\ TypeOK /\ n \in Nat /\ Calling
        /\ l_id = called_gid /\ called_gid \in Nat /\ called_gid < n_groups
        /\ ~room_available /\ ~lab_exercise_finish
    BY Sizes DEF Invariant, TypeOK, CallGroup, Calling, RoomIsEmpty, RoomIsKept, CallsAreGuarded
  <1>2. /\ UNCHANGED << idVars, lab_exercise_finish, n_current_finish, local_id,
                        my_group_id, pcMain >>
        /\ pcTeacher' = "exercise" /\ room_available' = TRUE
        /\ called_gid' = called_gid + 1 /\ l_id' = called_gid + 1
    BY <1>1 DEF CallGroup
  <1>3. SameStages
    BY <1>1, SignalsWake DEF CallGroup, WakeGroup
  <1>4. /\ NobodyMoves /\ MessageIsTrue' /\ \A s \in Students : InLab(s)' <=> InLab(s)
    BY <1>1, <1>2, <1>3, StagesKept DEF NobodyMoves, Invariant
  <1>5. GroupsFillUp' /\ Assigned' = Assigned /\ \A g : Upto(g)' = Upto(g)
    BY <1>2, GroupsKept DEF Invariant
  <1>6. IdsCounted'
    BY <1>2, <1>4, <1>5 DEF Invariant, NobodyMoves, IdsCounted, CalculateGroupId, idVars
  <1>7. RoomIsKept'
    <2>1. Left = Upto(called_gid) /\ n_current_finish = Cardinality(Left)
      BY <1>1 DEF Invariant, RoomIsKept
    <2>2. n_current_finish < Cardinality(Upto(called_gid + 1))
      BY <1>1, <2>1, CalledGroups
    <2>3. Upto(called_gid) \subseteq Upto(called_gid + 1)
      BY <1>1 DEF Upto
    <2>4. /\ Upto(called_gid)' = Upto(called_gid + 1)
          /\ Upto(called_gid - 1)' = Upto(called_gid)
      BY <1>1, <1>2 DEF Upto
    <2>5. n_groups' = n_groups /\ n_groups \in Int
      BY <1>1, <1>2 DEF TypeOK, idVars
    <2>6. QED
      BY <1>1, <1>2, <1>4, <2>1, <2>2, <2>3, <2>4, <2>5 DEF RoomIsKept, NobodyMoves
  <1>8. OneGroupInLab'
    BY <1>1, <1>4 DEF Invariant, OneGroupInLab
  <1>9. TypeOK'
    <2>1. t_exe' \in 0..T /\ t_exe' >= T \div 2
      BY TimesInRange, LabAssumption DEF CallGroup
    <2>2. called_gid + 1 \in 0..n
      BY <1>1 DEF TypeOK
    <2>3. QED
      BY <1>1, <1>2, <1>3, <2>1, <2>2 DEF TypeOK, SameStages, Places, idVars, n
  <1>10. TeacherIsCreated' /\ IdsHandedOver' /\ CallsAreGuarded'
    BY <1>1, <1>2 DEF Invariant, TeacherIsCreated, IdsHandedOver, CallsAreGuarded, Giving, Calling,
                      idVars, n
  <1>11. QED
    BY <1>4, <1>5, <1>6, <1>7, <1>8, <1>9, <1>10 DEF Invariant

\* The student who gives the room back is the last one of its group.
LEMMA LastOfGroup ==
  ASSUME Invariant, room_available
  PROVE  LastToLeave <=> n_current_finish + 1 = Cardinality(Upto(called_gid))
  <1> DEFINE c == called_gid - 1
             m == n_current_finish + 1
             u == Cardinality(Upto(called_gid))
  <1>1. /\ TypeOK /\ n \in Nat /\ Calling /\ c \in Nat /\ c < n_groups
        /\ called_gid = c + 1 /\ n_current_finish \in Nat
    <2>1. TypeOK /\ n \in Nat /\ Calling
      BY Sizes DEF Invariant, TypeOK, Calling, Giving, IdsHandedOver
    <2>2. called_gid \in Nat /\ called_gid > 0 /\ called_gid <= n_groups /\ n_groups \in Nat
          /\ n_current_finish \in Nat
      BY <2>1 DEF Invariant, RoomIsKept, TypeOK
    <2>3. QED
      BY <2>1, <2>2
  <1>2. /\ Cardinality(Upto(c)) = c * K /\ u = Smaller(c * K + K, n)
        /\ (c + 1) * K = c * K + K /\ c * K \in Nat
    <2>1. /\ Cardinality(Upto(c)) = c * K
          /\ Cardinality(Upto(c + 1)) = Smaller(c * K + K, n)
      BY <1>1, CalledGroups
    <2>2. (c + 1) * K = c * K + K /\ c * K \in Nat
      BY <1>1, Products
    <2>3. QED
      BY <1>1, <2>1, <2>2
  <1>3. c * K <= n_current_finish /\ n_current_finish < u
    <2>1. /\ Upto(c) \subseteq Left /\ n_current_finish = Cardinality(Left)
          /\ n_current_finish < u
      BY DEF Invariant, RoomIsKept
    <2>2. Cardinality(Upto(c)) <= Cardinality(Left)
      BY <2>1, Sizes, FS_Subset DEF Left
    <2>3. QED
      BY <1>2, <2>1, <2>2
  <1>4. m % K = 0 \/ m = n <=> m = u
    <2> HIDE DEF c
    <2>1. m \in Nat /\ c * K < m /\ m <= u
      <3>1. u \in Nat
        BY Sizes DEF Upto
      <3> HIDE DEF u
      <3>2. QED
        BY <1>1, <1>2, <1>3, <3>1
    <2>2. m <= (c + 1) * K
      BY <1>1, <1>2, <2>1, LabAssumption DEF Smaller
    <2> HIDE DEF m
    <2>3. m % K = 0 <=> m = (c + 1) * K
      BY <1>1, <2>1, <2>2, NextMultiple
    <2>4. QED
      BY <1>1, <1>2, <2>1, <2>2, <2>3, LabAssumption DEF Smaller
  <1>5. QED
    BY <1>4 DEF LastToLeave

LEMMA StudentLeaves ==
  ASSUME Invariant, NEW s \in Students, LeaveLab(s)
  PROVE  Invariant'
  <1>1. /\ TypeOK /\ n \in Nat /\ pcStudent \in [Students -> Places]
    BY Sizes DEF Invariant, TypeOK, Places
  <1>2. /\ room_available /\ lab_exercise_finish
        /\ my_group_id[s] = called_gid /\ called_gid \in Nat \ {0}
        /\ pcStudent[s] \in {"labWoken", "enter"}
    <2>1. room_available /\ lab_exercise_finish
      BY DEF LeaveLab, Invariant, CallsAreGuarded
    <2>2. called_gid \in Nat \ {0}
      BY <1>1, <2>1 DEF Invariant, RoomIsKept, TypeOK
    <2>3. QED
      BY <2>1, <2>2 DEF LeaveLab, Invariant, OneGroupInLab, InLab, MayEnter
  <1>3. /\ UNCHANGED << idVars, called_gid, local_id, l_id, t_exe, my_group_id, pcMain >>
        /\ n_current_finish' = n_current_finish + 1
        /\ pcStudent' = [pcStudent EXCEPT ![s] = "left"]
    BY DEF LeaveLab
  <1>4. \A u \in Students : pcStudent'[u] = (IF u = s THEN "left" ELSE pcStudent[u])
    BY <1>1, <1>3
  <1>5. GroupsFillUp' /\ Assigned' = Assigned /\ \A g : Upto(g)' = Upto(g)
    BY <1>3, GroupsKept DEF Invariant
  <1>6. Left' = Left \cup {s} /\ s \notin Left /\ Left' \subseteq Upto(called_gid)
    <2>1. Left' = Left \cup {s} /\ s \notin Left
      BY <1>2, <1>4 DEF Left
    <2>2. s \in Upto(called_gid)
      BY <1>2 DEF Upto
    <2>3. QED
      BY <2>1, <2>2 DEF Invariant, RoomIsKept
  <1>7. Cardinality(Left') = n_current_finish + 1
    <2>1. IsFiniteSet(Left) /\ n_current_finish = Cardinality(Left)
      BY Sizes DEF Left, Invariant, RoomIsKept
    <2>2. Cardinality(Left \cup {s}) = Cardinality(Left) + 1
      BY <1>6, <2>1, FS_AddElement
    <2>3. QED
      BY <1>6, <2>1, <2>2
  <1>8. IdsCounted'
    <2>1. \A u \in Students : pcStudent'[u] \in {"new", "get", "getWait"} <=> my_group_id[u] = 0
      BY <1>2, <1>4 DEF Invariant, IdsCounted
    <2>2. QED
      BY <1>3, <1>5, <2>1 DEF Invariant, IdsCounted, CalculateGroupId, idVars
  <1>9. TeacherIsCreated' /\ MessageIsTrue' /\ pcTeacher # "exercise" /\ Calling
    BY <1>1, <1>2, <1>3, <1>4 DEF Invariant, TeacherIsCreated, MessageIsTrue, CallsAreGuarded, IdsHandedOver,
       TypeOK, Calling, Giving
  <1>10. CASE ~LastToLeave
    <2>1. UNCHANGED << room_available, lab_exercise_finish, pcTeacher >>
      BY <1>10 DEF LeaveLab
    <2>2. n_current_finish + 1 < Cardinality(Upto(called_gid))
      <3>1. n_current_finish + 1 # Cardinality(Upto(called_gid))
        BY <1>2, <1>10, LastOfGroup
      <3>2. n_current_finish < Cardinality(Upto(called_gid)) /\ n_current_finish \in Nat
        BY <1>1, <1>2 DEF Invariant, RoomIsKept, TypeOK
      <3>3. Cardinality(Upto(called_gid)) \in Nat
        BY Sizes DEF Upto
      <3>4. QED
        BY <3>1, <3>2, <3>3
    <2>3. RoomIsKept'
      <3>1. /\ Upto(called_gid)' = Upto(called_gid)
            /\ Upto(called_gid - 1)' = Upto(called_gid - 1)
        BY <1>3 DEF Upto
      <3>2. QED
        BY <1>2, <1>3, <1>6, <1>7, <2>1, <2>2, <3>1 DEF Invariant, RoomIsKept, idVars
    <2>4. OneGroupInLab' /\ CallsAreGuarded' /\ IdsHandedOver' /\ TeacherIsCreated'
      BY <1>3, <1>4, <1>9, <2>1 DEF Invariant, OneGroupInLab, InLab, CallsAreGuarded, IdsHandedOver,
         Giving, Calling, TeacherIsCreated, idVars, n
    <2>5. TypeOK'
      <3>1. n_current_finish + 1 \in 0..n
        BY <1>1, <2>2, Sizes DEF Upto, TypeOK
      <3>2. QED
        BY <1>1, <1>3, <2>1, <3>1 DEF TypeOK, Places, idVars, n
    <2>6. QED
      BY <1>5, <1>8, <1>9, <2>3, <2>4, <2>5 DEF Invariant
  <1>11. CASE LastToLeave
    <2>1. /\ room_available' = FALSE /\ lab_exercise_finish' = FALSE
          /\ pcTeacher' = IF pcTeacher = "callWait" THEN "call" ELSE pcTeacher
      BY <1>11 DEF LeaveLab, SignalTeacher
    <2>2. Left' = Upto(called_gid)
      <3>1. Cardinality(Left') = Cardinality(Upto(called_gid))
        BY <1>2, <1>7, <1>11, LastOfGroup
      <3>2. IsFiniteSet(Upto(called_gid))
        BY Sizes DEF Upto
      <3>3. QED
        BY <1>6, <3>1, <3>2, FS_Subset
    <2>3. RoomIsKept'
      <3>1. Upto(called_gid)' = Upto(called_gid)
        BY <1>3 DEF Upto
      <3>2. QED
        BY <1>3, <1>7, <2>1, <2>2, <3>1 DEF Invariant, RoomIsKept, idVars
    <2>4. OneGroupInLab'
      <3>1. \A u \in Students : ~InLab(u)'
        BY <1>2, <1>4, <2>2 DEF Invariant, OneGroupInLab, InLab, Upto, Left
      <3>2. QED
        BY <3>1 DEF OneGroupInLab
    <2>5. CallsAreGuarded' /\ IdsHandedOver' /\ TeacherIsCreated'
      BY <1>3, <1>9, <2>1 DEF Invariant, CallsAreGuarded, IdsHandedOver, Giving, Calling, TeacherIsCreated,
                        idVars, n
    <2>6. TypeOK'
      <3>1. n_current_finish + 1 \in 0..n
        BY <1>1, <1>7, Sizes DEF Left
      <3>2. pcTeacher' \in {"call", "callWait", "exercise", "done"}
        BY <1>9, <2>1 DEF Calling
      <3>3. QED
        BY <1>1, <1>3, <2>1, <3>1, <3>2 DEF TypeOK, Places, idVars, n
    <2>7. QED
      BY <1>5, <1>8, <1>9, <2>3, <2>4, <2>5, <2>6 DEF Invariant
  <1>12. QED
    BY <1>10, <1>11

-----------------------------------------------------------------------------
(* The invariant and what follows from it                                  *)

LEMMA InitSound == Init => Invariant
  <1> SUFFICES ASSUME Init PROVE Invariant
    OBVIOUS
  <1>1. n \in Nat
    BY Sizes
  <1>2. TypeOK
    <2>1. t_exe \in 0..T /\ (l_id > 0 => t_exe >= T \div 2)
      BY LabAssumption DEF Init
    <2>2. my_group_id \in [Students -> 0..n] /\ pcStudent \in [Students -> Places]
      BY <1>1 DEF Init, Places
    <2>3. {s_id_available, room_available, lab_exercise_finish} \subseteq BOOLEAN
      BY DEF Init
    <2>4. /\ n_current_assigned_id \in 0..n /\ local_id \in 1..n+1
          /\ {n_groups, called_gid, l_id, n_current_finish} \subseteq 0..n
      BY <1>1 DEF Init
    <2>5. QED
      BY <2>1, <2>2, <2>3, <2>4 DEF Init, TypeOK, Places
  <1>3. Assigned = {} /\ Left = {} /\ \A g \in Nat : Upto(g) = {}
    BY DEF Init, Assigned, Left, Upto
  <1>4. Cardinality({}) = 0
    BY FS_EmptySet
  <1>5. IdsCounted /\ TeacherIsCreated /\ IdsHandedOver /\ CallsAreGuarded
    BY <1>1, <1>3, <1>4 DEF Init, IdsCounted, TeacherIsCreated, IdsHandedOver, CallsAreGuarded, Giving, Calling
  <1>6. GroupsFillUp
    <2>1. SUFFICES ASSUME NEW g \in Nat
                   PROVE  Cardinality(Upto(g)) = Smaller(g * K, Cardinality(Assigned))
      BY DEF GroupsFillUp
    <2>2. g * K \in Nat
      BY Products
    <2>3. Smaller(g * K, 0) = 0
      BY <2>2 DEF Smaller
    <2>4. QED
      BY <1>3, <1>4, <2>3
  <1>7. RoomIsKept /\ OneGroupInLab /\ MessageIsTrue
    BY <1>3, <1>4 DEF Init, RoomIsKept, OneGroupInLab, InLab, MessageIsTrue
  <1>8. QED
    BY <1>2, <1>5, <1>6, <1>7 DEF Invariant

LEMMA NextSound ==
  ASSUME ~disturbed', Invariant, [Next]_vars
  PROVE  Invariant'
  <1>1. CASE Main
    BY <1>1, MainSteps
  <1>2. CASE Teacher
    BY <1>2, TeacherWaits, TeacherGives, TeacherCalls DEF Teacher
  <1>3. CASE WakeTeacher
    BY <1>3, TeacherWaits
  <1>4. ASSUME NEW s \in Students, Student(s) \/ WakeStudent(s)
        PROVE  Invariant'
    BY <1>4, StudentTakesId, StudentWaits, StudentLeaves DEF Student
  <1>5. CASE UNCHANGED vars
    <2>1. UNCHANGED << idVars, roomVars, teacherVars, studentVars, pcMain >>
      BY <1>5 DEF vars
    <2>2. TypeOK /\ SameStages /\ NobodyMoves
      BY <2>1, SignalsWake, StagesKept DEF Invariant, studentVars, NobodyMoves
    <2>3. IdsCounted' /\ GroupsFillUp' /\ RoomIsKept'
      BY <2>1, <2>2, CountsKept DEF roomVars, teacherVars, studentVars
    <2>4. TypeOK' /\ TeacherIsCreated' /\ IdsHandedOver' /\ CallsAreGuarded' /\ OneGroupInLab' /\ MessageIsTrue'
      BY <2>1 DEF Invariant, TypeOK, TeacherIsCreated, IdsHandedOver, CallsAreGuarded, OneGroupInLab, InLab,
         MessageIsTrue, Giving, Calling, n, idVars, roomVars, teacherVars, studentVars
    <2>5. QED
      BY <2>3, <2>4 DEF Invariant
  <1>6. QED
    BY <1>1, <1>2, <1>3, <1>4, <1>5 DEF Next, Ended

\* A disturbed run stays one.
LEMMA DisturbedStays ==
  ASSUME disturbed \in BOOLEAN, [Next]_vars
  PROVE  (disturbed => disturbed') /\ disturbed' \in BOOLEAN
  BY DEF Next, Main, CreateTeacher, CreateStudent, StoreId, StoreRoom, StoreFinish, Join,
     Teacher, GiveId, GiveIdWoken, AssignId, GiveIdWait, AllIdsGiven, CallWait, CallGroup,
     EndExercise, TeacherDone, Student, GetId, GetIdWait, EnterWait, EnterLab, LabWaitAgain,
     LeaveLab, WakeTeacher, WakeStudent, Ended, vars

\* The steps in which no student leaves, no id is given or taken and no group called
LEMMA AlwaysInQuietSteps ==
  ASSUME Always, disturbed' \in BOOLEAN,
         UNCHANGED << n_current_assigned_id, n_groups, called_gid, n_current_finish,
                      local_id, l_id, t_exe, my_group_id >>,
         {s_id_available', room_available', lab_exercise_finish'} \subseteq BOOLEAN,
         s_id_available' => s_id_available,
         pcStudent' \in [Students -> Places], Left' = Left,
         pcMain' \in {"createTeacher", "createStudents", "storeId", "storeRoom",
                     "storeFinish", "join", "done"},
         pcMain' = "done" => \A s \in Students : pcStudent'[s] = "left",
         pcTeacher' \in {"new", "give", "giveWait", "giveWoken", "lastWait", "call",
                        "callWait", "exercise", "done"},
         pcTeacher' \in {"giveWait", "giveWoken"} => local_id <= n
  PROVE  Always'
  <1>1. TypeOK'
    BY DEF Always, TypeOK, Places, n
  <1>2. QED
    BY <1>1 DEF Always, MessageIsTrue, n

LEMMA AlwaysKept ==
  ASSUME Always, [Next]_vars
  PROVE  Always'
  <1>1. /\ TypeOK /\ n \in Nat /\ pcStudent \in [Students -> Places] /\ disturbed' \in BOOLEAN
        /\ {s_id_available, room_available, lab_exercise_finish} \subseteq BOOLEAN
    BY Sizes, DisturbedStays DEF Always, TypeOK, Places
  <1>2. pcMain = "done" => \A s \in Students : pcStudent[s] = "left"
    BY DEF Always, MessageIsTrue
  <1>3. CASE SameStages /\ pcMain' = pcMain /\ (GiveId \/ GiveIdWoken)
    <2>1. AssignId /\ local_id <= n /\ local_id \in Nat \ {0} /\ Left' = Left
      BY <1>1, <1>3, StagesKept DEF GiveId, GiveIdWoken, Always, TypeOK
    <2>2. n_groups' \in 0..n /\ n_groups <= n_groups'
      <3> DEFINE g == CalculateGroupId(local_id)
      <3>1. g \in 1..local_id /\ n_groups \in 0..n
        BY <1>1, <2>1, GroupIdFacts DEF TypeOK
      <3>2. n_groups' = Max({n_groups, g})
        BY <2>1 DEF AssignId
      <3> HIDE DEF g
      <3>3. Max({n_groups, g}) = IF n_groups <= g THEN g ELSE n_groups
        BY <3>1, MinMaxOfTwo
      <3>4. QED
        BY <1>1, <2>1, <3>1, <3>2, <3>3
    <2>3. /\ UNCHANGED << called_gid, room_available, lab_exercise_finish, n_current_finish,
                          l_id, t_exe, my_group_id >>
          /\ n_current_assigned_id' = local_id /\ local_id' = local_id + 1
          /\ s_id_available' = TRUE /\ pcTeacher' = "give"
      BY <2>1 DEF AssignId, roomVars
    <2>4. pcStudent' \in [Students -> Places]
      BY <1>3 DEF SameStages
    <2>5. TypeOK'
      BY <1>1, <1>3, <2>1, <2>2, <2>3, <2>4 DEF TypeOK, Places, n
    <2>6. MessageIsTrue'
      BY <1>1, <1>2, <1>3, <2>1 DEF MessageIsTrue, Left
    <2>7. l_id' <= n_groups'
      <3>1. l_id \in Int /\ n_groups \in Int /\ l_id <= n_groups
        BY <1>1 DEF Always, TypeOK
      <3>2. QED
        BY <1>1, <2>2, <2>3, <3>1
    <2>8. QED
      BY <1>1, <2>1, <2>3, <2>5, <2>6, <2>7 DEF Always
  <1>4. CASE SameStages /\ pcMain' = pcMain /\ CallGroup
    <2>1. /\ UNCHANGED << idVars, lab_exercise_finish, n_current_finish, local_id, my_group_id >>
          /\ pcTeacher' = "exercise" /\ room_available' = TRUE
          /\ called_gid' = l_id + 1 /\ l_id' = l_id + 1 /\ l_id < n_groups
          /\ t_exe' \in 0..T /\ t_exe' >= T \div 2
      BY <1>4, TimesInRange, LabAssumption DEF CallGroup
    <2>2. l_id + 1 \in 0..n /\ l_id + 1 <= n_groups
      BY <1>1, <2>1 DEF TypeOK
    <2>3. pcStudent' \in [Students -> Places] /\ Left' = Left
      BY <1>1, <1>4, StagesKept DEF SameStages
    <2>4. TypeOK'
      BY <1>1, <1>4, <2>1, <2>2, <2>3 DEF TypeOK, Places, idVars, n
    <2>5. MessageIsTrue'
      BY <1>1, <1>2, <1>4, <2>3 DEF MessageIsTrue, Left
    <2>6. QED
      BY <1>1, <2>1, <2>2, <2>3, <2>4, <2>5 DEF Always, idVars
  <1>5. ASSUME NEW s \in Students, GetId(s) PROVE Always'
    <2>1. n_current_assigned_id \in Nat \ {0} /\ n_current_assigned_id <= n
      BY <1>1, <1>5 DEF GetId, Always, TypeOK
    <2>2. CalculateGroupId(n_current_assigned_id) \in 0..n
      BY <1>1, <2>1, GroupIdFacts
    <2>3. my_group_id' \in [Students -> 0..n] /\ pcStudent' \in [Students -> Places]
      BY <1>1, <1>5, <2>2 DEF GetId, TypeOK, Places
    <2>4. Left' = Left /\ (pcMain = "done" => \A u \in Students : pcStudent'[u] = "left")
      BY <1>1, <1>2, <1>5 DEF GetId, Left
    <2>5. /\ UNCHANGED << n_current_assigned_id, n_groups, called_gid, room_available,
                          lab_exercise_finish, n_current_finish, local_id, l_id, t_exe, pcMain >>
          /\ s_id_available' = FALSE
      BY <1>5 DEF GetId, roomVars
    <2>6. /\ pcTeacher' \in {"new", "give", "giveWait", "giveWoken", "lastWait", "call",
                            "callWait", "exercise", "done"}
          /\ pcTeacher' \in {"giveWait", "giveWoken"} => local_id <= n
      BY <1>1, <1>5 DEF GetId, TypeOK, Always
    <2>7. TypeOK'
      BY <1>1, <2>3, <2>5, <2>6 DEF TypeOK, Places, n
    <2>8. QED
      BY <1>1, <2>4, <2>5, <2>6, <2>7 DEF Always, MessageIsTrue, n
  <1>6. ASSUME NEW s \in Students, LeaveLab(s) PROVE Always'
    <2>1. /\ UNCHANGED << idVars, called_gid, local_id, l_id, t_exe, my_group_id, pcMain >>
          /\ n_current_finish' = n_current_finish + 1
          /\ pcStudent' = [pcStudent EXCEPT ![s] = "left"] /\ pcStudent[s] # "left"
      BY <1>6 DEF LeaveLab
    <2>2. Left' = Left \cup {s} /\ s \notin Left /\ Left' \subseteq Students
      BY <1>1, <2>1 DEF Left
    <2>3. Cardinality(Left') = n_current_finish + 1
      <3>1. IsFiniteSet(Left) /\ n_current_finish = Cardinality(Left)
        BY Sizes DEF Left, Always
      <3>2. QED
        BY <2>2, <3>1, FS_AddElement
    <2>4. n_current_finish + 1 \in 0..n
      BY <2>2, <2>3, Sizes, <1>1 DEF TypeOK
    <2>5. /\ pcTeacher' \in {pcTeacher, "call"}
          /\ {room_available', lab_exercise_finish'} \subseteq BOOLEAN
      BY <1>1, <1>6 DEF LeaveLab, SignalTeacher
    <2>6. TypeOK'
      BY <1>1, <2>1, <2>4, <2>5 DEF TypeOK, Places, idVars, n
    <2>7. MessageIsTrue'
      BY <1>1, <1>2, <2>1 DEF MessageIsTrue
    <2>8. QED
      BY <1>1, <2>1, <2>3, <2>5, <2>6, <2>7 DEF Always, idVars, n
  <1>7. CASE Main \/ UNCHANGED vars
    <2>1. CASE CreateTeacher
      <3>1. Left' = Left /\ pcStudent' \in [Students -> Places]
        BY <1>1, <2>1 DEF CreateTeacher, studentVars, Left
      <3>2. QED
        BY <1>1, <2>1, <3>1, AlwaysInQuietSteps
           DEF CreateTeacher, idVars, roomVars, studentVars, Always, TypeOK
    <2>2. ASSUME NEW s \in Students, CreateStudent(s) PROVE Always'
      <3>1. Left' = Left /\ pcStudent' \in [Students -> Places]
        BY <1>1, <2>2 DEF CreateStudent, Left, Places
      <3>2. pcMain' \in {"createStudents", "storeId"}
        BY <2>2 DEF CreateStudent
      <3>3. QED
        BY <1>1, <2>2, <3>1, <3>2, AlwaysInQuietSteps
           DEF CreateStudent, idVars, roomVars, teacherVars, Always, TypeOK
    <2>3. CASE StoreId \/ StoreRoom \/ StoreFinish \/ Join
      <3>1. Left' = Left /\ pcStudent' \in [Students -> Places]
        BY <1>1, <2>3 DEF StoreId, StoreRoom, StoreFinish, Join, studentVars, Left
      <3>2. pcMain' = "done" => \A s \in Students : pcStudent'[s] = "left"
        BY <2>3 DEF StoreId, StoreRoom, StoreFinish, Join, AllEnded, studentVars
      <3>3. /\ UNCHANGED << n_current_assigned_id, n_groups, called_gid, n_current_finish,
                            local_id, l_id, t_exe, my_group_id, pcTeacher >>
            /\ pcMain' \in {"storeRoom", "storeFinish", "join", "done"}
        BY <2>3 DEF StoreId, StoreRoom, StoreFinish, Join, idVars, roomVars, teacherVars,
                    studentVars
      <3>4. /\ {s_id_available', room_available', lab_exercise_finish'} \subseteq BOOLEAN
            /\ s_id_available' => s_id_available
        <4>1. CASE StoreId
          BY <1>1, <4>1 DEF StoreId, roomVars
        <4>2. CASE StoreRoom
          BY <1>1, <4>2 DEF StoreRoom, idVars
        <4>3. CASE StoreFinish
          BY <1>1, <4>3 DEF StoreFinish, idVars
        <4>4. CASE Join
          BY <1>1, <4>4 DEF Join, idVars, roomVars
        <4>5. QED
          BY <2>3, <4>1, <4>2, <4>3, <4>4
      <3>5. /\ pcTeacher' \in {"new", "give", "giveWait", "giveWoken", "lastWait", "call",
                              "callWait", "exercise", "done"}
            /\ pcTeacher' \in {"giveWait", "giveWoken"} => local_id <= n
        BY <3>3 DEF Always, TypeOK
      <3>6. QED
        BY <1>1, <3>1, <3>2, <3>3, <3>4, <3>5, AlwaysInQuietSteps
    <2>4. CASE UNCHANGED vars
      <3>1. Left' = Left /\ pcStudent' \in [Students -> Places]
        BY <1>1, <2>4 DEF vars, studentVars, Left
      <3>2. QED
        BY <1>1, <1>2, <2>4, <3>1, AlwaysInQuietSteps
           DEF vars, idVars, roomVars, teacherVars, studentVars, Always, TypeOK
    <2>5. QED
      BY <1>7, <2>1, <2>2, <2>3, <2>4 DEF Main
  <1>8. CASE GiveIdWait \/ AllIdsGiven \/ CallWait \/ EndExercise \/ TeacherDone \/ WakeTeacher
    <2>1. SameStages /\ pcMain' = pcMain
      BY <1>1, <1>8, SignalsWake DEF GiveIdWait, AllIdsGiven, CallWait, EndExercise, TeacherDone,
         WakeTeacher, studentVars
    <2>2. /\ Left' = Left /\ pcStudent' \in [Students -> Places]
          /\ pcMain' = "done" => \A s \in Students : pcStudent'[s] = "left"
      BY <1>1, <1>2, <2>1, StagesKept DEF SameStages, Left
    <2>3. /\ pcTeacher' \in {"new", "give", "giveWait", "giveWoken", "lastWait", "call",
                            "callWait", "exercise", "done"}
          /\ pcTeacher' \in {"giveWait", "giveWoken"} => local_id <= n
      BY <1>1, <1>8, LabAssumption DEF GiveIdWait, AllIdsGiven, CallWait, EndExercise,
         TeacherDone, WakeTeacher, Always, TypeOK
    <2>4. /\ UNCHANGED << idVars, called_gid, room_available, n_current_finish, local_id,
                          l_id, t_exe, my_group_id >>
          /\ lab_exercise_finish' \in {lab_exercise_finish, TRUE}
      BY <1>8 DEF GiveIdWait, AllIdsGiven, CallWait, EndExercise, TeacherDone, WakeTeacher,
                  roomVars, studentVars
    <2>5. {s_id_available', room_available', lab_exercise_finish'} \subseteq BOOLEAN
      BY <1>1, <2>4 DEF idVars
    <2>6. pcMain' \in {"createTeacher", "createStudents", "storeId", "storeRoom",
                     "storeFinish", "join", "done"}
      BY <1>1, <2>1 DEF TypeOK
    <2>7. QED
      BY <1>1, <2>2, <2>3, <2>4, <2>5, <2>6, AlwaysInQuietSteps DEF idVars
  <1>9. ASSUME NEW s \in Students,
               GetIdWait(s) \/ EnterWait(s) \/ EnterLab(s) \/ LabWaitAgain(s) \/ WakeStudent(s)
        PROVE  Always'
    <2>1. UNCHANGED << idVars, roomVars, teacherVars, my_group_id, pcMain >>
      BY <1>9 DEF GetIdWait, EnterWait, EnterLab, LabWaitAgain, WakeStudent
    <2>2. PICK p \in Places : /\ pcStudent' = [pcStudent EXCEPT ![s] = p]
                              /\ p # "left" /\ pcStudent[s] # "left"
      <3>1. CASE WakeStudent(s)
        BY <1>1, <3>1, LabAssumption DEF WakeStudent, Places
      <3>2. CASE ~WakeStudent(s)
        BY <1>9, <3>2 DEF GetIdWait, EnterWait, EnterLab, LabWaitAgain, Places
      <3>3. QED
        BY <3>1, <3>2
    <2>3. /\ Left' = Left /\ pcStudent' \in [Students -> Places]
          /\ pcMain' = "done" => \A u \in Students : pcStudent'[u] = "left"
      BY <1>1, <1>2, <2>1, <2>2 DEF Left
    <2>4. QED
      BY <1>1, <2>1, <2>3, AlwaysInQuietSteps DEF idVars, roomVars, teacherVars, Always, TypeOK
  <1>10. CASE Teacher
    <2>1. CASE GiveId \/ GiveIdWoken \/ CallGroup
      <3>1. SameStages /\ pcMain' = pcMain
        BY <1>1, <2>1, SignalsWake DEF GiveId, GiveIdWoken, AssignId, CallGroup, WakeGroup
      <3>2. QED
        BY <1>3, <1>4, <2>1, <3>1
    <2>2. QED
      BY <1>8, <1>10, <2>1 DEF Teacher
  <1>11. QED
    BY <1>5, <1>6, <1>7, <1>8, <1>9, <1>10 DEF Next, Student, Ended

LEMMA AlwaysHolds == Spec => []Always
  <1>1. Init => Always
    BY InitSound, FS_EmptySet DEF Invariant, RoomIsKept, IdsCounted, Init, Always
  <1>2. Always /\ [Next]_vars => Always'
    BY AlwaysKept
  <1>3. QED
    BY <1>1, <1>2, PTL DEF Spec

\* The invariant holds in every run until it is disturbed.
LEMMA InvariantHolds == Spec => [](disturbed \/ Invariant)
  <1>1. Always /\ (disturbed \/ Invariant) /\ [Next]_vars => (disturbed \/ Invariant)'
    <2> SUFFICES ASSUME Always, disturbed \/ Invariant, [Next]_vars, ~disturbed'
                 PROVE  Invariant'
      OBVIOUS
    <2>1. Invariant
      BY DisturbedStays DEF Always
    <2>2. QED
      BY <2>1, NextSound
  <1>2. Init => disturbed \/ Invariant
    BY InitSound
  <1>3. QED
    BY <1>1, <1>2, AlwaysHolds, PTL DEF Spec

\* Once the teacher calls, the groups are full.
LEMMA FullGroups == Invariant => GroupsAreFull
  <1> SUFFICES ASSUME Invariant, Calling, NEW g \in 1..n_groups
               PROVE  Cardinality(Group(g)) = Min({K, n - (g - 1) * K})
    BY DEF GroupsAreFull, Calling
  <1> DEFINE h == g - 1
  <1>1. h \in Nat /\ h < n_groups /\ g = h + 1 /\ n \in Nat /\ h * K \in Nat
    <2>1. h \in Nat /\ h < n_groups /\ g = h + 1 /\ n \in Nat
      BY GroupsComplete, Sizes
    <2>2. QED
      BY <2>1, Products
  <1> HIDE DEF h
  <1>2. Cardinality(Upto(h)) = h * K /\ h * K < n /\ Cardinality(Upto(h + 1)) = Smaller(h * K + K, n)
    BY <1>1, CalledGroups
  <1>3. Group(g) = Upto(h + 1) \ Upto(h) /\ Upto(h + 1) \cap Upto(h) = Upto(h)
    BY <1>1 DEF Group, Upto
  <1>4. Cardinality(Group(g)) = Cardinality(Upto(h + 1)) - Cardinality(Upto(h))
    BY <1>3, Sizes, FS_Difference DEF Upto
  <1>5. Smaller(h * K + K, n) - h * K = Smaller(K, n - h * K)
    BY <1>1, LabAssumption DEF Smaller
  <1>6. Min({K, n - h * K}) = Smaller(K, n - h * K)
    <2>1. n - h * K \in Int /\ K \in Int
      BY <1>1, LabAssumption
    <2>2. QED
      BY <2>1, MinMaxOfTwo
  <1>7. QED
    BY <1>2, <1>4, <1>5, <1>6 DEF h

\* For any number of students, any group size and any time limit: types are kept and
\* everybody has left when main prints its last message; the groups are full (K
\* students each, the last one fewer if need be) and one of them at a time is in the
\* lab unless the run has been disturbed.
THEOREM GroupsOfTheLab == Spec => []GroupsAreSound
  <1>1. Always /\ (disturbed \/ Invariant) => GroupsAreSound
    BY FullGroups DEF Invariant, Always, GroupsAreSound
  <1>2. QED
    BY <1>1, AlwaysHolds, InvariantHolds, PTL

\* Without a disturbance the teacher gives the next id when all those before it have
\* been taken.
THEOREM IdsAreTaken == Spec => IdsLostOnlyIfDisturbed
  <1>1. Always /\ (disturbed \/ Invariant) /\ [Next]_vars =>
          [n_current_assigned_id' # n_current_assigned_id /\ ~disturbed' =>
             Cardinality({ s \in Students : my_group_id[s] # 0 }) = n_current_assigned_id]_vars
    <2> SUFFICES ASSUME Always, disturbed \/ Invariant, [Next]_vars,
                        n_current_assigned_id' # n_current_assigned_id, ~disturbed'
                 PROVE  Cardinality({ s \in Students : my_group_id[s] # 0 }) =
                          n_current_assigned_id
      OBVIOUS
    <2> Invariant /\ n_current_assigned_id \in Nat
      BY DisturbedStays DEF Always, TypeOK
    <2> SUFFICES ~s_id_available
      BY DEF Invariant, IdsCounted, Assigned
    <2>1. CASE GiveId \/ GiveIdWoken
      BY <2>1 DEF GiveId, GiveIdWoken, Invariant, IdsHandedOver
    <2>2. CASE ~(GiveId \/ GiveIdWoken)
      BY <2>2 DEF Next, Main, CreateTeacher, CreateStudent, StoreId, StoreRoom, StoreFinish, Join,
         Teacher, GiveIdWait, AllIdsGiven, CallWait, CallGroup, EndExercise, TeacherDone,
         Student, GetId, GetIdWait, EnterWait, EnterLab, LabWaitAgain, LeaveLab,
         WakeTeacher, WakeStudent, Ended, vars, idVars
    <2>3. QED
      BY <2>1, <2>2
  <1>2. QED
    BY <1>1, AlwaysHolds, InvariantHolds, PTL DEF Spec, IdsLostOnlyIfDisturbed

\* The sentence of the README about calls (CallsAfterRoomIsEmpty): in a run that has
\* not been disturbed everybody of the groups called before has left at a call, and
\* nobody of the new one has.
THEOREM CallsIntoEmptyRoom ==
  Spec => [][called_gid' # called_gid /\ ~disturbed' =>
               /\ called_gid' = called_gid + 1
               /\ \A s \in Students :
                    pcStudent[s] = "left" <=> my_group_id[s] \in 1..called_gid]_vars
  <1>1. Always /\ (disturbed \/ Invariant) /\ [Next]_vars =>
          [called_gid' # called_gid /\ ~disturbed' =>
             /\ called_gid' = called_gid + 1
             /\ \A s \in Students :
                  pcStudent[s] = "left" <=> my_group_id[s] \in 1..called_gid]_vars
    <2> SUFFICES ASSUME Always, disturbed \/ Invariant, [Next]_vars,
                        called_gid' # called_gid, ~disturbed'
                 PROVE  /\ called_gid' = called_gid + 1
                        /\ \A s \in Students :
                             pcStudent[s] = "left" <=> my_group_id[s] \in 1..called_gid
      OBVIOUS
    <2> Invariant
      BY DisturbedStays DEF Always
    <2>1. CallGroup
      BY DEF Next, Main, CreateTeacher, CreateStudent, StoreId, StoreRoom, StoreFinish, Join,
         Teacher, GiveId, GiveIdWoken, AssignId, GiveIdWait, AllIdsGiven, CallWait, EndExercise,
         TeacherDone, Student, GetId, GetIdWait, EnterWait, EnterLab, LabWaitAgain, LeaveLab,
         WakeTeacher, WakeStudent, Ended, vars, roomVars
    <2>2. Left = Upto(called_gid) /\ l_id = called_gid
      BY <2>1 DEF CallGroup, RoomIsEmpty, Invariant, RoomIsKept
    <2>3. QED
      BY <2>1, <2>2 DEF CallGroup, Left, Upto
  <1>2. QED
    BY <1>1, AlwaysHolds, InvariantHolds, PTL DEF Spec

-----------------------------------------------------------------------------
(* The threads implement the exercise of the README                        *)

\* where the students are in the abstract exercise
where == [s \in Students |-> PlaceOf(s)]

\* Where a student is depends on its stage only.
LEMMA PlacesKept ==
  ASSUME TypeOK, SameStages
  PROVE  where' = where
  <1>1. \A s \in Students : /\ InLab(s)' <=> InLab(s)
                            /\ pcStudent'[s] = "left" <=> pcStudent[s] = "left"
    <2>1. \A s \in Students : pcStudent[s] \in Places /\ pcStudent'[s] \in Places
                              /\ Stage(pcStudent'[s]) = Stage(pcStudent[s])
      BY DEF TypeOK, SameStages, Places
    <2>2. QED
      BY <2>1 DEF Places, Stage, InLab
  <1>2. \A s \in Students : PlaceOf(s)' = PlaceOf(s)
    BY <1>1 DEF PlaceOf, InLab
  <1>3. QED
    BY <1>2 DEF where

\* A step that neither groups, calls nor moves a student is a stutter of LabRoom.
LEMMA Stutters ==
  ASSUME TypeOK, SameStages, UNCHANGED << my_group_id, called_gid >>
  PROVE  UNCHANGED Room!vars
  BY PlacesKept DEF Room!vars, where

\* A student who moves changes its own place only.
LEMMA OneMoves ==
  ASSUME NEW s \in Students, NEW p \in Places, TypeOK,
         pcStudent' = [pcStudent EXCEPT ![s] = p]
  PROVE  where' = [where EXCEPT ![s] = IF p \in {"labWait", "labWoken"} THEN "inside"
                                       ELSE IF p = "left" THEN "left" ELSE "outside"]
  <1>1. \A u \in Students : pcStudent'[u] = (IF u = s THEN p ELSE pcStudent[u])
    BY DEF TypeOK
  <1>2. \A u \in Students :
          PlaceOf(u)' = IF u = s THEN (IF p \in {"labWait", "labWoken"} THEN "inside"
                                       ELSE IF p = "left" THEN "left" ELSE "outside")
                        ELSE PlaceOf(u)
    BY <1>1 DEF PlaceOf, InLab
  <1>3. QED
    BY <1>2 DEF where

\* Every step of the threads is a step of LabRoom or a stutter.
LEMMA StepsAreRoomSteps ==
  ASSUME ~disturbed', Invariant, [Next]_vars
  PROVE  [Room!Next]_(Room!vars)
  <1> USE DEF where
  <1>1. TypeOK /\ pcStudent \in [Students -> Places]
    BY DEF Invariant, TypeOK, Places
  <1>2. CASE Main
    <2>1. ASSUME NEW s \in Students, CreateStudent(s) PROVE SameStages
      BY <1>1, <2>1 DEF CreateStudent, SameStages, Places, Stage
    <2>2. CASE \E s \in Students : CreateStudent(s)
      BY <1>1, <2>1, <2>2, Stutters DEF CreateStudent, roomVars
    <2>3. CASE ~\E s \in Students : CreateStudent(s)
      <3>1. UNCHANGED << studentVars, called_gid >>
        BY <1>2, <2>3 DEF Main, CreateTeacher, StoreId, StoreRoom, StoreFinish, Join, roomVars
      <3>2. QED
        BY <1>1, <3>1, SignalsWake, Stutters DEF studentVars
    <2>4. QED
      BY <2>2, <2>3
  <1>3. CASE Teacher
    <2>1. CASE CallGroup
      <3>1. /\ l_id = called_gid /\ called_gid \in Nat /\ called_gid < n_groups
            /\ Left = Upto(called_gid) /\ Calling
        BY <1>1, <2>1 DEF CallGroup, RoomIsEmpty, Calling, Invariant, RoomIsKept, TypeOK
      <3>2. Assigned = Students
        BY <3>1, GroupsComplete
      <3>3. Room!Grouped = Students
        BY <3>2 DEF Room!Grouped, Assigned
      <3>4. Room!Members(called_gid + 1) # {}
        <4>1. Upto(called_gid + 1) # Upto(called_gid)
          <5>1. /\ Cardinality(Upto(called_gid)) = called_gid * K
                /\ called_gid * K < Cardinality(Upto(called_gid + 1))
            BY <3>1, CalledGroups
          <5>2. called_gid * K \in Nat
            BY <3>1, Products
          <5>3. QED
            BY <5>1, <5>2
        <4>2. PICK s \in Students : ~(s \in Upto(called_gid + 1) <=> s \in Upto(called_gid))
          BY <4>1 DEF Upto
        <4>3. my_group_id[s] = called_gid + 1
          <5>1. my_group_id[s] \in Nat
            BY <1>1, Sizes DEF TypeOK
          <5>2. QED
            BY <3>1, <4>2, <5>1 DEF Upto
        <4>4. QED
          BY <4>3 DEF Room!Members
      <3>5. ASSUME NEW s \in Students, my_group_id[s] = called_gid
            PROVE  PlaceOf(s) = "left"
        <4>1. my_group_id[s] # 0
          BY <3>2 DEF Assigned
        <4>2. s \in Left
          BY <3>1, <3>5, <4>1 DEF Upto
        <4>3. QED
          BY <4>2 DEF PlaceOf, InLab, Left
      <3>6. \A s \in Room!Members(called_gid) : where[s] = "left"
        BY <3>5 DEF Room!Members
      <3>7. /\ called_gid' = called_gid + 1 /\ my_group_id' = my_group_id
            /\ where' = where
        BY <1>1, <2>1, <3>1, SignalsWake, PlacesKept DEF CallGroup, WakeGroup
      <3>8. Room!Call
        BY <3>3, <3>4, <3>6, <3>7 DEF Room!Call
      <3>9. QED
        BY <3>8 DEF Room!Next
    <2>2. CASE ~CallGroup
      <3>1. UNCHANGED << my_group_id, called_gid >> /\ SameStages
        BY <1>1, <1>3, <2>2, SignalsWake
           DEF Teacher, GiveId, GiveIdWoken, AssignId, GiveIdWait, AllIdsGiven, CallWait,
               EndExercise, TeacherDone, roomVars, studentVars
      <3>2. QED
        BY <1>1, <3>1, Stutters
    <2>3. QED
      BY <2>1, <2>2
  <1>4. CASE WakeTeacher
    <2>1. UNCHANGED << studentVars, called_gid >>
      BY <1>4 DEF WakeTeacher, roomVars
    <2>2. QED
      BY <1>1, <2>1, SignalsWake, Stutters DEF studentVars
  <1>5. ASSUME NEW s \in Students, Student(s) \/ WakeStudent(s)
        PROVE  [Room!Next]_(Room!vars)
    <2>1. CASE GetId(s)
      <3>1. my_group_id' = [my_group_id EXCEPT ![s] = Cardinality(Assigned) \div K + 1]
        BY <2>1, StudentTakesId
      <3>2. my_group_id[s] = 0
        BY <2>1 DEF GetId, Invariant, IdsCounted
      <3>3. Room!Cardinality(Room!Grouped) = Cardinality(Assigned)
        <4>1. Room!Grouped = Assigned
          BY DEF Room!Grouped, Assigned
        <4>2. Room!Cardinality(Assigned) = Cardinality(Assigned)
          BY DEF Room!Cardinality, Cardinality
        <4>3. QED
          BY <4>1, <4>2
      <3>4. where' = where
        <4>1. pcStudent' = [pcStudent EXCEPT ![s] = "enter"] /\ pcStudent[s] = "get"
          BY <2>1 DEF GetId
        <4>2. \A u \in Students : InLab(u)' = InLab(u) /\ (pcStudent'[u] = "left") = (pcStudent[u] = "left")
          BY <1>1, <4>1 DEF InLab
        <4>3. \A u \in Students : PlaceOf(u)' = PlaceOf(u)
          BY <4>2 DEF PlaceOf
        <4>4. QED
          BY <4>3
      <3>5. called_gid' = called_gid
        BY <2>1 DEF GetId, roomVars
      <3>6. Room!Assign(s)
        BY <3>1, <3>2, <3>3, <3>4, <3>5 DEF Room!Assign
      <3>7. QED
        BY <3>6 DEF Room!Next
    <2>2. CASE EnterLab(s)
      <3>1. /\ pcStudent[s] = "enter" /\ pcStudent' = [pcStudent EXCEPT ![s] = "labWait"]
            /\ my_group_id[s] = called_gid /\ UNCHANGED << my_group_id, called_gid >>
        BY <2>2 DEF EnterLab, MayEnter, roomVars
      <3>2. called_gid # 0
        BY <3>1 DEF Invariant, IdsCounted
      <3>3. where[s] = "outside"
        BY <3>1 DEF PlaceOf, InLab
      <3>4. where' = [where EXCEPT ![s] = "inside"]
        BY <1>1, <3>1, OneMoves DEF Places
      <3>5. Room!Enter(s)
        BY <3>1, <3>2, <3>3, <3>4 DEF Room!Enter
      <3>6. QED
        BY <3>5 DEF Room!Next
    <2>3. CASE LeaveLab(s)
      <3>1. /\ pcStudent' = [pcStudent EXCEPT ![s] = "left"]
            /\ UNCHANGED << my_group_id, called_gid >>
        BY <2>3 DEF LeaveLab
      <3>2. where' = [where EXCEPT ![s] = "left"]
        BY <1>1, <3>1, OneMoves DEF Places
      <3>3. CASE pcStudent[s] = "labWoken"
        <4>1. where[s] = "inside"
          BY <3>3 DEF PlaceOf, InLab
        <4>2. Room!Leave(s)
          BY <3>1, <3>2, <4>1 DEF Room!Leave
        <4>3. QED
          BY <4>2 DEF Room!Next
      <3>4. CASE pcStudent[s] = "enter" /\ MayEnter(s)
        <4>1. where[s] = "outside" /\ my_group_id[s] = called_gid /\ called_gid # 0
          BY <3>4 DEF PlaceOf, InLab, MayEnter, Invariant, IdsCounted
        <4>2. Room!Pass(s)
          BY <3>1, <3>2, <4>1 DEF Room!Pass
        <4>3. QED
          BY <4>2 DEF Room!Next
      <3>5. QED
        BY <2>3, <3>3, <3>4 DEF LeaveLab
    <2>4. CASE GetIdWait(s) \/ EnterWait(s) \/ LabWaitAgain(s)
      <3>1. SameStages
        BY <1>1, <2>4 DEF GetIdWait, EnterWait, LabWaitAgain, SameStages, Places, Stage
      <3>2. QED
        BY <1>1, <2>4, <3>1, Stutters DEF GetIdWait, EnterWait, LabWaitAgain, roomVars
    <2>5. CASE WakeStudent(s)
      <3>1. pcStudent[s] \in {"getWait", "enterWait", "labWait"}
        BY <1>1, <2>5, LabAssumption DEF WakeStudent, Places
      <3>2. SameStages
        BY <1>1, <2>5, <3>1 DEF WakeStudent, SameStages, Places, Stage
      <3>3. QED
        BY <1>1, <2>5, <3>2, Stutters DEF WakeStudent, roomVars
    <2>6. QED
      BY <1>5, <2>1, <2>2, <2>3, <2>4, <2>5 DEF Student
  <1>6. CASE UNCHANGED vars
    BY <1>1, <1>6, SignalsWake, Stutters DEF vars, studentVars, roomVars
  <1>7. QED
    BY <1>2, <1>3, <1>4, <1>5, <1>6 DEF Next, Ended

\* Locks, flags and condition variables together implement the exercise up to the
\* first disturbance: groups are filled in turn, called in turn, and only when
\* everybody of the last one has left.
THEOREM ThreadsImplementTheLab == Spec => ImplementsLabRoom
  <1>1. Init => Room!Init
    BY DEF Init, Room!Init, PlaceOf, InLab
  <1>2. Always /\ (disturbed \/ Invariant) /\ [Next]_vars =>
          [Room!Next \/ disturbed']_(Room!vars)
    <2> SUFFICES ASSUME Always, disturbed \/ Invariant, [Next]_vars, ~disturbed'
                 PROVE  [Room!Next]_(Room!vars)
      OBVIOUS
    <2>1. Invariant
      BY DisturbedStays DEF Always
    <2>2. QED
      BY <2>1, StepsAreRoomSteps
  <1>3. QED
    BY <1>1, <1>2, AlwaysHolds, InvariantHolds, PTL DEF Spec, ImplementsLabRoom

=============================================================================
