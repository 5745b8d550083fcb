----------------------------- MODULE LabExercise -----------------------------
(***************************************************************************)
(* Lab_exercise.c: main, one teacher thread and a thread per student.      *)
(*                                                                         *)
(* Every access of the two workers' routines to the shared flags is made   *)
(* under id_assign_lock or room_lock.  An action is therefore the code a   *)
(* thread runs from the moment it has the mutex to the unlock, or to the   *)
(* pthread_cond_wait, that gives the mutex up.  The three stores of main   *)
(* take no lock; each is an action of its own.                             *)
(*                                                                         *)
(* A thread whose pc ends in Wait sleeps on a condition variable.  One of  *)
(* the others is at the place where it asks for the mutex (again).         *)
(***************************************************************************)
EXTENDS Integers, FiniteSets, FiniteSetsExt

CONSTANTS Students,     \* the student threads; n is their number
          K,            \* k: students per group
          T,            \* t: time limit of the exercise
          SpuriousAt    \* waits that may return without a signal: POSIX allows all

ASSUME LabAssumption == /\ IsFiniteSet(Students)
                        /\ K \in Nat \ {0}
                        /\ T \in Nat
                        /\ SpuriousAt \subseteq {"giveWait", "lastWait", "callWait",
                                               "getWait", "enterWait", "labWait"}

n == Cardinality(Students)

VARIABLES
  n_current_assigned_id, s_id_available, n_groups,              \* id_assign_lock
  called_gid, room_available, lab_exercise_finish, n_current_finish,  \* room_lock
  local_id, l_id, t_exe,  \* locals of the teacher
  my_group_id,            \* local of each student, 0 before it is set
  pcMain, pcTeacher, pcStudent,
  disturbed               \* auxiliary: a store of main has cleared a flag that was set,
                          \* or a wait that is not in a loop has returned unsignalled

idVars      == << n_current_assigned_id, s_id_available, n_groups >>
roomVars    == << called_gid, room_available, lab_exercise_finish, n_current_finish >>
teacherVars == << local_id, l_id, t_exe, pcTeacher >>
studentVars == << my_group_id, pcStudent >>
vars        == << idVars, roomVars, teacherVars, studentVars, pcMain, disturbed >>

Init ==
  /\ n_current_assigned_id = 0 /\ s_id_available = FALSE /\ n_groups = 0
  /\ called_gid = 0 /\ room_available = FALSE
  /\ lab_exercise_finish = FALSE /\ n_current_finish = 0
  /\ local_id = 1 /\ l_id = 0 /\ t_exe = 0
  /\ my_group_id = [s \in Students |-> 0]
  /\ pcMain = "createTeacher"
  /\ pcTeacher = "new"
  /\ pcStudent = [s \in Students |-> "new"]
  /\ disturbed = FALSE

\* Rounds up instead of down.
CalculateGroupId_x(id) == id \div K + 1

CalculateGroupId(id) == (id - 1) \div K + 1

\* No correction for an even t.
ExerciseTimes_x == LET t2 == T \div 2 + 1 IN { r + t2 : r \in 0..t2-1 }

\* what rand() % t2 + t2, less one for an even t, can be
ExerciseTimes ==
  LET t2 == T \div 2 + 1
  IN  { r + t2 - (IF T % 2 = 0 THEN 1 ELSE 0) : r \in 0..t2-1 }

-----------------------------------------------------------------------------
(* Signals: the students that sleep in state "from" go back for the mutex  *)

SignalStudent(from, to) ==
  LET asleep == { s \in Students : pcStudent[s] = from }
  IN  IF asleep = {} THEN UNCHANGED pcStudent
      ELSE \E s \in asleep : pcStudent' = [pcStudent EXCEPT ![s] = to]

BroadcastStudents(from, to) ==
  pcStudent' = [s \in Students |->
                  IF pcStudent[s] = from THEN to ELSE pcStudent[s]]

SignalTeacher(from, to) ==
  pcTeacher' = IF pcTeacher = from THEN to ELSE pcTeacher

-----------------------------------------------------------------------------
(* main                                                                    *)

CreateTeacher ==
  /\ pcMain = "createTeacher"
  /\ pcMain' = "createStudents"
  /\ pcTeacher' = "give"
  /\ UNCHANGED << idVars, roomVars, local_id, l_id, t_exe, studentVars, disturbed >>

CreateStudent(s) ==
  /\ pcMain = "createStudents"
  /\ pcStudent[s] = "new"
  /\ pcStudent' = [pcStudent EXCEPT ![s] = "get"]
  /\ pcMain' = IF \A u \in Students \ {s} : pcStudent[u] # "new"
                 THEN "storeId" ELSE "createStudents"
  /\ UNCHANGED << idVars, roomVars, teacherVars, my_group_id, disturbed >>

\* The stores come after the threads have been created: the flag may be set.
StoreId ==
  /\ pcMain = "storeId"
  /\ s_id_available' = FALSE
  /\ disturbed' = (disturbed \/ s_id_available)
  /\ pcMain' = "storeRoom"
  /\ UNCHANGED << n_current_assigned_id, n_groups, roomVars, teacherVars, studentVars >>

StoreRoom ==
  /\ pcMain = "storeRoom"
  /\ room_available' = FALSE
  /\ disturbed' = (disturbed \/ room_available)
  /\ pcMain' = "storeFinish"
  /\ UNCHANGED << idVars, called_gid, lab_exercise_finish, n_current_finish,
                  teacherVars, studentVars >>

StoreFinish ==
  /\ pcMain = "storeFinish"
  /\ lab_exercise_finish' = FALSE
  /\ disturbed' = (disturbed \/ lab_exercise_finish)
  /\ pcMain' = "join"
  /\ UNCHANGED << idVars, called_gid, room_available, n_current_finish,
                  teacherVars, studentVars >>

\* Does not wait for the students.
AllEnded_teacher == pcTeacher = "done"

AllEnded == pcTeacher = "done" /\ \A s \in Students : pcStudent[s] = "left"

Join ==
  /\ pcMain = "join"
  /\ AllEnded
  /\ pcMain' = "done"
  /\ UNCHANGED << idVars, roomVars, teacherVars, studentVars, disturbed >>

Main == \/ CreateTeacher \/ \E s \in Students : CreateStudent(s)
        \/ StoreId \/ StoreRoom \/ StoreFinish \/ Join

-----------------------------------------------------------------------------
(* teacher_give_id and the wait for the last student                       *)

\* The rest of the loop body, once the test of s_id_available is behind.
AssignId ==
  /\ n_current_assigned_id' = local_id
  /\ n_groups' = Max({n_groups, CalculateGroupId(local_id)})
  /\ s_id_available' = TRUE
  /\ SignalStudent("getWait", "get")
  /\ local_id' = local_id + 1
  /\ pcTeacher' = "give"
  /\ UNCHANGED << roomVars, l_id, t_exe, my_group_id, pcMain, disturbed >>

\* Never waits.
GiveId_hasty ==
  /\ pcTeacher = "give" /\ local_id <= n
  /\ AssignId

GiveId ==
  /\ pcTeacher = "give" /\ local_id <= n
  /\ ~s_id_available
  /\ AssignId

GiveIdWait ==
  /\ pcTeacher = "give" /\ local_id <= n
  /\ s_id_available
  /\ pcTeacher' = "giveWait"
  /\ UNCHANGED << idVars, roomVars, local_id, l_id, t_exe, studentVars, pcMain, disturbed >>

\* The test is an if: after the wait the flag is not looked at again.
GiveIdWoken ==
  /\ pcTeacher = "giveWoken"
  /\ AssignId

AllIdsGiven ==
  /\ pcTeacher = "give" /\ local_id > n
  /\ pcTeacher' = IF s_id_available THEN "lastWait" ELSE "call"
  /\ UNCHANGED << idVars, roomVars, local_id, l_id, t_exe, studentVars, pcMain, disturbed >>

-----------------------------------------------------------------------------
(* The loop over the groups in teacher_routine                             *)

\* The next group is called at once.
RoomIsEmpty_ignored == TRUE

RoomIsEmpty == ~room_available

CallWait ==
  /\ pcTeacher = "call" /\ l_id < n_groups
  /\ ~RoomIsEmpty
  /\ pcTeacher' = "callWait"
  /\ UNCHANGED << idVars, roomVars, local_id, l_id, t_exe, studentVars, pcMain, disturbed >>

\* Wakes one student instead of all.
WakeGroup_one == SignalStudent("enterWait", "enter")

WakeGroup == BroadcastStudents("enterWait", "enter")

CallGroup ==
  /\ pcTeacher = "call" /\ l_id < n_groups
  /\ RoomIsEmpty
  /\ l_id' = l_id + 1
  /\ called_gid' = l_id + 1
  /\ room_available' = TRUE
  /\ WakeGroup
  /\ t_exe' \in ExerciseTimes
  /\ pcTeacher' = "exercise"
  /\ UNCHANGED << idVars, lab_exercise_finish, n_current_finish, local_id,
                  my_group_id, pcMain, disturbed >>

\* After sleep(t_exe)
EndExercise ==
  /\ pcTeacher = "exercise"
  /\ lab_exercise_finish' = TRUE
  /\ BroadcastStudents("labWait", "labWoken")
  /\ pcTeacher' = "call"
  /\ UNCHANGED << idVars, called_gid, room_available, n_current_finish,
                  local_id, l_id, t_exe, my_group_id, pcMain, disturbed >>

TeacherDone ==
  /\ pcTeacher = "call" /\ l_id = n_groups
  /\ pcTeacher' = "done"
  /\ UNCHANGED << idVars, roomVars, local_id, l_id, t_exe, studentVars, pcMain, disturbed >>

Teacher == \/ GiveId \/ GiveIdWait \/ GiveIdWoken \/ AllIdsGiven
           \/ CallWait \/ CallGroup \/ EndExercise \/ TeacherDone

-----------------------------------------------------------------------------
(* students_get_sid                                                        *)

GetId(s) ==
  /\ pcStudent[s] = "get"
  /\ s_id_available
  /\ my_group_id' = [my_group_id EXCEPT ![s] = CalculateGroupId(n_current_assigned_id)]
  /\ s_id_available' = FALSE
  /\ pcTeacher' = CASE pcTeacher = "giveWait" -> "giveWoken"
                    [] pcTeacher = "lastWait" -> "call"
                    [] OTHER -> pcTeacher
  /\ pcStudent' = [pcStudent EXCEPT ![s] = "enter"]
  /\ UNCHANGED << n_current_assigned_id, n_groups, roomVars,
                  local_id, l_id, t_exe, pcMain, disturbed >>

GetIdWait(s) ==
  /\ pcStudent[s] = "get"
  /\ ~s_id_available
  /\ pcStudent' = [pcStudent EXCEPT ![s] = "getWait"]
  /\ UNCHANGED << idVars, roomVars, teacherVars, my_group_id, pcMain, disturbed >>

-----------------------------------------------------------------------------
(* students_routine                                                        *)

MayEnter(s) == room_available /\ my_group_id[s] = called_gid

EnterWait(s) ==
  /\ pcStudent[s] = "enter"
  /\ ~MayEnter(s)
  /\ pcStudent' = [pcStudent EXCEPT ![s] = "enterWait"]
  /\ UNCHANGED << idVars, roomVars, teacherVars, my_group_id, pcMain, disturbed >>

EnterLab(s) ==
  /\ pcStudent[s] = "enter"
  /\ MayEnter(s)
  /\ ~lab_exercise_finish
  /\ pcStudent' = [pcStudent EXCEPT ![s] = "labWait"]
  /\ UNCHANGED << idVars, roomVars, teacherVars, my_group_id, pcMain, disturbed >>

LabWaitAgain(s) ==
  /\ pcStudent[s] = "labWoken"
  /\ ~lab_exercise_finish
  /\ pcStudent' = [pcStudent EXCEPT ![s] = "labWait"]
  /\ UNCHANGED << idVars, roomVars, teacherVars, my_group_id, pcMain, disturbed >>

\* The room is given back by the first student who leaves.
LastToLeave_first == TRUE

LastToLeave == (n_current_finish + 1) % K = 0 \/ n_current_finish + 1 = n

LeaveLab(s) ==
  /\ \/ pcStudent[s] = "labWoken"
     \/ pcStudent[s] = "enter" /\ MayEnter(s)
  /\ lab_exercise_finish
  /\ n_current_finish' = n_current_finish + 1
  /\ IF LastToLeave
       THEN /\ room_available' = FALSE
            /\ lab_exercise_finish' = FALSE
            /\ SignalTeacher("callWait", "call")
       ELSE UNCHANGED << room_available, lab_exercise_finish, pcTeacher >>
  /\ pcStudent' = [pcStudent EXCEPT ![s] = "left"]
  /\ UNCHANGED << idVars, called_gid, local_id, l_id, t_exe, my_group_id, pcMain, disturbed >>

Student(s) == \/ GetId(s) \/ GetIdWait(s) \/ EnterWait(s) \/ EnterLab(s)
              \/ LabWaitAgain(s) \/ LeaveLab(s)

-----------------------------------------------------------------------------
(* pthread_cond_wait returns without a signal                              *)

WakeTeacher ==
  /\ pcTeacher \in SpuriousAt
  /\ pcTeacher' = CASE pcTeacher = "giveWait" -> "giveWoken"
                    [] pcTeacher \in {"lastWait", "callWait"} -> "call"
  /\ disturbed' = (disturbed \/ pcTeacher \in {"giveWait", "lastWait"})
  /\ UNCHANGED << idVars, roomVars, local_id, l_id, t_exe, studentVars, pcMain >>

WakeStudent(s) ==
  /\ pcStudent[s] \in SpuriousAt
  /\ pcStudent' = [pcStudent EXCEPT ![s] =
                     CASE @ = "getWait"   -> "get"
                       [] @ = "enterWait" -> "enter"
                       [] @ = "labWait"   -> "labWoken"]
  /\ UNCHANGED << idVars, roomVars, teacherVars, my_group_id, pcMain, disturbed >>

\* The process has ended.
Ended == pcMain = "done" /\ UNCHANGED vars

Next == \/ Main
        \/ Teacher
        \/ WakeTeacher
        \/ \E s \in Students : Student(s) \/ WakeStudent(s)
        \/ Ended

Spec == Init /\ [][Next]_vars

\* The operating system runs every thread that can run; nothing is assumed about
\* who gets a mutex first.
FairSpec == /\ Spec
            /\ WF_vars(Main)
            /\ WF_vars(Teacher)
            /\ \A s \in Students : WF_vars(Student(s))

-----------------------------------------------------------------------------
(* Properties                                                              *)

\* Flags, counters and locals stay in their ranges; the time of an exercise is
\* between t/2 and t, as the two assertions before the teacher's sleep demand.
TypeOK ==
  /\ n_current_assigned_id \in 0..n
  /\ {s_id_available, room_available, lab_exercise_finish} \subseteq BOOLEAN
  /\ {n_groups, called_gid, l_id, n_current_finish} \subseteq 0..n
  /\ local_id \in 1..n+1
  /\ t_exe \in 0..T /\ (l_id > 0 => t_exe >= T \div 2)
  /\ my_group_id \in [Students -> 0..n]
  /\ pcMain \in {"createTeacher", "createStudents", "storeId", "storeRoom",
                 "storeFinish", "join", "done"}
  /\ pcTeacher \in {"new", "give", "giveWait", "giveWoken", "lastWait", "call",
                    "callWait", "exercise", "done"}
  /\ pcStudent \in [Students -> {"new", "get", "getWait", "enter", "enterWait",
                                 "labWait", "labWoken", "left"}]

InLab(s) == pcStudent[s] \in {"labWait", "labWoken"}

Group(g) == { s \in Students : my_group_id[s] = g }

\* README: "There is only one lab room and each time it can only hold one group
\* of students": whoever is in the lab belongs to the group called last, and the
\* room is marked as taken as long as somebody is in it.
OneGroupInLab ==
  \A s \in Students : InLab(s) => my_group_id[s] = called_gid /\ room_available

\* README: K students in each group, except that the last may have fewer.  Once
\* the teacher starts to call, every student has a group, and the groups are full.
GroupsAreFull ==
  pcTeacher \in {"call", "callWait", "exercise", "done"} =>
    \A g \in 1..n_groups :
      Cardinality(Group(g)) = Min({K, n - (g - 1) * K})

\* main's last message ("All students have completed their lab exercises") is true.
MessageIsTrue ==
  pcMain = "done" => \A s \in Students : pcStudent[s] = "left"

\* The groups as the students see them: one in the lab at a time, and full, unless
\* the run has been disturbed; everybody gone when main says so, come what may.
GroupsAreSound ==
  TypeOK /\ MessageIsTrue /\ (~disturbed => OneGroupInLab /\ GroupsAreFull)

\* README: the teacher calls the next group "after the current group reports the
\* completion of their exercise and the room becomes empty": at a call, everybody
\* of the groups called before has left, and nobody of the new one has.
CallsAfterRoomIsEmpty ==
  [][called_gid' # called_gid =>
       /\ called_gid' = called_gid + 1
       /\ \A s \in Students :
            pcStudent[s] = "left" <=> my_group_id[s] \in 1..called_gid]_vars

\* An id is lost, given anew before a student has taken it, only after a store of
\* main that cleared a set flag or a wait in an if that returned unsignalled: else
\* the next id is given when as many students have a group as ids were given.
IdsLostOnlyIfDisturbed ==
  [][n_current_assigned_id' # n_current_assigned_id /\ ~disturbed' =>
       Cardinality({ s \in Students : my_group_id[s] # 0 }) = n_current_assigned_id]_vars

\* The program ends: every student is called, leaves the lab and is joined. A
\* disturbed run may hang.
ProgramEnds == <>(pcMain = "done" \/ disturbed)

\* The threads implement the exercise that the README describes, up to the first
\* disturbance if there is one.
PlaceOf(s) == CASE InLab(s) -> "inside"
                [] pcStudent[s] = "left" -> "left"
                [] OTHER -> "outside"

Room == INSTANCE LabRoom WITH group  <- my_group_id,
                              called <- called_gid,
                              place  <- [s \in Students |-> PlaceOf(s)]
ImplementsLabRoom == Room!Init /\ [][Room!Next \/ disturbed']_(Room!vars)

=============================================================================
