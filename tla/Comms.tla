------------------------------- MODULE Comms -------------------------------
(***************************************************************************)
(* The coordinator and its storage processes (comm.c). The coordinator      *)
(* takes one command after another and writes requests into a pipe per     *)
(* storage; a storage reads them one by one and answers through a second   *)
(* pipe. TOGGLE does not use the pipe: it sends SIGUSR1, whose handler runs *)
(* between any two steps of the storage and so overtakes stores that are    *)
(* still in the pipe; signals that are already pending are lost.            *)
(*                                                                         *)
(* Storages are numbered by launch, as global_id does. A forked storage     *)
(* inherits the coordinator's ends of the pipes of all storages listed at   *)
(* that moment and never closes them, so a pipe ends only when those are    *)
(* gone too. Commands that answer "Unable to process request" change        *)
(* nothing and are left out. Writes never fill a pipe here.                 *)
(***************************************************************************)
EXTENDS Integers, SequencesExt

CONSTANTS Values,       \* integers that can be stored
          MaxBuff,      \* MAX_BUFF, the length of a storage's array
          MaxStorages,  \* bound: launches
          MaxCommands   \* bound: commands

ASSUME CommsAssumption == {MaxBuff, MaxStorages, MaxCommands} \subseteq Nat \ {0}

VARIABLES coor,         \* Ready, the storage a GET waits for, Exited (after
                        \* EXIT) or Finished (after the end of the input)
          list,         \* the coordinator's linked list of storages
          globalId,     \* global_id: how many storages were launched
          requests,     \* requests[s]: the pipe to s
          answers,      \* answers[s]: the pipe from s
          proc,         \* proc[s]: what s is doing
          last,         \* last[s]: its variables request and integer
          values,       \* values[s]: its array, n_values long
          mutable,      \* mutable[s]: mutable_state in s
          signal,       \* signal[s]: SIGUSR1 is pending for s
          inherited,    \* inherited[s]: the storages whose ends s inherited
          commands,     \* how many commands were given
          sent,         \* sent[s]: history: the values stored, in order
          toggled       \* toggled[s]: history: s was toggled

coordinator == <<coor, list, globalId, commands>>
storageVars == <<proc, last, values>>
vars == <<coor, list, globalId, requests, answers, proc, last, values, mutable,
          signal, inherited, commands, sent, toggled>>

Ids == 0 .. MaxStorages - 1
Ready == -1
Exited == -2
Finished == -3
Listed == {list[i] : i \in DOMAIN list}
Up == {s \in Ids : proc[s] \notin {"none", "dead"}}

Init == /\ coor = Ready /\ list = <<>> /\ globalId = 0 /\ commands = 0
        /\ requests = [s \in Ids |-> <<>>]
        /\ answers = [s \in Ids |-> <<>>]
        /\ proc = [s \in Ids |-> "none"]
        /\ last = [s \in Ids |-> [request |-> "unset", integer |-> 0]]
        /\ values = [s \in Ids |-> <<>>]
        /\ mutable = [s \in Ids |-> TRUE]
        /\ signal = [s \in Ids |-> FALSE]
        /\ inherited = [s \in Ids |-> {}]
        /\ sent = [s \in Ids |-> <<>>]
        /\ toggled = [s \in Ids |-> FALSE]

-----------------------------------------------------------------------------
(* The coordinator.                                                         *)

Command == /\ coor = Ready
           /\ commands < MaxCommands
           /\ commands' = commands + 1

Launch ==
    /\ Command
    /\ globalId < MaxStorages
    /\ globalId' = globalId + 1
    /\ list' = Append(list, globalId)
    /\ proc' = [proc EXCEPT ![globalId] = "read"]
    /\ inherited' = [inherited EXCEPT ![globalId] = Listed]
    /\ UNCHANGED <<coor, requests, answers, last, values, mutable, signal, sent, toggled>>

(* store_handler: the request and its integer, in two writes.               *)
Store(s, v) ==
    /\ Command
    /\ s \in Listed
    /\ requests' = [requests EXCEPT ![s] = @ \o <<"s", v>>]
    /\ sent' = [sent EXCEPT ![s] = Append(@, v)]
    /\ UNCHANGED <<coor, list, globalId, answers, proc, last, values, mutable, signal,
                   inherited, toggled>>

\* Sends the request a second time.
Get_twice(s) ==
    /\ Command
    /\ s \in Listed
    /\ coor' = s
    /\ requests' = [requests EXCEPT ![s] = @ \o <<"g", "g">>]
    /\ UNCHANGED <<list, globalId, answers, proc, last, values, mutable, signal,
                   inherited, sent, toggled>>

(* get_handler writes the request, then waits for the size and the values.  *)
Get(s) ==
    /\ Command
    /\ s \in Listed
    /\ coor' = s
    /\ requests' = [requests EXCEPT ![s] = Append(@, "g")]
    /\ UNCHANGED <<list, globalId, answers, proc, last, values, mutable, signal,
                   inherited, sent, toggled>>

GetAnswer ==
    /\ coor \in Ids
    /\ answers[coor] # <<>>
    /\ answers' = [answers EXCEPT ![coor] = Tail(@)]
    /\ coor' = Ready
    /\ UNCHANGED <<list, globalId, requests, proc, last, values, mutable, signal,
                   inherited, commands, sent, toggled>>

Toggle(s) ==
    /\ Command
    /\ s \in Listed
    /\ signal' = [signal EXCEPT ![s] = TRUE]
    /\ toggled' = [toggled EXCEPT ![s] = TRUE]
    /\ UNCHANGED <<coor, list, globalId, requests, answers, proc, last, values, mutable,
                   inherited, sent>>

\* Takes the head of the list out, as if there were no previous node.
Unlinked_head(s) == Tail(list)

(* destroy_handler unlinks the storage, closes its pipes and kills it.      *)
Unlinked(s) == RemoveFirst(list, s)

Destroy(s) ==
    /\ Command
    /\ s \in Listed
    /\ list' = Unlinked(s)
    /\ proc' = [proc EXCEPT ![s] = "dead"]
    /\ UNCHANGED <<coor, globalId, requests, answers, last, values, mutable, signal,
                   inherited, sent, toggled>>

Killed(ss) == [t \in Ids |-> IF t \in ss THEN "dead" ELSE proc[t]]

(* exit_handler: every listed storage is sent 'e' and killed at once.       *)
Exit ==
    /\ coor = Ready
    /\ coor' = Exited
    /\ proc' = Killed(Listed)
    /\ UNCHANGED <<list, globalId, requests, answers, last, values, mutable, signal,
                   inherited, commands, sent, toggled>>

(* At the end of the input the coordinator returns from main and leaves the *)
(* storages behind.                                                         *)
EndOfInput ==
    /\ coor = Ready
    /\ coor' = Finished
    /\ UNCHANGED <<list, globalId, requests, answers, storageVars, mutable, signal,
                   inherited, commands, sent, toggled>>

-----------------------------------------------------------------------------
(* A storage.                                                               *)

(* Those that still hold the coordinator's ends of the pipes of s.          *)
Holders(s) == {t \in Up \ {s} : s \in inherited[t]}
\* Does not wait for a request.
Ended_empty(s) == requests[s] = <<>>

Ended(s) == requests[s] = <<>> /\ Holders(s) = {}
            /\ (coor \in {Exited, Finished} \/ s \notin Listed)

Handler(s) ==
    /\ s \in Up /\ signal[s]
    /\ signal' = [signal EXCEPT ![s] = FALSE]
    /\ mutable' = [mutable EXCEPT ![s] = ~@]
    /\ UNCHANGED <<coordinator, requests, answers, storageVars, inherited, sent, toggled>>

ReadRequest(s) ==
    /\ proc[s] = "read"
    /\ requests[s] # <<>>
    /\ requests' = [requests EXCEPT ![s] = Tail(@)]
    /\ last' = [last EXCEPT ![s].request = Head(requests[s])]
    /\ proc' = [proc EXCEPT ![s] = IF Head(requests[s]) = "s" THEN "integer" ELSE "answer"]
    /\ UNCHANGED <<coordinator, answers, values, mutable, signal, inherited, sent, toggled>>

ReadInteger(s) ==
    /\ proc[s] = "integer"
    /\ requests[s] # <<>>
    /\ requests' = [requests EXCEPT ![s] = Tail(@)]
    /\ last' = [last EXCEPT ![s].integer = Head(requests[s])]
    /\ proc' = [proc EXCEPT ![s] = "store"]
    /\ UNCHANGED <<coordinator, answers, values, mutable, signal, inherited, sent, toggled>>

\* Stores while the storage is immutable.
Keep_inverted(s) ==
    /\ proc[s] = "store"
    /\ proc' = [proc EXCEPT ![s] = IF Len(values[s]) >= MaxBuff THEN "overrun" ELSE "read"]
    /\ values' = IF mutable[s] \/ Len(values[s]) >= MaxBuff THEN values
                 ELSE [values EXCEPT ![s] = Append(@, last[s].integer)]
    /\ UNCHANGED <<coordinator, requests, answers, last, mutable, signal, inherited, sent, toggled>>

\* Waits with a value until the storage is mutable again.
Keep_waits(s) ==
    /\ proc[s] = "store" /\ mutable[s]
    /\ proc' = [proc EXCEPT ![s] = IF Len(values[s]) >= MaxBuff THEN "overrun" ELSE "read"]
    /\ values' = IF Len(values[s]) >= MaxBuff THEN values
                 ELSE [values EXCEPT ![s] = Append(@, last[s].integer)]
    /\ UNCHANGED <<coordinator, requests, answers, last, mutable, signal, inherited, sent, toggled>>

(* The array has no room behind MAX_BUFF values and the code does not look: *)
(* it writes over what lies behind the array.                               *)
Keep(s) ==
    /\ proc[s] = "store"
    /\ IF mutable[s] /\ Len(values[s]) >= MaxBuff
       THEN proc' = [proc EXCEPT ![s] = "overrun"] /\ UNCHANGED values
       ELSE /\ proc' = [proc EXCEPT ![s] = "read"]
            /\ values' = IF mutable[s]
                         THEN [values EXCEPT ![s] = Append(@, last[s].integer)]
                         ELSE values
    /\ UNCHANGED <<coordinator, requests, answers, last, mutable, signal, inherited, sent, toggled>>

\* Does not answer for an empty list.
Answer_empty(s) ==
    /\ proc[s] = "answer"
    /\ answers' = IF values[s] = <<>> THEN answers
                  ELSE [answers EXCEPT ![s] = Append(@, values[s])]
    /\ proc' = [proc EXCEPT ![s] = "read"]
    /\ UNCHANGED <<coordinator, requests, last, values, mutable, signal, inherited, sent, toggled>>

Answer(s) ==
    /\ proc[s] = "answer"
    /\ answers' = [answers EXCEPT ![s] = Append(@, values[s])]
    /\ proc' = [proc EXCEPT ![s] = "read"]
    /\ UNCHANGED <<coordinator, requests, last, values, mutable, signal, inherited, sent, toggled>>

(* After the end of the pipe read changes nothing, and the storage acts on  *)
(* its last request again and again: a store keeps the last integer once    *)
(* more, an answer has no reader left and kills it.                         *)
ReadNothing(s) ==
    /\ proc[s] = "read" /\ Ended(s)
    /\ proc' = [proc EXCEPT ![s] = CASE last[s].request = "s" -> "store"
                                     [] last[s].request = "g" -> "dead"
                                     [] OTHER -> "read"]
    /\ UNCHANGED <<coordinator, requests, answers, last, values, mutable, signal,
                   inherited, sent, toggled>>

Coordinate == \/ Launch \/ GetAnswer \/ Exit \/ EndOfInput
              \/ \E s \in Ids : Get(s) \/ Toggle(s) \/ Destroy(s)
              \/ \E s \in Ids, v \in Values : Store(s, v)
Work(s) == ReadRequest(s) \/ ReadInteger(s) \/ Keep(s) \/ Answer(s) \/ ReadNothing(s)

Next == Coordinate \/ \E s \in Ids : Work(s) \/ Handler(s)

(* A storage is a process the system schedules, and a signal is delivered;  *)
(* the coordinator reads the answer it waits for.                           *)
Fairness == /\ \A s \in Ids : WF_vars(Work(s)) /\ WF_vars(Handler(s))
            /\ WF_vars(GetAnswer)
Spec == Init /\ [][Next]_vars /\ Fairness

-----------------------------------------------------------------------------
TypeOK == /\ coor \in Ids \cup {Ready, Exited, Finished}
          /\ globalId \in 0 .. MaxStorages
          /\ \A s \in Ids : proc[s] \in {"none", "read", "integer", "store", "answer",
                                         "overrun", "dead"}
          /\ \A s \in Ids : values[s] \in Seq(Values) /\ Len(values[s]) <= MaxBuff
          /\ \A s \in Ids : Len(answers[s]) <= 1

(* While the coordinator runs, its list holds exactly the storages that     *)
(* run, in the order of their launch (launch, destroy and exit handlers).   *)
ListIsWhatRuns ==
    /\ coor \notin {Exited, Finished} => Listed = Up
    /\ coor = Exited => Up = {}
    /\ \A i, j \in DOMAIN list : i < j => list[i] < list[j]

IsSubSeq(a, b) ==
    \E places \in SUBSET DOMAIN b :
       /\ Cardinality(places) = Len(a)
       /\ \A i \in places : b[i] = a[Cardinality({j \in places : j <= i})]

(* A storage keeps values that were sent to it, in that order and each at   *)
(* most once, whatever signals come between, as long as its pipe is open.   *)
KeepsWhatWasSent ==
    \A s \in Ids : s \in Listed /\ coor \notin {Exited, Finished} => IsSubSeq(values[s], sent[s])

(* The coordinator's list and the storages' arrays at any moment.           *)
StoragesAreSound == TypeOK /\ ListIsWhatRuns /\ KeepsWhatWasSent

(* A GET prints every value stored before it in a storage that was never    *)
(* toggled: requests and answers do not overtake each other.                *)
GetSeesStores ==
    [][coor' = Ready /\ coor \in Ids /\ answers[coor] # <<>> /\ ~toggled[coor] =>
         Head(answers[coor]) = sent[coor] ]_vars

(* The requests in a pipe are worked off, and a GET comes back, while the   *)
(* storage is sound.                                                        *)
RequestsServed ==
    \A s \in Ids :
       /\ requests[s] # <<>> ~> requests[s] = <<>> \/ proc[s] \in {"dead", "overrun"}
       /\ coor = s ~> coor # s \/ proc[s] = "overrun"
=============================================================================
