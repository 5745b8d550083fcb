------------------------------- MODULE JXServer -------------------------------
(***************************************************************************)
(* JXServer: main accepts connections and starts a thread for each, which  *)
(* serves one request after the other (server.c).  The threads share the   *)
(* array of running file transfers (helper_fun.c) and the process's table  *)
(* of file descriptors.                                                    *)
(*                                                                         *)
(* A thread talks to whatever connection its descriptor stands for at that *)
(* moment; a thread that sleeps in recv keeps the connection it had when   *)
(* it called recv.  The header and the payload of a message are read with  *)
(* one recv each, which may return a part of it; a send to a client that   *)
(* has gone may kill the process.  Critical sections of sessions->lock are *)
(* one action.                                                             *)
(***************************************************************************)
EXTENDS Integers, Sequences, SequencesExt, FiniteSets, FiniteSetsExt

CONSTANTS Conns,        \* the clients' connections; one thread serves each
          Descriptors,  \* file descriptors accept() may return
          Scenarios,    \* what each client sends, message by message
          Unsteady,     \* the connections on which recv may return a part of a message
                        \* and of which the client may go at any time
          Garbled,      \* what bytes out of step with the messages may be taken for
          NoConn

Messages == Garbled \cup UNION { Range(s[c]) : s \in Scenarios, c \in Conns }

ASSUME ServerAssumption ==
  /\ IsFiniteSet(Conns) /\ NoConn \notin Conns
  /\ IsFiniteSet(Descriptors) /\ Descriptors \subseteq Nat
  /\ Cardinality(Descriptors) >= Cardinality(Conns)
  /\ \A s \in Scenarios : DOMAIN s = Conns /\ \A c \in Conns : s[c] \in Seq(Messages)
  /\ \A m \in Messages :
       /\ m.type \in {"echo", "list", "size", "retrieve", "shutdown", "other"}
       /\ m.empty \in BOOLEAN
       /\ m.type \in {"size", "retrieve"} => m.exists \in BOOLEAN
       /\ m.type = "retrieve" => m.compress \in BOOLEAN

VARIABLES
  script,           \* what each client sends
  stream,           \* the messages on a connection that have not been read, of the
                    \* first one maybe only the payload
  torn,             \* connections on which a recv has returned a part of a message
  open,             \* the client has not closed its end
  answers,          \* what each client has received
  table,            \* the connection behind each descriptor
  new_socket, source, message, payloads,  \* each thread's client_data:
                    \* descriptor, connection recv was called on, the message
                    \* it serves, how often payload_msg has been reallocated
  requests,         \* sessions->requests[0 .. size-1]
  pc,
  killed,           \* the process has died
  kept, lost, stolen  \* history: transfers without compression; a removal has hit
                      \* another transfer's entry; a thread has closed another's
                      \* connection

client  == << script, open >>
history == << kept, lost, stolen >>
vars    == << client, stream, torn, answers, table, new_socket, source, message,
              payloads, requests, pc, killed, history >>

Init ==
  /\ script \in Scenarios
  /\ stream = [c \in Conns |-> << >>] /\ torn = {}
  /\ open = [c \in Conns |-> FALSE]
  /\ answers = [c \in Conns |-> << >>]
  /\ table = [d \in Descriptors |-> NoConn]
  /\ new_socket = [c \in Conns |-> Max(Descriptors)]
  /\ source = [c \in Conns |-> NoConn]
  /\ message = [c \in Conns |-> [n |-> 0, m |-> [type |-> "none"]]]
  /\ payloads = [c \in Conns |-> 0]
  /\ requests = << >>
  /\ pc = [c \in Conns |-> "none"] /\ killed = FALSE
  /\ kept = 0 /\ lost = FALSE /\ stolen = FALSE

-----------------------------------------------------------------------------
(* The clients                                                             *)

\* The others go when all they have sent has been read, or the server has closed.
CloseClient(c) ==
  /\ open[c]
  /\ c \in Unsteady \/ stream[c] = << >> \/ \A d \in Descriptors : table[d] # c
  /\ open' = [open EXCEPT ![c] = FALSE]
  /\ UNCHANGED << script, stream, torn, answers, table, new_socket, source, message,
                  payloads, requests, pc, killed, history >>

-----------------------------------------------------------------------------
(* main                                                                    *)

\* The number of descriptors in use.
FreeDescriptor_count == Cardinality({ d \in Descriptors : table[d] # NoConn })

\* accept() returns the lowest free descriptor.
FreeDescriptor == Min({ d \in Descriptors : table[d] = NoConn })

\* The client sends its messages without waiting for answers.
Accept(c) ==
  /\ pc[c] = "none"
  /\ \E d \in Descriptors : table[d] = NoConn
  /\ table' = [table EXCEPT ![FreeDescriptor] = c]
  /\ new_socket' = [new_socket EXCEPT ![c] = FreeDescriptor]
  /\ open' = [open EXCEPT ![c] = TRUE]
  /\ stream' = [stream EXCEPT ![c] =
       [n \in DOMAIN script[c] |-> [n |-> n, m |-> script[c][n], rest |-> "all"]]]
  /\ pc' = [pc EXCEPT ![c] = "read"]
  /\ UNCHANGED << script, torn, answers, source, message, payloads, requests, killed,
                  history >>

-----------------------------------------------------------------------------
(* connection_handler                                                      *)

Goto(c, where) == pc' = [pc EXCEPT ![c] = where]

\* The response to message n of kind "kind" goes to whoever is behind the descriptor.
\* Nobody asks for MSG_NOSIGNAL or ignores SIGPIPE: one more send to a client that
\* has gone ends the process.
Answer(c, n, kind) ==
  LET p == table[new_socket[c]]
  IN  \/ /\ p = NoConn
         /\ UNCHANGED << answers, killed >>
      \/ /\ p # NoConn /\ open[p]
         /\ answers' = [answers EXCEPT ![p] = Append(@, << c, n, kind >>)]
         /\ killed' = killed
      \/ /\ p # NoConn /\ ~open[p]
         /\ answers' = answers
         /\ killed' \in BOOLEAN

\* Closes the descriptor, whoever is behind it.
Close(c) ==
  /\ table' = [table EXCEPT ![new_socket[c]] = NoConn]
  /\ stolen' = (stolen \/ table[new_socket[c]] \notin {c, NoConn})

CallRecv(c) ==
  /\ pc[c] = "read"
  /\ source' = [source EXCEPT ![c] = table[new_socket[c]]]
  /\ Goto(c, "recv")
  /\ UNCHANGED << client, stream, torn, answers, table, new_socket, message, payloads,
                  requests, killed, history >>

\* recv fails on a closed descriptor, and on a connection the client has reset, what
\* is left of it or not.
ReceiveEnd(c) ==
  /\ pc[c] = "recv"
  /\ source[c] # NoConn => ~open[source[c]]
  /\ Goto(c, "free")
  /\ UNCHANGED << client, stream, torn, answers, table, new_socket, source, message,
                  payloads, requests, killed, history >>

HasPayload(m) == ~m.empty

\* recv has returned the nine bytes of a header.
HeaderWhole(c) ==
  LET p     == source[c]
      first == Head(stream[p])
  IN  /\ p \notin torn /\ first.rest = "all"
      /\ message' = [message EXCEPT ![c] = [n |-> first.n, m |-> first.m]]
      /\ stream' = [stream EXCEPT ![p] =
           IF HasPayload(first.m) THEN << [first EXCEPT !.rest = "payload"] >> \o Tail(@)
           ELSE Tail(@)]
      /\ torn' = torn

\* What is left on a connection after one more recv out of step: each message that
\* had not been read by the first one makes one piece.
LeftOut(p) == [stream EXCEPT ![p] = IF p \in torn /\ @ # << >> THEN Tail(@) ELSE @]

\* recv has returned fewer bytes, or nine that are no header.  The first time the
\* first byte is still that of the message, with its type.
HeaderBroken(c) ==
  LET p     == source[c]
      first == Head(stream[p])
  IN  /\ p \in Unsteady \cup torn \/ first.rest = "payload"
      /\ \E g \in Garbled \cup {first.m} :
           /\ p \notin torn /\ first.rest = "all" => g.type = first.m.type
           /\ message' = [message EXCEPT ![c] = [n |-> 0, m |-> g]]
      /\ stream' = LeftOut(p)
      /\ torn' = torn \cup {p}

\* check_valid_request has taken what it got for a header of one of the types.
ReceiveHeader(c, types) ==
  /\ pc[c] = "recv" /\ source[c] # NoConn /\ stream[source[c]] # << >>
  /\ HeaderWhole(c) \/ HeaderBroken(c)
  /\ message'[c].m.type \in types

\* error_response closes the socket, as a line that is commented out does.
AfterError_close(c) == Close(c)

AfterError(c) == UNCHANGED << table, stolen >>

ReceiveInvalid(c) ==
  /\ ReceiveHeader(c, {"other"})
  /\ Answer(c, message'[c].n, "error")
  /\ AfterError(c)
  /\ Goto(c, "free")
  /\ UNCHANGED << client, new_socket, source, payloads, requests, kept, lost >>

\* The descriptor is closed here and again in free_data.
ReceiveShutdown(c) ==
  /\ ReceiveHeader(c, {"shutdown"})
  /\ Close(c)
  /\ Goto(c, "free")
  /\ UNCHANGED << client, answers, new_socket, source, payloads, requests, killed, kept,
                  lost >>

\* The list goes out before the payload is asked for.
ReceiveList(c) ==
  /\ ReceiveHeader(c, {"list"})
  /\ Answer(c, message'[c].n, "list")
  /\ Goto(c, "payload")
  /\ UNCHANGED << client, table, new_socket, source, payloads, requests, history >>

ReceiveRequest(c) ==
  /\ ReceiveHeader(c, {"echo", "size", "retrieve"})
  /\ Goto(c, "payload")
  /\ UNCHANGED << client, answers, table, new_socket, source, payloads, requests, killed,
                  history >>

Reallocated(c) == [payloads EXCEPT ![c] = @ + 1]

CallRecvPayload(c) ==
  /\ pc[c] = "payload"
  /\ source' = [source EXCEPT ![c] = table[new_socket[c]]]
  /\ payloads' = Reallocated(c)
  /\ Goto(c, "body")
  /\ UNCHANGED << client, stream, torn, answers, table, new_socket, message, requests,
                  killed, history >>

\* Goes on with the next message.
AfterEmpty_on == "read"

AfterEmpty == "free"

\* recv returns 0: no bytes were asked for, or the client has gone.
PayloadNone(c) ==
  /\ pc[c] = "body" /\ source[c] # NoConn
  /\ ~HasPayload(message[c].m) \/ (stream[source[c]] = << >> /\ ~open[source[c]])
  /\ Goto(c, AfterEmpty)
  /\ UNCHANGED << client, stream, torn, answers, table, new_socket, source, message,
                  payloads, requests, killed, history >>

PayloadOf(c) == [n |-> message[c].n, m |-> message[c].m, rest |-> "payload"]

PayloadWhole(c) ==
  LET p == source[c]
  IN  /\ p # NoConn /\ p \notin torn /\ stream[p] # << >>
      /\ Head(stream[p]) = PayloadOf(c)
      /\ stream' = [stream EXCEPT ![p] = Tail(@)]
      /\ UNCHANGED << message, torn >>

\* A part of the payload has come, or other bytes, or none because recv has failed:
\* only the type is still that of the message.
PayloadBroken(c) ==
  LET p == source[c]
  IN  /\ \/ p = NoConn /\ UNCHANGED << stream, torn >>
         \/ /\ p # NoConn /\ HasPayload(message[c].m)
            /\ \/ p \in torn \/ ~open[p]
               \/ stream[p] # << >> /\ (p \in Unsteady \/ Head(stream[p]) # PayloadOf(c))
            /\ stream' = LeftOut(p)
            /\ torn' = torn \cup {p}
      /\ \E g \in Garbled \cup {message[c].m} :
           /\ g.type = message[c].m.type
           /\ message' = [message EXCEPT ![c].m = g]

\* recv has returned something else than 0, and the handler of the type is called.
ReceivePayload(c, types) ==
  /\ pc[c] = "body" /\ message[c].m.type \in types
  /\ PayloadWhole(c) \/ PayloadBroken(c)

\* No handler follows the list.
ServeNothing(c) ==
  /\ ReceivePayload(c, {"list"})
  /\ Goto(c, "read")
  /\ UNCHANGED << client, answers, table, new_socket, source, payloads, requests, killed,
                  history >>

\* The same payload comes back; compressing it changes only its bytes.
ReceiveEcho(c) ==
  /\ ReceivePayload(c, {"echo"})
  /\ Answer(c, message'[c].n, "echo")
  /\ Goto(c, "read")
  /\ UNCHANGED << client, table, new_socket, source, payloads, requests, history >>

\* check_regular_file answers an error for a file that is not in the directory.
ReceiveSize(c) ==
  /\ ReceivePayload(c, {"size"})
  /\ Answer(c, message'[c].n, IF message'[c].m.exists THEN "size" ELSE "error")
  /\ Goto(c, "read")
  /\ UNCHANGED << client, table, new_socket, source, payloads, requests, history >>

\* No such file, or a range beyond its end
ReceiveRefused(c) ==
  /\ ReceivePayload(c, {"retrieve"})
  /\ ~message'[c].m.exists
  /\ Answer(c, message'[c].n, "error")
  /\ Goto(c, "read")
  /\ UNCHANGED << client, table, new_socket, source, payloads, requests, history >>

ReceiveRetrieve(c) ==
  /\ ReceivePayload(c, {"retrieve"})
  /\ message'[c].m.exists
  /\ Goto(c, "check")
  /\ UNCHANGED << client, answers, table, new_socket, source, payloads, requests, killed,
                  history >>

\* A length out of step is one realloc refuses, and a handler reads past a payload of
\* which a part is missing.
Crash(c) ==
  /\ pc[c] = "body" /\ PayloadBroken(c)
  /\ killed' = TRUE
  /\ UNCHANGED << client, answers, table, new_socket, source, payloads, requests, pc,
                  history >>

\* The loop goes on.
AfterFree_loop == "read"

AfterFree == "ended"

\* free_data, and the return from the thread
FreeData(c) ==
  /\ pc[c] = "free"
  /\ Close(c)
  /\ Goto(c, AfterFree)
  /\ UNCHANGED << client, stream, torn, answers, new_socket, source, message, payloads,
                  requests, killed, kept, lost >>

-----------------------------------------------------------------------------
(* check_sessions, the response, remove_session                            *)

\* parse() of the four bytes of a session id: the first one is never looked at.
Parse(id) == << id[2], id[3], id[4] >>

Mine(c) == [id |-> Parse(message[c].m.id), target |-> message[c].m.target,
            name |-> << c, payloads[c] >>, compress |-> message[c].m.compress]

\* The file name of an entry is a pointer into the payload of the message that made
\* it.  Without compression that buffer is reallocated for the connection's
\* next message, and freed with the connection.
IsStale(entry) ==
  /\ ~entry.compress
  /\ \/ payloads[entry.name[1]] # entry.name[2]
     \/ pc[entry.name[1]] = "ended"

\* Looks at the last entry only.
Known_last(c) ==
  { i \in DOMAIN requests : i = Len(requests) /\ requests[i].id = Mine(c).id }

\* the entries with this session id
Known(c) == { i \in DOMAIN requests : requests[i].id = Mine(c).id }

\* What the comparison of file and range may say; a stale name reads as anything.
Verdicts(c, entry) ==
  IF IsStale(entry) THEN {"empty", "error"}
  ELSE IF entry.target = Mine(c).target THEN {"empty"} ELSE {"error"}

CheckKnown(c) ==
  /\ pc[c] = "check"
  /\ Known(c) # {}
  /\ \E kind \in Verdicts(c, requests[Min(Known(c))]) : Answer(c, message[c].n, kind)
  /\ Goto(c, "read")
  /\ UNCHANGED << client, stream, torn, table, new_socket, source, message, payloads,
                  requests, history >>

CheckNew(c) ==
  /\ pc[c] = "check"
  /\ Known(c) = {}
  /\ requests' = Append(requests, Mine(c))
  /\ kept' = kept + (IF Mine(c).compress THEN 0 ELSE 1)
  /\ Goto(c, "send")
  /\ UNCHANGED << client, stream, torn, answers, table, new_socket, source, message,
                  payloads, killed, lost, stolen >>

SendData(c) ==
  /\ pc[c] = "send"
  /\ Answer(c, message[c].n, "data")
  /\ Goto(c, IF Mine(c).compress THEN "remove" ELSE "read")
  /\ UNCHANGED << client, stream, torn, table, new_socket, source, message, payloads,
                  requests, history >>

\* May the loop of remove_session find an entry of this transfer?
Finds(c) ==
  LET same == { i \in Known(c) : ~IsStale(requests[i]) /\ requests[i].target = Mine(c).target }
  IN  IF same # {} THEN {TRUE}
      ELSE { FALSE } \cup { TRUE : i \in { j \in Known(c) : IsStale(requests[j]) } }

\* Leaves the count alone when the entry is not there any more.
Remaining_found(c, found) == IF found THEN Front(requests) ELSE requests

\* The last entry is overwritten with the one that should go, and size counts down
\* in any case.
Remaining(c, found) ==
  Front(IF found THEN [requests EXCEPT ![Len(requests)] = Mine(c)] ELSE requests)

RemoveSession(c) ==
  /\ pc[c] = "remove"
  /\ \E found \in Finds(c) : requests' = Remaining(c, found)
  /\ lost' = (lost \/ Last(requests).name # Mine(c).name)
  /\ Goto(c, "read")
  /\ UNCHANGED << client, stream, torn, answers, table, new_socket, source, message,
                  payloads, killed, kept, stolen >>

Thread(c) == \/ CallRecv(c) \/ ReceiveEnd(c) \/ ReceiveInvalid(c)
             \/ ReceiveShutdown(c) \/ ReceiveList(c) \/ ReceiveRequest(c)
             \/ CallRecvPayload(c) \/ PayloadNone(c) \/ ServeNothing(c)
             \/ ReceiveEcho(c) \/ ReceiveSize(c) \/ ReceiveRefused(c)
             \/ ReceiveRetrieve(c) \/ Crash(c) \/ FreeData(c)
             \/ CheckKnown(c) \/ CheckNew(c) \/ SendData(c) \/ RemoveSession(c)

\* main sleeps in accept for ever, or the process is dead.
Quiet == /\ killed \/ \A c \in Conns : pc[c] = "ended" /\ ~open[c]
         /\ UNCHANGED vars

Step(c) == ~killed /\ (Accept(c) \/ CloseClient(c) \/ Thread(c))

Next == Quiet \/ \E c \in Conns : Step(c)

\* Clients connect, and close their connections in the end; threads run.
Spec == /\ Init /\ [][Next]_vars
        /\ \A c \in Conns : /\ WF_vars(~killed /\ (Accept(c) \/ CloseClient(c)))
                           /\ WF_vars(~killed /\ Thread(c))

-----------------------------------------------------------------------------
(* Properties                                                              *)

\* The variables have the types of struct client_data, struct session and the
\* kernel's table; two descriptors never stand for one connection.
TypeOK ==
  /\ table \in [Descriptors -> Conns \cup {NoConn}]
  /\ \A d, e \in Descriptors : table[d] = table[e] => d = e \/ table[d] = NoConn
  /\ new_socket \in [Conns -> Descriptors]
  /\ source \in [Conns -> Conns \cup {NoConn}]
  /\ pc \in [Conns -> {"none", "read", "recv", "payload", "body", "check", "send",
                       "remove", "free", "ended"}]
  /\ torn \subseteq Conns /\ killed \in BOOLEAN

Transferring(c) == pc[c] \in {"send", "remove"}

\* Whatever entry a removal hits, sessions->size stays the number of transfers with
\* compression that run and of those without that have ever been: it never goes
\* below zero, where the loops of check_sessions would leave the array.
SizeCountsTransfers ==
  Len(requests) = kept + Cardinality({ c \in Conns :
                           Transferring(c) /\ message[c].m.compress })

\* The shared array and the kernel's table stay sound for every thread.
SessionsAreCounted == TypeOK /\ SizeCountsTransfers

\* README: of several concurrent requests with the same session id "only one
\* connection can get the response".  It holds until a removal has dropped another
\* transfer's entry.
OneTransferPerSession ==
  ~lost => \A c, d \in Conns :
    Transferring(c) /\ Transferring(d) /\ Mine(c).id = Mine(d).id => c = d

\* May request o of the same session, as one that is in the array, make
\* check_sessions answer m with "kind"?  The name in an entry made without
\* compression may have become anything.
Explains(o, m, kind) ==
  /\ o.type = "retrieve" /\ o.exists /\ Parse(o.id) = Parse(m.id)
  /\ o.compress => kind = IF o.target = m.target THEN "empty" ELSE "error"

\* A transfer is refused or left out because of another client's request of its
\* session or an earlier one of its own, unless one that nobody sent has got in.
Refusals(c, i) ==
  { kind \in {"empty", "error"} :
      \/ torn # {}
      \/ \E d \in Conns : \E j \in DOMAIN script[d] :
           (d # c \/ j < i) /\ Explains(script[d][j], script[c][i], kind) }

Expected(c, i) ==
  LET m == script[c][i]
  IN  CASE m.type = "retrieve" /\ m.exists -> {"data"} \cup Refusals(c, i)
        [] m.type = "retrieve" /\ ~m.exists -> {"error"}
        [] m.type = "other" -> {"error"}
        [] m.type = "size" -> {IF m.exists THEN "size" ELSE "error"}
        [] m.type \in {"echo", "list"} -> {m.type}
        [] m.type = "shutdown" -> {}

\* On every connection of which each message was read whole the answers are those of
\* its own messages, in their order and without a gap, and a file is held back only
\* for the sake of another request of the session, as long as no thread has closed
\* another's connection; only a shutdown message, or a message that was not read
\* whole, makes a thread do that.
AnswersInOrder ==
  IF stolen
  THEN torn # {} \/ \E c \in Conns : \E i \in DOMAIN script[c] : script[c][i].type = "shutdown"
  ELSE \A c \in Conns \ torn : \A i \in DOMAIN answers[c] :
         /\ answers[c][i][1] = c /\ answers[c][i][2] = i
         /\ i \in DOMAIN script[c] /\ answers[c][i][3] \in Expected(c, i)

\* Every thread ends when the clients have closed their connections, even one whose
\* connection has been closed under it, unless the whole process dies first.
ThreadsEnd == <>(killed \/ \A c \in Conns : pc[c] = "ended")

\* Comment of remove_session, "Remove spcific session after job finish": what is
\* gone afterwards is the entry of this transfer and nothing else.
RemovesItsSession ==
  [][\A c \in Conns : pc[c] = "remove" /\ pc'[c] = "read" =>
       Range(requests') = Range(requests) \ {Mine(c)}]_vars
=============================================================================
