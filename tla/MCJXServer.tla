------------------------------ MODULE MCJXServer ------------------------------
(***************************************************************************)
(* JXServer with a few clients, each sending one of a few scripts.         *)
(***************************************************************************)
EXTENDS JXServer

CONSTANTS c1, c2, c3

Other    == [type |-> "other", empty |-> TRUE]
List(e)  == [type |-> "list", empty |-> e]
Shutdown == [type |-> "shutdown", empty |-> TRUE]
Echo(e)  == [type |-> "echo", empty |-> e]
Size(e)  == [type |-> "size", empty |-> FALSE, exists |-> e]

\* The first two ids differ in their first byte only.
Retrieve(id, target, compress) ==
  [type |-> "retrieve", empty |-> FALSE, exists |-> target # "missing",
   compress |-> compress, target |-> target,
   id |-> << << 0, 0, 0, 1 >>, << 1, 0, 0, 1 >>, << 0, 0, 0, 2 >> >>[id]]

\* Bytes out of step may end the connection or ask for a file.
MCGarbled == { Shutdown, Retrieve(1, "b", TRUE) }

MCUnsteady == {c3}

ThreeConns == {c1, c2, c3}

Clients(x, y, z) == (c1 :> x) @@ (c2 :> y) @@ (c3 :> z)

Small(id) == << Retrieve(id, "b", TRUE) >>

\* Transfers of one session and of several, with and without compression; the other
\* kinds of messages, a shutdown among them; and the unsteady client's messages
\* before each handler
MCScenarios ==
  { Clients(Small(1), << Retrieve(3, "b", FALSE), Retrieve(2, "b", TRUE) >>, << >>),
    Clients(<< Retrieve(1, "b", FALSE), Retrieve(1, "b", TRUE) >>, Small(2), << >>),
    Clients(<< List(FALSE), Size(TRUE), List(TRUE) >>,
            << Retrieve(3, "missing", TRUE), Echo(TRUE), Echo(FALSE) >>, << >>),
    Clients(<< Shutdown >>, << Size(FALSE) >>, << Other >>),
    Clients(<< Other >>, << >>, << Size(TRUE), Echo(FALSE) >>),
    Clients(Small(3), << >>, << Retrieve(2, "a", TRUE) >>) }
=============================================================================
