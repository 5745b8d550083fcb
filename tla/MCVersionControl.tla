-------------------------- MODULE MCVersionControl --------------------------
(* A small instance of VersionControl: two paths and three contents, whose  *)
(* hashes do not meet and of which the second is cut short when it is       *)
(* copied, two branches, and one message, so that ids repeat.               *)
EXTENDS VersionControl, TLC

CONSTANTS file1, file2, master, topic, note, gone, delete

MCPaths == {file1, file2}
MCBase == [p \in MCPaths |-> p]
MCContents == {1, 2, 3}
MCNameSum == file1 :> 10 @@ file2 :> 20
MCContentSum == [c \in MCContents |-> c]
MCCopyOf == 1 :> 1 @@ 2 :> 1 @@ 3 :> 3
MCNames == {master, topic}
MCMessages == {note}

MCResolutions == {<<>>, file1 :> delete, file1 :> 2}

(* The working directory starts with both files.                            *)
MCInit == Init /\ work = file1 :> 1 @@ file2 :> 3
MCSpec == MCInit /\ [][Next]_vars
=============================================================================
