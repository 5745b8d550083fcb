--------------------------- MODULE VersionControl ---------------------------
(***************************************************************************)
(* The version control library (svc.c, file_processor.c): one working      *)
(* directory, branches that each keep a list of files with flags and a     *)
(* commit history, and commits that keep copies of the files they track.   *)
(* One action per library call, and one for the user who edits files.      *)
(*                                                                         *)
(* Calls that return an error without changing anything are stuttering     *)
(* steps and are left out; a call that changes something before it fails   *)
(* is not.  A commit is shared by the histories that hold it, as its       *)
(* arrays are in the code, so changing one through a merge changes all.    *)
(* The library keeps no locks and no files of its own beyond the copies.   *)
(***************************************************************************)
EXTENDS Integers, SequencesExt

CONSTANTS Paths,        \* file paths
          Base,           \* the last component of each path
          Contents,     \* file contents
          NameSum,        \* the part of the hash a path contributes
          ContentSum,     \* the part a content contributes: the sum of its bytes
          CopyOf,         \* what copy_file_content writes for a content: it reads into a
                          \* char, and takes the byte 0xFF for the end of the file
          Names,        \* branch names; Master is the first branch's
          Master,
          Messages,     \* commit messages
          Gone,         \* the content of a path that has no file
          Delete,       \* a resolution whose resolved_file is NULL
          Resolutions,  \* the arrays of resolutions a merge is given
          MaxCommits,   \* bound: no commit is attempted beyond this many
          MaxEdits,     \* bound: how often the user touches a file
          MaxCalls      \* bound: the calls of one run

VARIABLES work,         \* work[p]: the content of the file at p, or Gone
          branches,     \* the branch_list, in order of creation
          current,      \* current_position, counted from 1
          commits,      \* every commit ever made, by number
          edits,        \* how often the user has touched a file
          calls,        \* how many steps the run has taken
          health        \* "sound"; "strayed" after a reset to a commit that was
                        \* found on another branch; "confused" after a merge gave
                        \* an entry of a commit another file's name or left two
                        \* entries for a file; "undefined" after the use of
                        \* memory that is no commit or no name; "exited" after a
                        \* copy that could not be written has ended the program

vars == <<work, branches, current, commits, edits, calls, health>>

ASSUME PathsAssumption == Paths # {} /\ Gone \notin Contents /\ Delete \notin Contents
ASSUME SumsAssumption == /\ NameSum \in [Paths -> Nat]
                         /\ ContentSum \in [Contents -> Nat]
ASSUME CopyAssumption == /\ CopyOf \in [Contents -> Contents]
                         /\ \A c \in Contents : CopyOf[CopyOf[c]] = CopyOf[c]
ASSUME NamesAssumption == IsFiniteSet(Names) /\ Master \in Names
ASSUME ResolutionsAssumption ==
    \A res \in Resolutions : \A p \in DOMAIN res : res[p] \in Contents \cup {Delete}
ASSUME BoundAssumption == {MaxCommits, MaxEdits, MaxCalls} \subseteq Nat

-----------------------------------------------------------------------------
(* Files. An entry is one svc_file: own is the branch whose file list owns  *)
(* the memory of the entry's name, 0 once that name has been freed.         *)

Entry == [name : Paths, own : 0 .. Cardinality(Names), hash : Int,
          added : BOOLEAN, staged : BOOLEAN, removed : BOOLEAN]

Hash(w, p) == IF w[p] = Gone THEN -2 ELSE NameSum[p] + ContentSum[w[p]]

Flags(f, a, s, r) == [f EXCEPT !.added = a, !.staged = s, !.removed = r]

NewFile(p, b) == [name |-> p, own |-> b, hash |-> Hash(work, p),
                  added |-> TRUE, staged |-> TRUE, removed |-> FALSE]

\* The entries of a list that are in S, in their order.
Picked(es, S) == FoldLeft(LAMBDA out, e : IF e \in S THEN Append(out, e) ELSE out, <<>>, es)

Here == branches[current]
\* Lists only the files that are tracked.
Listed_tracked(b) == {b.files[i].name : i \in {k \in DOMAIN b.files : b.files[k].added}}

Listed(b) == {b.files[i].name : i \in DOMAIN b.files}
Staged(b) == \E i \in DOMAIN b.files : b.files[i].staged
Exists(nm) == \E i \in DOMAIN branches : branches[i].name = nm
BranchOf(nm) == CHOOSE i \in DOMAIN branches : branches[i].name = nm
SetFiles(fs) == branches' = [branches EXCEPT ![current].files = fs]

Distinct(es) == \A i, j \in DOMAIN es : i # j => es[i].name # es[j].name

Saved(c) == c.added \o c.modified \o c.tracked      \* the files a commit tracks
Entries(c) == Saved(c) \o c.removed
Tracked(c) == {Saved(c)[i].name : i \in DOMAIN Saved(c)}
Dangling(es) == \E i \in DOMAIN es : es[i].own = 0
HeadOf(b) == commits[b.hist[b.n]]

-----------------------------------------------------------------------------
Init == /\ work \in [Paths -> Contents \cup {Gone}]
        /\ branches = <<[name |-> Master, files |-> <<>>, hist |-> <<>>, n |-> 0]>>
        /\ current = 1
        /\ commits = <<>>
        /\ edits = 0
        /\ calls = 0
        /\ health = "sound"

(* The user changes, creates or deletes a file.                             *)
Edit(p) == /\ edits < MaxEdits
           /\ edits' = edits + 1
           /\ \E c \in (Contents \cup {Gone}) \ {work[p]} : work' = [work EXCEPT ![p] = c]
           /\ UNCHANGED <<branches, current, commits, health>>

(* svc_add on an entry of the list: a file that is no longer tracked is     *)
(* tracked again. A tracked or a missing file is an error.                  *)
ReAdd(f) == IF work[f.name] # Gone /\ ~f.added
            THEN [Flags(f, TRUE, TRUE, FALSE) EXCEPT !.hash = Hash(work, f.name)]
            ELSE f

Add(p) == /\ work[p] # Gone
          /\ IF p \in Listed(Here)
             THEN SetFiles([i \in DOMAIN Here.files |->
                     IF Here.files[i].name = p THEN ReAdd(Here.files[i]) ELSE Here.files[i]])
             ELSE SetFiles(Append(Here.files, NewFile(p, current)))
          /\ UNCHANGED <<work, current, commits, edits, health>>

Untracked(f) == IF f.added /\ ~f.removed THEN Flags(f, FALSE, FALSE, TRUE) ELSE f

Rm(p) == /\ work[p] # Gone
         /\ p \in Listed(Here)
         /\ SetFiles([i \in DOMAIN Here.files |->
               IF Here.files[i].name = p THEN Untracked(Here.files[i]) ELSE Here.files[i]])
         /\ UNCHANGED <<work, current, commits, edits, health>>

-----------------------------------------------------------------------------
(* A commit.                                                                *)

Change(w, f) ==       \* the list of the new commit that f belongs to, if any
    CASE w[f.name] = Gone -> IF ~f.staged /\ f.added THEN "removed" ELSE "forgotten"
      [] w[f.name] # Gone /\ f.added /\ f.staged -> "added"
      [] w[f.name] # Gone /\ f.added /\ ~f.staged /\ ~f.removed ->
            IF Hash(w, f.name) # f.hash THEN "modified" ELSE "tracked"
      [] w[f.name] # Gone /\ ~f.added /\ f.removed -> "removed"
      [] OTHER -> "none"

\* Keeps the hash a file had when it was added.
Recorded_hash(w, f) ==
    CASE Change(w, f) \in {"removed", "forgotten"} -> Flags(f, FALSE, FALSE, FALSE)
      [] Change(w, f) = "added" -> [f EXCEPT !.staged = FALSE]
      [] Change(w, f) = "modified" -> [f EXCEPT !.hash = Hash(w, f.name)]
      [] OTHER -> f

Recorded(w, f) ==     \* the entry of f after the commit has looked at it
    CASE Change(w, f) = "removed" -> [Flags(f, FALSE, FALSE, FALSE) EXCEPT !.hash = Hash(w, f.name)]
      [] Change(w, f) = "forgotten" -> Flags(f, FALSE, FALSE, FALSE)
      [] Change(w, f) = "added" -> [f EXCEPT !.staged = FALSE, !.hash = Hash(w, f.name)]
      [] Change(w, f) = "modified" -> [f EXCEPT !.hash = Hash(w, f.name)]
      [] OTHER -> f

RecordedAll(w, fs) == [i \in DOMAIN fs |-> Recorded(w, fs[i])]

Changed(w, fs, kind) ==
    LET picked == Picked(fs, {f \in ToSet(fs) : Change(w, f) = kind})
    IN  [i \in DOMAIN picked |-> Recorded(w, picked[i])]

Valid(w, fs) == \E i \in DOMAIN fs : Change(w, fs[i]) \in {"added", "removed", "modified"}

(* The copies are stored under the base name, tracked files first, then     *)
(* added and modified ones: of two paths with one base name the last stays. *)
(* The files are there (Change), but a copy may be shorter than its file.   *)
Copies(w, c) ==
    LET order == c.tracked \o c.added \o c.modified
        At(n) == {i \in DOMAIN order : Base[order[i].name] = n}
    IN  [n \in {Base[order[i].name] : i \in DOMAIN order} |-> CopyOf[w[order[Max(At(n))].name]]]

(* The id is computed from the message and the sorted names of the changed  *)
(* files, each with the kind of its change: nothing else tells ids apart.   *)
CommitId(m, c) ==
    <<m, UNION {{<<kind, c[kind][i].name>> : i \in DOMAIN c[kind]} :
                    kind \in {"added", "removed", "modified"}}>>

NewCommit(m, w, fs, parents) ==
    LET lists == [kind \in {"added", "removed", "modified", "tracked"} |-> Changed(w, fs, kind)]
    IN  [id |-> CommitId(m, lists), dir |-> Copies(w, lists), parents |-> parents,
         added |-> lists.added, removed |-> lists.removed,
         modified |-> lists.modified, tracked |-> lists.tracked]

(* The new commit goes behind the n commits that the branch has; what the   *)
(* array held behind them (after a reset) is lost.                          *)
Extended(b, fs) ==
    [b EXCEPT !.files = fs, !.hist = Append(SubSeq(b.hist, 1, b.n), Len(commits) + 1),
              !.n = b.n + 1]

\* Takes the end of the array for the last commit.
Parents_array(b) == IF b.n >= 1 THEN <<b.hist[Len(b.hist)]>> ELSE <<>>

(* add_parent: the last commit of the branch, if it has one. A first commit *)
(* that removes a file counts one parent, which is NULL.                    *)
Parents(b) == IF b.n >= 1 THEN <<b.hist[b.n]>>
              ELSE IF Changed(work, b.files, "removed") # <<>> THEN <<0>> ELSE <<>>

Commit(m) ==
    /\ Len(commits) < MaxCommits
    /\ LET fs == RecordedAll(work, Here.files)
       IN  IF Valid(work, Here.files)
           THEN /\ commits' = Append(commits, NewCommit(m, work, Here.files, Parents(Here)))
                /\ branches' = [branches EXCEPT ![current] = Extended(Here, fs)]
           ELSE SetFiles(fs) /\ UNCHANGED commits
    /\ UNCHANGED <<work, current, edits, health>>

-----------------------------------------------------------------------------
(* Branches. With no commit there is no last commit to copy or to restore:  *)
(* the code reads in front of an array that does not exist.                 *)

Copied(nm) ==
    [name |-> nm, n |-> 1, hist |-> <<Here.hist[Here.n]>>,
     files |-> [i \in DOMAIN Here.files |-> [Here.files[i] EXCEPT !.own = Len(branches) + 1]]]

Branch(nm) ==
    /\ ~Exists(nm)
    /\ ~Staged(Here)
    /\ IF Here.n = 0
       THEN health' = "undefined" /\ UNCHANGED branches
       ELSE branches' = Append(branches, Copied(nm)) /\ UNCHANGED health
    /\ UNCHANGED <<work, current, commits, edits>>

(* undo_file_changes on one entry. A file whose content differs from the    *)
(* commit's gets the content back, but keeps its flags; a file that is as   *)
(* the commit saved it gets the commit's flags.                             *)
EntryOf(c, p) == LET es == Saved(c) IN es[CHOOSE i \in DOMAIN es : es[i].name = p]
\* Compares the hash in the list, which the user's edits do not change.
Differs_listed(w, f, c) == f.hash # EntryOf(c, f.name).hash

Differs(w, f, c) == Hash(w, f.name) # EntryOf(c, f.name).hash

Restored(w, f, c) ==
    IF f.name \in Tracked(c) /\ Differs(w, f, c) THEN CopyOf[c.dir[Base[f.name]]] ELSE w[f.name]

\* Leaves a file tracked that the commit does not track.
Undone_kept(w, f, c) == [f EXCEPT !.hash = Hash([w EXCEPT ![f.name] = Restored(w, f, c)], f.name)]

Undone(w, f, c) ==
    LET g == IF f.name \notin Tracked(c) THEN Flags(f, FALSE, FALSE, TRUE)
             ELSE IF Differs(w, f, c) THEN f
             ELSE LET e == EntryOf(c, f.name) IN Flags(f, e.added, e.staged, e.removed)
    IN  [g EXCEPT !.hash = Hash([w EXCEPT ![f.name] = Restored(w, f, c)], f.name)]

Undo(fs, c) ==
    work' = [p \in Paths |->
               IF \E i \in DOMAIN fs : fs[i].name = p
               THEN Restored(work, fs[CHOOSE i \in DOMAIN fs : fs[i].name = p], c)
               ELSE work[p]]

UndoneAll(fs, c) == [i \in DOMAIN fs |-> Undone(work, fs[i], c)]

(* The file k is missing, and its directory may be too: then it cannot be   *)
(* written and the program exits, with the files before it restored.        *)
UndoFails(fs, c) ==
    \E k \in DOMAIN fs :
       /\ work[fs[k].name] = Gone /\ fs[k].name \in Tracked(c)
       /\ Undo(SubSeq(fs, 1, k - 1), c)
       /\ health' = "exited"
       /\ UNCHANGED branches

Checkout(nm) ==
    /\ Exists(nm)
    /\ ~Staged(Here)
    /\ current' = BranchOf(nm)
    /\ LET b == branches[current'] IN
       IF b.files = <<>> THEN UNCHANGED <<work, branches, health>>
       ELSE IF b.n = 0 \/ Dangling(Saved(HeadOf(b)))
       THEN health' = "undefined" /\ UNCHANGED <<work, branches>>
       ELSE \/ /\ Undo(b.files, HeadOf(b))
               /\ branches' = [branches EXCEPT ![current'].files = UndoneAll(b.files, HeadOf(b))]
               /\ UNCHANGED health
            \/ UndoFails(b.files, HeadOf(b))
    /\ UNCHANGED <<commits, edits>>

(* svc_reset looks for the id in every branch, in order of creation. It     *)
(* restores the current branch's files and cuts two histories at the        *)
(* index: that of the branch the commit was found on, and the current one.  *)
Places(id) == {x \in (DOMAIN branches) \X (1 .. MaxCommits) :
                  x[2] <= branches[x[1]].n /\ commits[branches[x[1]].hist[x[2]]].id = id}
First(ps) == CHOOSE x \in ps : \A y \in ps : x[1] < y[1] \/ (x[1] = y[1] /\ x[2] <= y[2])

Cut(i, j) == [k \in DOMAIN branches |->
                 IF k \in {i, current} THEN [branches[k] EXCEPT !.n = j] ELSE branches[k]]

HealthAfter(i, j) == IF j > Len(Here.hist) THEN "undefined"
                     ELSE IF i # current /\ health = "sound" THEN "strayed" ELSE health

Reset(id) ==
    /\ Places(id) # {}
    /\ LET i == First(Places(id))[1]
           j == First(Places(id))[2]
           c == commits[branches[i].hist[j]]
       IN  IF Dangling(Saved(c)) /\ Here.files # <<>>
           THEN health' = "undefined" /\ UNCHANGED <<work, branches>>
           ELSE \/ /\ Undo(Here.files, c)
                   /\ branches' = [Cut(i, j) EXCEPT ![current].files = UndoneAll(Here.files, c)]
                   /\ health' = HealthAfter(i, j)
                \/ UndoFails(Here.files, c)
    /\ UNCHANGED <<current, commits, edits>>

-----------------------------------------------------------------------------
(* Merging. A resolution is a function on some paths: the content of the    *)
(* resolved file, or Delete.                                                *)

(* check_changes_tracked_file asks svc_add about each file: it stops at a   *)
(* tracked file that is missing, after adding again the untracked files it  *)
(* met on the way. A file that is there is never found to be modified.      *)
Missing(f) == work[f.name] = Gone /\ f.added
Unclean(fs) == \E i \in DOMAIN fs : Missing(fs[i])
Asked(fs) == LET stop == CHOOSE i \in DOMAIN fs :
                            Missing(fs[i]) /\ \A j \in 1 .. i - 1 : ~Missing(fs[j])
             IN  [i \in DOMAIN fs |-> IF i < stop THEN ReAdd(fs[i]) ELSE fs[i]]

RefuseMerge(nm) ==
    /\ Exists(nm) /\ Here.name # nm
    /\ ~Staged(Here)
    /\ Unclean(Here.files)
    /\ SetFiles(Asked(Here.files))
    /\ UNCHANGED <<work, current, commits, edits, health>>

(* Resolving to Delete changes the entry of the head commit itself.         *)
Resolve(e, res) ==
    IF e.name \in DOMAIN res /\ res[e.name] = Delete
    THEN [e EXCEPT !.added = FALSE, !.removed = TRUE] ELSE e
ResolveAll(es, res) == [i \in DOMAIN es |-> Resolve(es[i], res)]

Resolved(c, res) ==
    [c EXCEPT !.added = ResolveAll(@, res), !.modified = ResolveAll(@, res),
              !.removed = ResolveAll(@, res), !.tracked = ResolveAll(@, res)]

(* Its files are looked at in this order, and only they: a resolution of a  *)
(* file that the other head alone has is not used.                          *)
InOrder(c) == c.added \o c.modified \o c.removed \o c.tracked

\* After the entries es have been resolved.
WorkAfter(es, res) ==
    [p \in Paths |-> IF p \in DOMAIN res /\ res[p] # Delete
                        /\ \E i \in DOMAIN es : es[i].name = p
                     THEN CopyOf[res[p]] ELSE work[p]]

(* As UndoFails, where a resolved file cannot be written.                   *)
MergeFails(c, res) ==
    \E k \in DOMAIN InOrder(c) :
       /\ InOrder(c)[k].name \in DOMAIN res /\ res[InOrder(c)[k].name] # Delete
       /\ work[InOrder(c)[k].name] = Gone
       /\ work' = WorkAfter(SubSeq(InOrder(c), 1, k - 1), res)
       /\ health' = "exited"
       /\ UNCHANGED <<branches, commits>>

(* The merged head's files the active branch does not list are taken over,  *)
(* as new files unless that commit removed them.                            *)
Foreign(es, staged) ==
    LET new == Picked(es, {e \in ToSet(es) : e.name \notin Listed(Here)})
    IN  [i \in DOMAIN new |-> IF staged THEN [new[i] EXCEPT !.staged = TRUE] ELSE new[i]]

\* Forgets the files the active branch added last.
Merged_added(active, other) ==
    LET fs == active.modified \o active.removed \o active.tracked
              \o Foreign(other.added, TRUE) \o Foreign(other.modified, TRUE)
              \o Foreign(other.removed, FALSE) \o Foreign(other.tracked, TRUE)
    IN  [i \in DOMAIN fs |-> [fs[i] EXCEPT !.own = current]]

Merged(active, other) ==
    LET fs == active.added \o active.modified \o active.removed \o active.tracked
              \o Foreign(other.added, TRUE) \o Foreign(other.modified, TRUE)
              \o Foreign(other.removed, FALSE) \o Foreign(other.tracked, TRUE)
    IN  [i \in DOMAIN fs |-> [fs[i] EXCEPT !.own = current]]

(* The old names of the branch's files are freed. The entries of its        *)
(* history are pointed to a new name of a merged file with the same hash.   *)
Renamed(e, mine, fs) ==
    LET same == {k \in DOMAIN fs : fs[k].hash = e.hash}
        last == CHOOSE k \in same : \A l \in same : l <= k
    IN  IF mine /\ same # {} THEN [e EXCEPT !.name = fs[last].name, !.own = current]
        ELSE IF e.own = current THEN [e EXCEPT !.own = 0] ELSE e
RenamedAll(es, mine, fs) == [i \in DOMAIN es |-> Renamed(es[i], mine, fs)]

Mine == {Here.hist[i] : i \in 1 .. Here.n}
Repointed(cs, fs) ==
    [k \in DOMAIN cs |->
        [cs[k] EXCEPT !.added = RenamedAll(@, k \in Mine, fs),
                      !.modified = RenamedAll(@, k \in Mine, fs),
                      !.removed = RenamedAll(@, k \in Mine, fs),
                      !.tracked = RenamedAll(@, k \in Mine, fs)]]

SameNames(cs, ds) ==
    \A k \in DOMAIN cs : \A i \in DOMAIN Entries(cs[k]) :
       Entries(ds[k])[i].own # 0 => Entries(ds[k])[i].name = Entries(cs[k])[i].name

TwoParents(there) == <<Here.hist[Here.n], there.hist[there.n]>>

MergeCommit(nm, w, fs) == NewCommit(nm, w, fs, TwoParents(branches[BranchOf(nm)]))

(* The merge commit has the two heads as parents; without a change in the   *)
(* merged files there is none, but the file list is replaced all the same.  *)
Merge(nm, res) ==
    /\ Len(commits) < MaxCommits
    /\ Exists(nm) /\ Here.name # nm
    /\ ~Staged(Here)
    /\ ~Unclean(Here.files)
    /\ LET there == branches[BranchOf(nm)]
           active == Resolved(HeadOf(Here), res)
           resolved == [commits EXCEPT ![Here.hist[Here.n]] = active]
           fs == Merged(active, resolved[there.hist[there.n]])
           cs == Repointed(resolved, fs)
           w == WorkAfter(InOrder(active), res)
       IN  IF Dangling(Entries(HeadOf(Here)) \o Entries(HeadOf(there)))
           THEN health' = "undefined" /\ UNCHANGED <<work, branches, commits>>
           ELSE \/ /\ work' = w
                   /\ health' = IF SameNames(commits, cs) /\ Distinct(fs)
                                THEN health ELSE "confused"
                   /\ IF Valid(w, fs)
                      THEN /\ commits' = Append(cs, MergeCommit(nm, w, fs))
                           /\ branches' = [branches EXCEPT ![current] =
                                             Extended(Here, RecordedAll(w, fs))]
                      ELSE commits' = cs /\ SetFiles(RecordedAll(w, fs))
                \/ MergeFails(active, res)
    /\ UNCHANGED <<current, edits>>

Step == \/ \E p \in Paths : Edit(p) \/ Add(p) \/ Rm(p)
        \/ \E m \in Messages : Commit(m)
        \/ \E nm \in Names : Branch(nm) \/ Checkout(nm) \/ RefuseMerge(nm)
        \/ \E nm \in Names, res \in Resolutions : Merge(nm, res)
        \/ \E k \in DOMAIN commits : Reset(commits[k].id)

(* After an exit, undefined behaviour or a confused merge nothing is said   *)
(* any more: commits and lists are in memory only.                          *)
Next == /\ health \in {"sound", "strayed"}
        /\ calls < MaxCalls /\ calls' = calls + 1
        /\ Step

Spec == Init /\ [][Next]_vars

-----------------------------------------------------------------------------
(* Every entry is well formed, and no two entries of a branch have one path *)
(* (svc_add, svc_merge): the searches of the code stop at the first.        *)
TypeOK ==
    /\ work \in [Paths -> Contents \cup {Gone}]
    /\ current \in DOMAIN branches
    /\ health \in {"sound", "strayed", "confused", "undefined", "exited"}
    /\ \A i \in DOMAIN branches :
         /\ health \in {"sound", "strayed"} => Distinct(branches[i].files)
         /\ \A k \in DOMAIN branches[i].files :
              branches[i].files[k] \in Entry /\ branches[i].files[k].own = i
    /\ \A k \in DOMAIN commits : \A i \in DOMAIN Entries(commits[k]) :
          Entries(commits[k])[i] \in Entry

(* The first parent of a commit is the commit in front of it in its branch  *)
(* (add_parent, add_two_parents), whatever was reset or merged before.      *)
HistoryIsChain ==
    health # "undefined" =>
      \A i \in DOMAIN branches : \A k \in 2 .. branches[i].n :
         commits[branches[i].hist[k]].parents[1] = branches[i].hist[k - 1]

(* What a branch believes committed is in its last commit: a file that is   *)
(* tracked and not staged is among the files that commit tracks. It holds   *)
(* as long as no reset went to a commit found on another branch. What the   *)
(* commit tracks need not be tracked in the list (RestoresCommit).          *)
FilesAgreeWithHead ==
    health = "sound" =>
      \A i \in DOMAIN branches : \A k \in DOMAIN branches[i].files :
         LET f == branches[i].files[k]
         IN  f.added /\ ~f.staged =>
               branches[i].n > 0 /\ f.name \in Tracked(HeadOf(branches[i]))

\* No other file that the commit tracks has the base name of e.
Alone(c, e) ==
    \A i \in DOMAIN Saved(c) : Base[Saved(c)[i].name] = Base[e.name] => Saved(c)[i].name = e.name

\* The contents with the hash that the commit has recorded for e.
Meant(e) == {x \in Contents : NameSum[e.name] + ContentSum[x] = e.hash}

(* A commit has a copy of each file it tracks: what copy_file makes of a    *)
(* content with the hash the commit records (store_tracked_f), unless the   *)
(* copy is of another file with the same base name. The copy itself has     *)
(* that hash if the file had no byte 0xFF.                                  *)
CopiesMatch ==
    health \in {"sound", "strayed"} =>
    \A k \in DOMAIN commits : \A i \in DOMAIN Saved(commits[k]) :
       LET e == Saved(commits[k])[i]
       IN  e.own # 0 =>
             /\ Base[e.name] \in DOMAIN commits[k].dir
             /\ Alone(commits[k], e) =>
                  \E x \in Meant(e) : commits[k].dir[Base[e.name]] = CopyOf[x]

(* What a branch has recorded: files and commits well formed, each history  *)
(* a chain of first parents.                                                *)
HistoriesAreSound == TypeOK /\ HistoryIsChain

(* A last commit tracks what its branch takes for committed, and each       *)
(* commit has a copy, as copy_file makes them, of what it tracks.           *)
HeadsAreComplete == FilesAgreeWithHead /\ CopiesMatch

\* The listed files, fs before and after the step gs, have come back to commit c: a
\* file it tracks has a content with the recorded hash, or what copy_file makes of
\* one, unless the copy is of another file with its base name. A file it does not
\* track is not tracked in the list, and one that was as the commit saved it is
\* tracked if the commit says so; one that had to be restored keeps its flags.
RestoresCommit(fs, gs, c) ==
    \A i \in DOMAIN fs :
       IF fs[i].name \in Tracked(c)
       THEN LET e == EntryOf(c, fs[i].name)
            IN  /\ Alone(c, e) => \E x \in Meant(e) : work'[e.name] \in {x, CopyOf[x]}
                /\ gs[i].added = IF Differs(work, fs[i], c) THEN fs[i].added ELSE e.added
       ELSE ~gs[i].added

(* Checking a branch out restores its last commit, and a reset the commit   *)
(* with the given id, wherever it was found (undo_file_changes).            *)
CheckoutRestores ==
    [][health' \in {"sound", "strayed"} =>
         LET b == branches[current']
             gs == branches'[current'].files
         IN  /\ current' # current /\ b.files # <<>> => RestoresCommit(b.files, gs, HeadOf(b))
             /\ \A id \in {commits[k].id : k \in DOMAIN commits} :
                  commits' = commits /\ Reset(id) =>
                    LET x == First(Places(id))
                    IN  RestoresCommit(b.files, gs, commits[branches[x[1]].hist[x[2]]])]_vars

(* A merge keeps the files on disk that the active branch tracks, unless    *)
(* they are resolved to Delete, now or in a merge that left the resolution  *)
(* in the entry of that head; and it takes over the files of the other head *)
(* that the active branch does not list, whatever the resolutions say: the  *)
(* function that would look (svc.c 1324) is never called.                   *)
MergeKeepsFiles ==
    [][LET c == commits'[Len(commits')]
           Kept(d) == {p \in Tracked(d) : EntryOf(d, p).added}
           kept == Kept(commits'[Here.hist[Here.n]])
           taken == Kept(commits'[c.parents[2]]) \ Listed(Here)
       IN  Len(commits') > Len(commits) /\ Len(c.parents) = 2 /\ health' = "sound" =>
             {p \in kept \cup taken : work'[p] # Gone} \subseteq Tracked(c)]_vars

(* The history of a branch changes only by calls made while it is current:  *)
(* "Clean commit history after the given commit_id on current branch"       *)
(* (svc.c 1137).                                                            *)
OtherHistoriesKept ==
    [][\A i \in (DOMAIN branches) \ {current} : branches'[i].n = branches[i].n]_vars
=============================================================================
