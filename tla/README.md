# A verification project for SystemProgramming-and-DataStructure

The repository collects independent C programs: a multi-level job dispatcher in
three stages, a lab exercise with teacher and student threads, a hash map for
several threads, a TCP server, a version control program, and smaller data
structures. This directory models them in TLA+, checks the models with TLC and
proves what matters most with TLAPS. Line numbers refer to the files under
`src/`.

## 1. Inventory

| Component (source) | State | Operations | Interaction and what is hard | What makes it correct | Status |
|---|---|---|---|---|---|
| Memory manager (`Mutli-Level Job Scheduling/Stage3/mab.c`; Stage 2 has the same file) | doubly linked list of blocks (offset, size, allocated) | memChk, memAlloc, memFree, memSplit, memMerge | called by the dispatchers; long sequences of splits and merges, pointer surgery | blocks tile the memory, free neighbours are merged, a request is refused only if no hole fits | modelled, proved |
| Stage 3 dispatcher (`Stage3/mlq.c`, `pcb.c`) | seven queues, the running process, clock, quantum, PCB fields, statistics | steps i to xi of the main loop | one thread; arrival order, preemption, blocking on memory, swapping, starvation | no job lost or duplicated, memory owned by resident jobs, right victim, levels respected, every job ends | modelled, proved |
| Stage 1 and Stage 2 dispatchers (`Stage1/mlq.c`, `Stage2/mlq.c`) | as Stage 3 without the swap queue; Stage 1 also without memory | the same loop, fewer steps | admission in the order of arrival, the idle tick | jobs of a class start in the order of the list, full slices, every job ends | modelled |
| Group lab exercise (`Lab Exercise/Lab_exercise.c`) | shared flags and counters under two mutexes, locals of each thread | main, teacher_give_id, teacher_routine, students_get_sid, students_routine | threads, condition variables, unlocked stores of main | one group in the lab, full groups, no call before the room is empty, the program ends | modelled, proved |
| Hash map (`Thread Safe HashMap/hashmap.c`) | bucket array, chains, size; a map lock and bucket locks | new, put, get, remove, expand, destroy | threads; rehash frees buckets while others may hold them | calls take effect atomically, size right, no freed bucket used, every object destroyed once, no deadlock | modelled, proved |
| JXServer sessions (`JXServer/server.c`, `helper_fun.c`) | a thread and a descriptor per connection, the shared array of running transfers | connection_handler, error_response, echo, dir_list, size_query, retrieve_file, check_sessions, remove_session, free_data | threads, one lock, descriptors that are used again, end of stream, error paths | one transfer per id, answers in order on their own connection, every thread ends | modelled, proved |
| JXServer codec (`server.c`, `data_structure.c`) | bit array with start indices, decoding tree | read_compression_dir, encode_msg, decode_msg | padding and bit boundaries, a loop that reads past the end | the dictionary is read as it was written, decode after encode is the identity | modelled |
| Huffman (`huffman.c`) | array heap of nodes, tree, codes | qsort, update_tree, insert_huff_tree, save_codes, create_dictionary, encode_msg | ties, a heap climb that stops early | no symbol lost, complete prefix-free code | modelled |
| Comms (`Comms/comm.c`) | the coordinator's list, two pipes and a signal per storage, the storage's array and its mutable flag | LAUNCH, STORE, GET, TOGGLE, DESTROY, EXIT, the storage's loop | processes, signals that overtake data, ends of pipes nobody closes | a storage holds what was sent to it, in order; a GET comes back and sees the stores before it | modelled, proved |
| Simple version control (`svc.c`, `file_processor.c`) | branches with file lists and commit arrays, commits with copies, the working directory | svc_add, svc_rm, svc_commit, svc_branch, svc_checkout, svc_reset, svc_merge | files change behind its back; long command sequences; memory shared by branches | histories are chains, a head can be restored, a checkout restores it, a merge keeps files | modelled, proved |
| Unrolled linked list (`Unrolled linked list/unrolled.c`) | nodes of n slots, len, n_node | append, remove, get | one lock around each call | is a sequence | not modelled |
| Channels (`Channels/channel.c`) | a pipe | init, send, get, dup | several senders, PIPE_BUF | messages whole and in order per sender | not modelled |
| Office (`Office/office.c`) | tree of employees in arrays | place, fire, promote, demote, disband | restructuring a tree in place | supervisor and subordinate links agree | not modelled |
| ND Minesweeper (`ND-Minesweeper/minesweeper.c`) | cells of an n-dimensional board | init, select, hint, win test | recursion over neighbours | flood reaches exactly the right cells | not modelled |
| sigtrap, random (`Stage*/sigtrap.c`, `random.c`) | - | - | supplied: a process that ticks, a generator of job lists | - | not modelled |

The programs do not interact with each other, with two exceptions: `mlq.c` calls
`pcb.c` and `mab.c` of its stage, and the JXServer reads the dictionary that the
Huffman program writes (`Compression` composes the two).

## 2. Modules

| Module | Models | Extends / instantiates |
|---|---|---|
| `MemoryBlocks` | the functions of `mab.c` as operators on a block list | - |
| `MemoryArena` | any sequence of memAlloc and memFree calls, memFree one step at a time | `MemoryBlocks`; implements `IntervalMemory` |
| `IntervalMemory` | what callers are promised: disjoint intervals, refusal only without a hole | - |
| `MemoryBlocks_proofs`, `MemoryArena_proofs` | lemmas on the operators, theorems on the arena | the two above, TLAPS |
| `SwapScheduler` | the Stage 3 main loop with `pcb.c`, over `MemoryBlocks` | `MemoryBlocks`; implements `JobLifecycle` |
| `JobLifecycle` | the life of a job: listed, arrived, ready, running, swapped, done | - |
| `LabExercise` | main, teacher and students | implements `LabRoom` |
| `LabRoom` | the exercise as its README tells it | - |
| `HashMap` | new, put, expand, remove, get, destroy by several threads | implements `AtomicMap` |
| `AtomicMap` | a map whose calls each take effect in one step | - |
| `FeedbackScheduler` | the Stage 1 and Stage 2 main loops with their `pcb.c` | `MemoryBlocks` |
| `JXServer` | accept, the connection threads, the array of transfers | - |
| `Compression` | the Huffman program, then the server's dictionary and codec | - |
| `Comms` | the coordinator, the storages, pipes and signals | - |
| `VersionControl` | the version control library and a user who edits files | - |
| `SwapScheduler_proofs` | theorems on the Stage 3 dispatcher, on the lemmas about the block list | `SwapScheduler`, `MemoryBlocks_proofs`, TLAPS |
| `LabExercise_proofs`, `HashMap_proofs`, `JXServer_proofs`, `Comms_proofs`, `VersionControl_proofs` | theorems on these five, each with its inductive invariant | the module of the same name, TLAPS |
| `MC*` | constants for TLC | the module of the same name |

### Correspondence

*Block list.* The linked list in address order is a sequence; a `MabPtr` is a
position in it, 0 for NULL. A block keeps its offset as long as it exists, so a
PCB's `memoryblock` is the offset of its block. `allocated` is a Boolean.

*Dispatcher.* `queue` maps the name of each of the seven queues to the
sequence of jobs linked in it; a job is its line number, so several lines may be
equal. `pcb` holds the fields that change; `pc` says which step of the loop
comes next, and the loops inside steps ii, iv.a and vi are one action per
iteration. A pid is 0 until the job has been started, which matters to
`removeSpecificJob` and to the test of line 239; both compare pids. Suspending,
resuming and terminating a simulated process is its status. Reaching line 365
with `current_process == NULL` is the action `DispatchNothing`.

*Lab exercise.* All accesses of teacher and students to shared data are made
under a mutex, so an action is one critical section, from the lock (or the
return of `pthread_cond_wait`) to the unlock (or the wait). A state whose name
ends in Wait is sleeping on a condition variable; a signal moves one sleeper,
if there is one, to the state in which it asks for the mutex again. main's stores in
lines 238 to 240 are made without a lock and after the threads have been created.
Nothing keeps the threads from running before them. `SpuriousAt` names the waits from which
`pthread_cond_wait` may return without a signal, as POSIX allows: all of them in the run
`lab`. The auxiliary variable `disturbed` becomes true when one of main's stores clears a flag that was
set, or a wait that is not in a loop in the code (lines 49 and 78) returns without a
signal; nothing in the model depends on it.

*Hash map.* `lock` and `bucketLock` hold the thread that owns each mutex. The
chain of a bucket is a sequence of nodes; a node's `id` is the call that
allocated it, `by` the call whose key and value it holds. An action reaches from
one point where the thread may wait, or uses data that others may change
meanwhile, to the next. put takes and releases its bucket's mutex inside the map's,
so once it has both nobody can observe it before it has released them and the rest is
one action. `map->size++` and `map->size--` are made under different
mutexes: each is a load into `register` and a later store. An expansion frees
the old bucket array: `generation` counts the arrays, and a thread keeps the
generation of its bucket and node pointers. The step in which a thread
would touch a freed bucket or node is `UseFreedMemory`; it makes `undefined`
true and nothing is said of what happens then. An expansion holds the map's mutex
and no bucket's, so a removal that has let go of the map (line 250) may unlink and destruct its
entry while the chains are copied. `Grows` begins the expansion, removals go on, and
`Expand` ends it: the copy takes the entries that are still there, and of those unlinked
meanwhile (`unlinked`) any subset. Whether the copy passes an entry before or after its removal is
free for each entry, since a removal waits for nothing but its bucket; and nobody else can see the new array before
the expansion has ended. That a removal may find a node already freed by the copy is covered by
`UseFreedMemory` after the expansion. `revived` is the history of the objects that came back this way.
`hash_map_destroy` is called
when no call is under way, as its comment demands. `mix` is the set of
operations a program uses, because what the locks guarantee depends on it.

*Stage 1 and Stage 2 dispatchers.* One module with a variable `stage` that never changes,
because the two loops differ in how jobs arrive, in admission and in the idle test
only. A step of the loop is one action; jobs are admitted to memory one at a time.
Stage 1 sorts the lines into two queues when it reads the list and loses a line with
priority 2; Stage 2 keeps all lines in one. `Idle` has both tests as they stand.

*JXServer.* `table` is the process's table of descriptors; a thread writes to, and
calls `recv` on, whatever connection its descriptor stands for at that moment, and a
thread asleep in `recv` keeps the connection it had (`source`). `requests` is the
used part of `sessions->requests`; critical sections of `sessions->lock` are one action.
The name in an entry is the connection and the count of reallocations of its payload: an
entry without compression is stale once that count has moved on, and a
comparison with it may have either outcome. `Parse` drops the first byte of an id as
`parse` does. `stream` is what the server has not read of a connection. Header and payload are
read by one `recv` each (`helper_fun.c:445`, `server.c:584`), neither in a loop. On the connections of
`Unsteady` either may return a part of what was asked for; from then on the connection is in
`torn`, and whatever is read from it may be a message of `Garbled` (a shutdown, or a request for a
file, are those that touch shared state) or the message it was. What is left after a tear comes in as many pieces as messages
are left. `send` is called without `MSG_NOSIGNAL`: an answer to a client that has closed
may set `killed`, with which the process and all threads are gone; a payload out of step may do the same
(`Crash`). Clients that are not in `Unsteady` close when all they have sent has been read.

*Compression.* A tree of the Huffman program is its weight and the path to each
symbol; the decoding tree of the server maps paths to symbols. `Sorted` is the set of orders
`qsort` may leave. `Climb` has the loop of `insert_huff_tree` with its early end.
`ReadSegment` goes on to the end of the file as the code does, and takes what lies
behind the file from `Tails`. Values of a byte are `DICT_SIZE` many instead of 256; lengths
are still bytes. `DictBits` is the size of `dict_bit_array`, 8192 in the program (`data_structure.h:23`).
`set_bit` is called without a look at it (`server.c:62`); when a segment does not fit, the bits land on
`seg_index`, `pc` becomes "overrun" and nothing is said of the server any more.

*Comms.* A pipe is a sequence of requests and integers. The handler of SIGUSR1 may
run between any two steps of the storage. A storage inherits the write ends of
all storages listed at its fork (`inherited`), so its siblings keep a pipe open
after the coordinator has gone; `Ended` says when `read` returns 0, and
`ReadNothing` acts on the last request again. `overrun` is the store behind the last place
of the array, after which nothing is said of that storage.

*Version control.* `branches[i].hist` is the array `commit_histroy`, `n` its
`n_commit`: a reset lowers `n` and leaves the array. An entry is one `svc_file`; `own`
is the branch whose file list owns the memory of its name, 0 once a merge has freed
it. A hash is the sum of a part for the path and a part for the content, as
`hash_file` computes it. `CopyOf` is what `copy_file_content` makes of a content: it reads into a
`char` and compares that with `EOF` (`file_processor.c:238`, `264`), so that with a signed `char` a copy ends at
the first byte 0xFF, when a file is stored and when it is restored, while the hash counts all bytes. All
that is assumed of `CopyOf` is that copying a copy changes nothing. Where a file cannot be opened the
program exits (`UndoFails`, `MergeFails`; `health` is "exited"). Commits are numbered; `CommitId` is what `calculate_commit_id`
derives the hexadecimal id from, so that equal commits have equal ids. `health` leaves
"sound" when a reset has found its commit on another branch, when a merge has given an
old entry another file's name or left two entries for a file, and when the code reads memory that
is no commit or no name; after the last two nothing is said any more. A merge changes the entries of a
commit in place, and both branches see it when they share their head.

Definitions whose name ends in a suffix after an underscore (`MemSplit_x`,
`Released_leak`, ...) are the following definition with a mistake. No
specification uses them; replacing the right definition by one of them makes
TLC report the property that PROJECT.json pairs with it.

## 3. Runs

| Run | Bounds | Shows |
|---|---|---|
| `memory` | memory of 7 units, requests of 1, 2, 3 | type, tiling, coalescing, the probe of step iv.b, memFree's steps against `MemFree`, refinement of `IntervalMemory` |
| `swap` | memory 4, four lines out of seven kinds, quantum 1 or 2 | every job in one place and the memory owned by the resident ones, exact accounting, the victim, the levels; every job terminates if all fit; refinement of `JobLifecycle` |
| `feedback` | memory 4, three lines out of eight kinds, one of them larger than the memory, quantum 1 or 2, both stages | the memory, the order of starts, full slices, the end of every job if all fit, and the standstill of Stage 2 if one does not |
| `lab` | four students in groups of three (the last of one), t = 2, spurious returns from every wait, main's stores at any time | groups full and one at a time, no id lost, the refinement of `LabRoom` and the end of the program, up to the first disturbance |
| `lab_late_room` (fails) | three students | the race of main's stores, section 5 |
| `hashmap` | two threads, two keys, two calls each; 2 or 4 buckets at first; size_t of five bits, int of three | the table, ownership of objects, an atomic map but for what an expansion undoes, every call returns |
| `jx` | three clients, one of them unsteady, six scenarios of up to three messages each (about 665,000 states, two minutes) | count of transfers, one per id, the right answers in order on connections read whole, all threads end unless the process dies |
| `jx_remove` (fails) | the same | `remove_session` removes another transfer's entry, section 5 |
| `compression` | six symbols, frequencies 0, 1, 3, a bit array of 18 bits, messages of up to two symbols | a sound code; read as written and decode after encode, if it fits into the array |
| `comms` | two storages with room for two values, two values, six commands | what a storage holds, what a GET sees, requests are served |
| `svc` | two paths, three contents, the second of which a copy cuts short to the first, two branches, three commits, nine calls, one of them an edit | histories, heads, checkout and merge |
| `svc_reset` (fails) | as `svc`, with ten calls and two edits | a reset cuts another branch's history, section 5 |

Why the bounds are enough: memory 7 with requests of up to 3 leaves holes on
either side of a block, at both ends and between blocks, and holes too small for
a request. Memory 4 and the job kinds make jobs fit together, block one
another, fill the memory exactly and fragment it, end inside a slice, and come out of
order; four jobs allow a running one, a queued level 2 one, a swapped one and a blocked
real-time one at the same time. The earlier programs swap nothing, so three jobs show all
their states.
Four students in groups of three have a full group, in which some wait while others have left, and a short
last one, which a group left early would meet.
Two keys share a bucket of two but not of four, so chains have two nodes and are
split by the expansion, which two buckets force at the second entry; both hash values are outside
`int`, and one becomes negative in it. Two calls of two threads are enough to
set up an entry and to race on it; a second expansion or a third thread adds nothing to what
can be freed, as one stale pointer is what matters.
Three transfers are the fewest in which a removal hits the entry of one while another
comes; the scripts send each kind of message with each outcome, and descriptors are as few as connections,
so that accept gives out one that has just been closed. One unsteady client is enough, as what a tear can do to
others is a shutdown, a transfer nobody asked for or the end of the process, and `MCGarbled` has the first two. Six symbols fill
three levels of the heap, the first place where the climb could stop at the wrong one; their codes take from 16 to 20 bits,
and with the misread padding some fit into 18 bits and some do not.
A storage's siblings hold its pipe open from two storages on; three stores overrun
two places. Two branches with three commits are the fewest in which a merge has two
parents and a branch reset before it; the three contents make a file that a copy keeps, one it changes and one that
the changed one is mistaken for.

`init_capacity` is 16 (`hashmap.h`); the model takes any power of two, so that an
expansion is within reach of a few calls.

No symmetry reduction is used: most passing runs check liveness or a
refinement, and the others have few interchangeable values.
Deadlock is checked except in `lab_late_room`, whose race can lead to a real standstill,
in `comms`, where the coordinator may exit and the storages with it, and in the two runs
of `svc`, which end with the last of their calls.

### Fairness

The dispatcher is one thread, so `FairSpec` asks weak fairness of its next-state
relation: it goes on until its loop ends. In the lab each thread has weak
fairness of its own actions: the operating system runs every thread that can
run. Nothing is assumed of the order in which threads get a mutex; no strong
fairness is needed. Spurious wakeups have no fairness. In the hash map each
thread has weak fairness of the steps of the call it is in, not of making calls;
because calls are bounded (`MaxCalls`), nobody can overtake a waiting thread for
ever, and weak fairness stands for any scheduler and any mutex. Both old
dispatchers are a single thread, too. JXServer's threads each have weak fairness while the process lives, and so has
each client's connecting and closing, without which a server never ends. A job too large for the
memory is the one case in which the loop of Stage 2 goes on without the program getting anywhere; `AllJobsFinish` of
`FeedbackScheduler` says both. A storage of
Comms has weak fairness of its work and of its signal handler; the coordinator is only
asked to read the answer it waits for, and is never forced to take a command.

## 4. Proofs

Every safety property that the runs check of the memory manager, the Stage 3 dispatcher, the lab,
the hash map, JXServer's sessions, Comms and version control is a theorem, and so are the four refinements. They hold
for all values of the constants that satisfy the assumptions named in the modules; two about the hash map
have further conditions in their statements (below). Where the code itself breaks a promise, the
property says until when it is kept: up to the first disturbance in the lab, but for revived entries in the hash map, on connections
read whole in JXServer. TLC has checked the parts of the
inductive invariants on the instances of the runs before they were proved.

**Memory.** `MemoryBlocks_proofs` and `MemoryArena_proofs` take every `MemSize` in
`Nat \ {0}` and every set of positive `Sizes`.
The inductive invariant of the arena is `Invariant`: the types, `WellFormed(blocks)` and
`FreeNeighbours`. `Tiles` speaks of adjacent blocks only; to know that
`BlockAt` is unique and that an interval of one block does not meet another
the proofs need the order of all offsets (`Ordered`) and that every unit
belongs to some block (`Covers`); both are part of `WellFormed`. "No two free
neighbours" is false while memFree runs, so `FreeNeighbours` says which pairs
may be free at each of its steps: only those that touch its cursor before the
first merge, only the cursor and its successor after it. That the loop merges
at most once follows from it.

The refinement theorem maps each step of the list to a step of
`IntervalMemory`: a grant is a hole because blocks do not overlap; a refusal
is justified because a hole inside the free room lies inside a single free
block, as free neighbours are merged, and memChk would have found it; marking a
block free is the release; merges are stuttering steps.

**Stage 3 dispatcher** (`SwapScheduler_proofs`; any number of jobs, any memory, any quanta). The
proofs speak of places: the queues, the processor and "gone". `Placed` says that each job is
at exactly one place, in a queue only once, with the priority and status that fit the place; every
step moves at most a few jobs, so its effect on `Where` is all the other parts need to know.
`Owned` says that the allocated blocks are those of the jobs at the four places that hold
memory, and rests on the lemmas about `MemAlloc` and `MemFree`. `Sliced` bounds the slice by the
time left, which is what keeps `remaining` from becoming negative; `Timed` counts the time a process
has used but not been charged for, which the accounting needs since the clock advances a pass before
the charge. `VictimChosen` says that the victim is still the one with the longest
time left at each step from the choice to the swap; `Admitted` and `Served` say what steps vi and ix
leave behind, from which the assertion of step viii and the precedence of the levels follow.

`DispatcherImplementsLifecycle` maps a job's place to its phase. The hard part is the memory:
`JobLifecycle` bounds the sum of the resident jobs' sizes, the dispatcher allocates a block of
a list. `SumCountsCells` shows that the sum is the number of units in allocated blocks, by induction on the
set of jobs, and a hole found for one more job means that its units were free.

**Lab exercise** (`LabExercise_proofs`; any number of students, any group size, main's stores and spurious
wakeups at any time). Nothing is assumed of the order of main's stores, nor of the waits. The invariant has two halves.
`Always` (types, counters, main's last message) holds in every run. The rest holds until the run is
`disturbed`: a step in which a store of main only repeats what the flag already is, or in which a wait under an `if` is signalled, keeps it, and
no later step matters. The run `lab_late_room` and section 5 show that both kinds of disturbance do break it. This half counts: the ids taken are those handed out
but the one on offer (`IdsCounted`), the members of groups 1 to g are the first g * K of them
(`GroupsFillUp`), those who have left are all of the earlier groups and
of the one in the lab nobody, some or all depending on `room_available` (`RoomIsKept`), and a taken room
that the teacher finds at its next call is one whose exercise is over (`CallsAreGuarded`). That
the claim which `lab_late_room` refutes, `CallsAfterRoomIsEmpty`, fails only in a step of a disturbed run is a theorem as well.

**Hash map** (`HashMap_proofs`; any number of threads, keys, calls and buckets, any hash function).
`Invariant` has the lock protocol (`PointersFit`, `LocksHeld`: a pointer into the current
array is the right bucket, and who scans it holds its mutex), the ownership of objects (`EntriesAreOwned`: no two entries
come from one call, and a put that has not stored its objects owns them), and what a getter's node can have
become.
`TableStaysSound` and `CallsAreAtomic` add the hypothesis `[]TableIsNarrow`: the number of buckets
divides the number of values of an `int`, as `calculate_index` truncates the hash to `int` first and
the two reductions agree only then. The former also needs `SizeIsWide`, fewer calls than values of `size_t`, since
`size` wraps. Powers of two come from `PowersAssumption`, because what `2^e` is for
every `e` would need an induction. `AtomicMap` is implemented with these linearization
points: a put and a removal at their critical section, a get where it reads the value, without a lock. The end of an
expansion is the one step that is none of these: it may undo removals, which `AtomicMap` allows only then and only of removals
that ended while the table was copied. `EntriesAreOwned` says the same of objects: one that has been
destructed is in the table only if it is in `revived`.

**JXServer** (`JXServer_proofs`; any number of clients, any scripts). `CountInvariant` adds to the
count that only transfers with compression reach the removal and that a descriptor
is in the table at most once. `TransferInvariant` says that every running transfer has its own entry until
a removal has hit another's, which makes the test of `check_sessions` sufficient. `AnswerInvariant`
says that behind the descriptor of a served connection is that connection (`DescriptorsAreOwn`), as long as no thread has closed another's connection, for which it takes a shutdown or a torn message. On a connection that is not
torn, what a thread has read, what it has answered and what is still
to come make up the script (`ScriptIsServed`, `RestIsLeft`). `EntriesAreRequests` says that without torn messages every
entry of the array was asked for by some client, and if by the same one, by an earlier message: so a transfer is held back only for another request
of its session, also where the comparison reads a dangling name.

**Comms** (`Comms_proofs`; any number of storages, any capacity, any values). `Pipe` describes what is
in a request pipe: the last n stores sent, of the first perhaps only the integer, and at most one GET behind
them. `Caught` says that the array holds all the others unless the storage was toggled, and
`KeptFrom` that it holds some of them in their order in any case. A signal may come at any step,
so `Quiet` ties an immutable storage to a TOGGLE that was sent. A GET is read when nothing
is left in front of it, which is `GetsAreComplete`.

**Version control** (`VersionControl_proofs`; any paths with any base names, contents, hash parts, branch
names, messages and resolutions, any `CopyOf` that leaves copies alone, any bounds). `Invariant` says of each branch (`BranchSound`): no entry
of its list is tracked and removed at once, each owns its name, and the whole array of its history, with what
a reset left behind its end, is a chain of first parents (`ChainOf`); without the part behind the end a later
commit or merge could not be followed. While nothing has strayed, a file that is tracked and not staged is
among those of the last commit (`Agrees`). Of each commit it says (`CommitSound`): what it tracks is not
removed, what it removed is not tracked, and the copy of each file it tracks is what `copy_file` makes of a content
with the recorded hash unless another file has the base name (`Complete`).
A merge is the hard step, because it rewrites entries of every commit in place. `Derived` relates a commit before and after
entry by entry: a resolution may only weaken the flags (`Weaker`), a new name leaves flags and hash
(`Alike`), and if the entries keep their names, as they do unless the merge is confused, the commit stays sound and
tracks the same files (`DerivedSound`). `MergedFacts` says what is in the merged list, whence
that nothing in it passes for committed that the head does not track, and that nothing either
head keeps is lost. `Picked` comes from a fold over the list; `PickedFacts` shows that it has exactly the
elements of the list that are in the set, without induction over the list: the fold is a function
on sets of positions, and `PickedFrom` is given to it as a solution.

Changes the proofs asked of the models keep the same behaviour: helpers became operators of the
community modules (`RemoveFirst` in `Comms`, `Picked` in `VersionControl`), conditions that were computed
twice got a name, and the assumptions about the constants were completed (`ServerAssumption`: as many
descriptors as connections; `NamesAssumption`, `ResolutionsAssumption`). Two properties of version control were false
outside the instance of the run and are now stated as what the code does: copies are compared only if no other
tracked file has the base name (`Alone`), and a merge keeps what a head tracks by an entry that says so
(section 5).

Only model-checked:

* liveness (`AllJobsFinish`, `ProgramEnds`, `CallsReturn`, `ThreadsEnd`, `RequestsServed`), which is
  beyond the prover;
* `Compression`: its operators are recursive over data;
* `FeedbackScheduler`: `JobsAndMemoryAgree` and `ServiceIsFair`. Its memory is handled by the operators
  the lemmas of `MemoryBlocks_proofs` are about, and its queues as those of the Stage 3 dispatcher;
  its own unload step moves many jobs at once, and the order of starts needs an invariant on every queue (section 6).

## 5. Findings

Shown by runs that TLC must find violated:

* Lab exercise: main initialises three flags after it has started the threads and
  without a lock. A late store of `room_available` lets the teacher call the
  second group while the first is inside (`lab_late_room`).
* JXServer: `remove_session` (`helper_fun.c:305`) writes the finished transfer over
  the last entry of the array and drops the last entry. With two transfers running, the
  other one's entry is gone and the finished one's stays (`jx_remove`); its id is refused
  later, and a second transfer with the other's id may run beside it. Hence the condition
  of `OneTransferPerSession`.
* Version control: `svc_reset` looks for the commit in every branch and hands
  `n_commit` of the branch it found it on to `clean_commit_history`, which lowers it: a
  branch that is not checked out loses commits (`svc_reset`).

Met while modelling, and part of the models, without a run of their own:

* Stage 3: one job is swapped out per pass, chosen by remaining time and not by size, so the
  room it leaves need not be enough for the real-time job the README (line 47) promises it to. The test of
  step ix.B (`mlq.c:403`) forgets `Swap_queue` and idles a tick while a swapped job waits.
  Every job ends all the same (`AllJobsFinish`).
* Stage 2: with a job larger than the memory at the head of its queue and nothing else to run, no branch of
  `Stage2/mlq.c:300-307` gives a quantum, and the loop spins for ever (second half of `AllJobsFinish`). Stage 3 has the same
  loop; there the claim is made of lists all of whose jobs fit.
* Lab exercise: the teacher's waits (`Lab_exercise.c:49`, `78`) are under an `if`; after a
  spurious wakeup, or a late store of `s_id_available` (line 238), an id is overwritten before a student has taken
  it, and a student may wait for ever. `IdsLostOnlyIfDisturbed` shows that nothing else leads to it.
* Hash map: an expansion locks the map and no bucket. A removal that has let
  go of the map (`hashmap.c:250`) may end between the copy of its node (line 98) and the freeing of its bucket
  (line 102): the entry is back in the map although the removal has succeeded, its objects are
  destructed already, and they are destructed again when it is removed, replaced or the map destroyed. `ObjectsAreOwned` and
  `ImplementsAtomicMap` show that only entries removed while the table is copied are hit.
* Hash map: after an expansion such a removal, and a lookup that is scanning its bucket, go on in freed memory; so does
  a lookup that reads the value of a removed node. `OnlyKnownMisuse` shows that
  it takes an expansion, or a program that both looks up and removes. A put that replaces an entry hands the old key to `value_destruct` (line 196).
* JXServer: a shutdown closes the descriptor twice (`server.c:573` and in `free_data`); in
  between, accept may have given it to a new connection, which is then closed under its
  thread. `AnswersInOrder` and `SessionsAreCounted` show that only a shutdown, or bytes taken for one, does this and that nothing else
  is damaged. `recv` is called once for a header and once for a payload (`helper_fun.c:445`, `server.c:584`): if one returns
  a part, the rest is taken for the next message; and a `recv` that fails is not told from one that succeeds, so
  that the handler runs on a payload that never came. An answer to a client that has gone kills the
  process (`helper_fun.c:164-176`, no `MSG_NOSIGNAL`). A transfer without compression leaves its entry in the array for ever.
* Huffman: the climb stops at a child of the root (`huffman.c:152-159`), so the
  root need not be the lightest node, against the comments at lines 125 and 175. The code may be
  longer than Huffman's, but it is still complete and free of prefixes
  (`CodeIsSound`). `read_compression_dir` takes the padding of the file for more segments (`server.c:46`); because the code is
  complete, this does no harm to decoding.
* Compression: `set_bit` (`server.c:62`) is called without a look at the 8192 bits of `dict_bit_array`; a
  dictionary with long codes, and the padding of any, misread as up to 128 more bits, overwrites `seg_index` behind it
  (`data_structure.h:23`). `ServerReadsTheCode` shows that it takes that many bits.
* Comms: a toggle overtakes stores; nothing keeps a storage from overrunning its
  array; after the end of the input a storage whose last request was a store repeats it
  until it does.
* Version control: a merge frees the names of the active branch's files; entries of
  old commits whose hash matches no merged file keep the freed name (`svc.c:1419`), and equal hashes
  exchange names. A merge does not notice modified tracked files, since it asks `svc_add`, which reports
  a tracked file as an error of another kind. Ids depend on the message and
  the changed names only, so they repeat. A file resolved to deletion in a merge that
  makes no commit stays resolved in the head's own entry (`svc.c:1292-1315`): if the file is removed and deleted, the
  branch merged, and the file created and added again, a later merge of that head into another branch drops it, although the
  head tracks it. It takes 13 calls; `MergeKeepsFiles` excepts these entries. `svc_branch` and `svc_checkout` before the first
  commit read in front of the array of commits.
* Version control: a copy of a file ends at its first byte 0xFF (`file_processor.c:238`, `264`; where `char` is
  unsigned the loop never ends), while `hash_file` counts all bytes: a commit of such a file cannot
  restore it, and after a checkout the file has changes nobody made. `HeadsAreComplete` and `CheckoutRestores` are stated with
  what copying leaves.
* Version control: the comments at `svc.c:1106` and `1151` have a reset restore the files as they were. `restore_file`
  (lines 1031-1045) restores the content of a file that differs and leaves its flags as they are: a file
  added since and tracked by the commit stays staged.
* Version control: the comment at `svc.c:1659-1660` has resolutions apply to the files of both heads.
  `check_update_files_w_sec_resolution` (line 1324) is never called, so a file that only the other head tracks is
  taken over even if it is resolved to deletion (`MergeKeepsFiles`, `taken`).

## 6. Plan

1. Done: the memory manager with its proofs, the Stage 3 dispatcher, the lab
   exercise, the hash map.
2. Done: the Stage 1 and Stage 2 dispatchers, JXServer with its codec and the Huffman program, Comms,
   version control.
3. Done: the proofs about the Stage 3 dispatcher, the lab, the hash map, JXServer, Comms and
   version control, with the refinements of `JobLifecycle`, `LabRoom` and `AtomicMap`.
4. Proofs about the Stage 1 and Stage 2 dispatchers: `JobsAndMemoryAgree` on the lemmas of
   `MemoryBlocks_proofs`, then `ServiceIsFair`. The order of starts needs that each of the
   queues a job passes through keeps the order of the list.
5. The components that are still missing, of which Office has the most state.

## 7. Not modelled

Printing, parsing of command lines and of job files, listening on a socket, the content of
directories, and the supplied programs `sigtrap.c` and `random.c`. Arithmetic of the dispatchers and the lab stays
far from the limits of `int`. `memFree` writes to a block after it has been freed
(`mab.c:97`); the model takes the usual outcome, that the bytes are still there. Lengths of
2 GB and more, which `parse` (`helper_fun.c:57`) gets wrong, do not occur.

*Unrolled linked list, Channels, Office, ND Minesweeper* are not modelled. The first
and the last two are sequential computations on one data structure, and Channels
passes whole messages to `read` and `write` on a pipe. Reading them showed three things a
unit test reaches: removing from the head node until it is empty uses a NULL parent
(`unrolled.c:122`), `capacity` is never lowered (`unrolled.c:76`), and the bounds test of a
selected cell accepts the position one past the last (`minesweeper.c:300`).
