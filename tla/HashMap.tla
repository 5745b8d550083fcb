------------------------------- MODULE HashMap -------------------------------
(***************************************************************************)
(* hashmap.c: a chained hash table with a lock for the whole map and one   *)
(* per bucket, used by several threads.  An action is what a call does     *)
(* from one point where it may have to wait, or where it touches data that *)
(* another thread may change meanwhile, to the next.                       *)
(*                                                                         *)
(* An expansion replaces the bucket array and frees every bucket and node: *)
(* generation counts the arrays.  A bucket or node of an older generation, *)
(* and a node that has been unlinked, is freed memory; a thread that is    *)
(* about to touch one makes "undefined" TRUE, and the model stops there.   *)
(***************************************************************************)
EXTENDS Integers, Sequences, SequencesExt, FiniteSets

CONSTANTS Threads, Keys,
          Hash,          \* what the caller's hash function returns for each key
          Capacities,    \* init_capacity
          SizeBits,      \* width of size_t
          IntBits,       \* width of int
          Mixes,         \* sets of operations the program uses
          MaxCalls,      \* bound: calls of each thread
          NoThread

ASSUME HashMapAssumption ==
  /\ {SizeBits, IntBits, MaxCalls} \subseteq Nat \ {0}
  /\ IntBits <= SizeBits
  /\ Hash \in [Keys -> 0..2^SizeBits-1]
  /\ \A c \in Capacities : \E e \in 0..IntBits : c = 2^e
  /\ \A mix \in Mixes : mix \subseteq {"put", "remove", "get"}
  /\ IsFiniteSet(Threads) /\ NoThread \notin Threads
  /\ Keys # {}

\* What the provers do not know about powers of two
ASSUME PowersAssumption ==
  /\ \A e \in 0..IntBits : 2^e > 0
  /\ 2^SizeBits > 0 /\ 2^SizeBits % 2^IntBits = 0

\* A call of a thread; the one a put makes stands for the key and value objects
\* it hands over.
Calls == Threads \X (1..MaxCalls)
NoCall == << NoThread, 0 >>

VARIABLES
  mix,           \* the operations this program uses
  n_buckets, size,
  buckets,       \* the chains of the current bucket array
  generation,
  lock,          \* holder of map->lock
  bucketLock,    \* holder of each current bucket's lock
  pc, key, calls,
  bucket,        \* each thread's bucket pointer
  node_ref,      \* each getter's node pointer
  register,      \* the value of size a thread is about to store
  answer,        \* what the last get of each thread returned
  moved,         \* history: the calls whose objects the map has taken
  key_destructed, value_destructed,   \* times each object went to a destructor
  open,          \* hash_map_destroy has not been called
  unlinked,      \* the entries removed since the expansion under way began
  revived,       \* history: the calls whose entry was removed and came back
  undefined

table   == << n_buckets, buckets, generation, bucketLock >>
locals  == << key, calls, bucket, node_ref, register, answer >>
objects == << moved, key_destructed, value_destructed >>
expansion == << unlinked, revived >>
vars    == << mix, expansion, size, table, lock, pc, locals, objects, open,
             undefined >>

Objects == Calls \X {"key", "value"}

Init ==
  /\ mix \in Mixes
  /\ n_buckets \in Capacities
  /\ size = 0
  /\ buckets = [i \in 0..n_buckets-1 |-> << >>]
  /\ generation = 0
  /\ lock = NoThread
  /\ bucketLock = [i \in 0..n_buckets-1 |-> NoThread]
  /\ pc = [t \in Threads |-> "idle"]
  /\ key = [t \in Threads |-> CHOOSE k \in Keys : TRUE]
  /\ calls = [t \in Threads |-> 0]
  /\ bucket = [t \in Threads |-> [gen |-> 0, index |-> 0]]
  /\ node_ref = [t \in Threads |-> [gen |-> 0, id |-> NoCall]]
  /\ register = [t \in Threads |-> 0]
  /\ answer = [t \in Threads |-> NoCall]
  /\ moved = {}
  /\ key_destructed = [o \in Objects |-> 0]
  /\ value_destructed = [o \in Objects |-> 0]
  /\ open = TRUE
  /\ unlinked = {} /\ revived = {}
  /\ undefined = FALSE

-----------------------------------------------------------------------------
(* Arithmetic and chains                                                   *)

CalculateIndex(n, hash) == hash % n

\* A size_t stored in an int and converted back
ThroughInt(hash) ==
  LET low == hash % 2^IntBits
  IN  IF low >= 2^(IntBits-1) THEN low - 2^IntBits + 2^SizeBits ELSE low

MyCall(t) == << t, calls[t] >>

Chain(t) == buckets[bucket[t].index]

\* Takes the first node of the chain for the right one.
Position_first(t) == IF Chain(t) = << >> THEN 0 ELSE 1

Position(t) == SelectInSeq(Chain(t), LAMBDA node : node.key = key[t])

Present(t) == Position(t) # 0

MyNode(t) == Chain(t)[Position(t)]

IsStale(t) == bucket[t].gen # generation

NodeIsAlive(ref) ==
  /\ ref.gen = generation
  /\ \E i \in DOMAIN buckets : \E node \in ToSet(buckets[i]) : node.id = ref.id

\* the node ref points to
NodeAt(ref) ==
  CHOOSE node \in UNION { ToSet(buckets[i]) : i \in DOMAIN buckets } :
    node.id = ref.id

\* the calls whose objects the table holds
Held == { node.by : node \in UNION { ToSet(buckets[i]) : i \in DOMAIN buckets } }

Expanding == \E t \in Threads : pc[t] = "copy"

Goto(t, where) == pc' = [pc EXCEPT ![t] = where]

FreeBucket(t) == ~IsStale(t) /\ bucketLock[bucket[t].index] = NoThread

LockBucket(t) == bucketLock' = [bucketLock EXCEPT ![bucket[t].index] = t]

UnlockBucket(t) == bucketLock' = [bucketLock EXCEPT ![bucket[t].index] = NoThread]

\* Does not wait.
LockMap_open(t) == UNCHANGED lock

LockMap(t) == lock = NoThread /\ lock' = t

FindBucket(t) ==
  bucket' = [bucket EXCEPT ![t] =
    [gen |-> generation, index |-> CalculateIndex(n_buckets, Hash[key[t]])]]

Count(f, Passed) == [o \in Objects |-> IF o \in Passed THEN f[o] + 1 ELSE f[o]]

-----------------------------------------------------------------------------
(* A thread calls an operation                                             *)

Call(t) ==
  /\ pc[t] = "idle" /\ open
  /\ calls[t] < MaxCalls
  /\ \E op \in mix : Goto(t, op)
  /\ \E k \in Keys : key' = [key EXCEPT ![t] = k]
  /\ calls' = [calls EXCEPT ![t] = @ + 1]
  /\ UNCHANGED << mix, expansion, size, table, lock, bucket, node_ref, register, answer,
                  objects, open, undefined >>

-----------------------------------------------------------------------------
(* hash_map_put_entry_move and expandIfNecessary                           *)

PutLock(t) ==
  /\ pc[t] = "put"
  /\ LockMap(t)
  /\ FindBucket(t)
  /\ Goto(t, "putBucket")
  /\ UNCHANGED << mix, expansion, size, table, key, calls, node_ref, register, answer,
                  objects, open, undefined >>

\* Forgets the key.
Replaced_leak(t) == {MyNode(t).by} \X {"value"}

\* what goes to value_destruct when an entry is replaced: the key too
Replaced(t) == {MyNode(t).by} \X {"key", "value"}

\* A new node takes the place of the old one.
Replacement_fresh(t) == [key |-> key[t], by |-> MyCall(t), id |-> MyCall(t)]

Replacement(t) == [MyNode(t) EXCEPT !.by = MyCall(t)]

PutReplace(t) ==
  /\ pc[t] = "putBucket" /\ FreeBucket(t)
  /\ Present(t)
  /\ value_destructed' = Count(value_destructed, Replaced(t))
  /\ buckets' = [buckets EXCEPT ![bucket[t].index][Position(t)] = Replacement(t)]
  /\ moved' = moved \cup {MyCall(t)}
  /\ lock' = NoThread
  /\ Goto(t, "idle")
  /\ UNCHANGED << mix, expansion, size, n_buckets, generation, bucketLock, locals,
                  key_destructed, open, undefined >>

\* bucket_add_node
PutAppend(t) ==
  /\ pc[t] = "putBucket" /\ FreeBucket(t)
  /\ ~Present(t)
  /\ buckets' = [buckets EXCEPT ![bucket[t].index] =
       Append(@, [key |-> key[t], by |-> MyCall(t), id |-> MyCall(t)])]
  /\ moved' = moved \cup {MyCall(t)}
  /\ lock' = NoThread
  /\ Goto(t, "expand")
  /\ UNCHANGED << mix, expansion, size, n_buckets, generation, bucketLock, locals,
                  key_destructed, value_destructed, open, undefined >>

ExpandLock(t) ==
  /\ pc[t] = "expand"
  /\ LockMap(t)
  /\ register' = [register EXCEPT ![t] = (size + 1) % 2^SizeBits]
  /\ Goto(t, "grow")
  /\ UNCHANGED << mix, expansion, size, table, key, calls, bucket, node_ref, answer,
                  objects, open, undefined >>

Overloaded(t) == register[t] > (n_buckets * 3) \div 4

StaysSmall(t) ==
  /\ pc[t] = "grow"
  /\ ~Overloaded(t)
  /\ size' = register[t]
  /\ lock' = NoThread
  /\ Goto(t, "idle")
  /\ UNCHANGED << mix, expansion, table, locals, objects, open, undefined >>

\* The new index is computed from the old number of buckets.
NewIndex_old(hash) == CalculateIndex(n_buckets, ThroughInt(hash))

NewIndex(hash) == CalculateIndex(2 * n_buckets, ThroughInt(hash))

\* Only the old buckets have a lock.
NewLocks_old == bucketLock

NewLocks == [i \in 0..2*n_buckets-1 |-> NoThread]

\* bucket_add_node puts one node after the other into the new array.
Refilled(nodes) ==
  LET filled[j \in 0..Len(nodes)] ==
        IF j = 0 THEN [i \in 0..2*n_buckets-1 |-> << >>]
        ELSE [filled[j-1] EXCEPT ![NewIndex(Hash[nodes[j].key])] = Append(@, nodes[j])]
  IN  filled[Len(nodes)]

Grows(t) ==
  /\ pc[t] = "grow"
  /\ Overloaded(t)
  /\ size' = register[t]
  /\ Goto(t, "copy")
  /\ UNCHANGED << mix, expansion, table, lock, locals, objects, open, undefined >>

\* Every node moves to the new array; the old one and its nodes are freed.  Only the
\* map is locked and not the buckets, so a removal that had left the map's lock may end
\* while the chains are copied, before or after the copy has passed its entry: any of the
\* entries removed meanwhile may be in the new array.
Expand(t) ==
  /\ pc[t] = "copy"
  /\ \E passed \in SUBSET unlinked :
       buckets' = Refilled(FlattenSeq([i \in 1..n_buckets |-> buckets[i-1]])
                             \o SetToSeq(passed))
  /\ revived' = revived \cup (Held' \ Held)
  /\ unlinked' = {}
  /\ n_buckets' = 2 * n_buckets
  /\ generation' = generation + 1
  /\ bucketLock' = NewLocks
  /\ lock' = NoThread
  /\ Goto(t, "idle")
  /\ UNCHANGED << mix, size, locals, objects, open, undefined >>

PutCall(t) == \/ PutLock(t) \/ PutReplace(t) \/ PutAppend(t)
              \/ ExpandLock(t) \/ StaysSmall(t) \/ Grows(t)
              \/ Expand(t)

-----------------------------------------------------------------------------
(* hash_map_remove_entry                                                   *)

\* The map is locked only to find the bucket.
RemoveLock(t) ==
  /\ pc[t] = "remove"
  /\ lock = NoThread
  /\ FindBucket(t)
  /\ Goto(t, "removeBucket")
  /\ UNCHANGED << mix, expansion, size, table, lock, key, calls, node_ref, register, answer,
                  objects, open, undefined >>

RemoveBucket(t) ==
  /\ pc[t] = "removeBucket" /\ FreeBucket(t)
  /\ LockBucket(t)
  /\ Goto(t, "removeScan")
  /\ UNCHANGED << mix, expansion, size, n_buckets, buckets, generation, lock, locals,
                  objects, open, undefined >>

\* Returns without unlocking the bucket.
LeaveAbsent_held(t) == UNCHANGED bucketLock

LeaveAbsent(t) == UnlockBucket(t)

RemoveAbsent(t) ==
  /\ pc[t] = "removeScan" /\ ~IsStale(t)
  /\ ~Present(t)
  /\ LeaveAbsent(t)
  /\ Goto(t, "idle")
  /\ UNCHANGED << mix, expansion, size, n_buckets, buckets, generation, lock, locals,
                  objects, open, undefined >>

RemoveFound(t) ==
  /\ pc[t] = "removeScan" /\ ~IsStale(t)
  /\ Present(t)
  /\ register' = [register EXCEPT ![t] = (size - 1) % 2^SizeBits]
  /\ Goto(t, "removeEntry")
  /\ UNCHANGED << mix, expansion, size, table, lock, key, calls, bucket, node_ref, answer,
                  objects, open, undefined >>

RemoveEntry(t) ==
  /\ pc[t] = "removeEntry" /\ ~IsStale(t)
  /\ size' = register[t]
  /\ buckets' = [buckets EXCEPT ![bucket[t].index] = RemoveAt(@, Position(t))]
  /\ key_destructed' = Count(key_destructed, {<< MyNode(t).by, "key" >>})
  /\ value_destructed' = Count(value_destructed, {<< MyNode(t).by, "value" >>})
  /\ unlinked' = IF Expanding THEN unlinked \cup {MyNode(t)} ELSE unlinked
  /\ UnlockBucket(t)
  /\ Goto(t, "idle")
  /\ UNCHANGED << mix, n_buckets, generation, lock, locals, moved, revived, open,
                  undefined >>

RemoveCall(t) == \/ RemoveLock(t) \/ RemoveBucket(t) \/ RemoveAbsent(t)
                 \/ RemoveFound(t) \/ RemoveEntry(t)

-----------------------------------------------------------------------------
(* hash_map_get_value_ref                                                  *)

GetLock(t) ==
  /\ pc[t] = "get"
  /\ LockMap(t)
  /\ FindBucket(t)
  /\ Goto(t, "getBucket")
  /\ UNCHANGED << mix, expansion, size, table, key, calls, node_ref, register, answer,
                  objects, open, undefined >>

GetBucket(t) ==
  /\ pc[t] = "getBucket" /\ FreeBucket(t)
  /\ LockBucket(t)
  /\ lock' = NoThread
  /\ Goto(t, "getScan")
  /\ UNCHANGED << mix, expansion, size, n_buckets, buckets, generation, locals, objects,
                  open, undefined >>

GetAbsent(t) ==
  /\ pc[t] = "getScan" /\ ~IsStale(t)
  /\ ~Present(t)
  /\ answer' = [answer EXCEPT ![t] = NoCall]
  /\ UnlockBucket(t)
  /\ Goto(t, "idle")
  /\ UNCHANGED << mix, expansion, size, n_buckets, buckets, generation, lock, key, calls,
                  bucket, node_ref, register, objects, open, undefined >>

GetFound(t) ==
  /\ pc[t] = "getScan" /\ ~IsStale(t)
  /\ Present(t)
  /\ node_ref' = [node_ref EXCEPT ![t] = [gen |-> generation, id |-> MyNode(t).id]]
  /\ UnlockBucket(t)
  /\ Goto(t, "getValue")
  /\ UNCHANGED << mix, expansion, size, n_buckets, buckets, generation, lock, key, calls,
                  bucket, register, answer, objects, open, undefined >>

\* No lock is held when the value is read.
GetValue(t) ==
  /\ pc[t] = "getValue" /\ NodeIsAlive(node_ref[t])
  /\ answer' = [answer EXCEPT ![t] = NodeAt(node_ref[t]).by]
  /\ Goto(t, "idle")
  /\ UNCHANGED << mix, expansion, size, table, lock, key, calls, bucket, node_ref, register,
                  objects, open, undefined >>

GetCall(t) == \/ GetLock(t) \/ GetBucket(t) \/ GetAbsent(t) \/ GetFound(t)
              \/ GetValue(t)

-----------------------------------------------------------------------------
(* Freed memory; hash_map_destroy                                          *)

\* The next thing the thread does is to touch a bucket or node that was freed.  An
\* expansion may stand at an entry when that is removed, or see the destructed key.
TouchesFreedMemory(t) ==
  \/ pc[t] \in {"removeBucket", "removeScan", "removeEntry", "getScan"} /\ IsStale(t)
  \/ pc[t] = "getValue" /\ ~NodeIsAlive(node_ref[t])
  \/ pc[t] = "copy" /\ unlinked # {}

UseFreedMemory(t) ==
  /\ TouchesFreedMemory(t)
  /\ undefined' = TRUE
  /\ UNCHANGED << mix, expansion, size, table, lock, pc, locals, objects, open >>

Destroy ==
  /\ open
  /\ \A t \in Threads : pc[t] = "idle"
  /\ open' = FALSE
  /\ key_destructed' = Count(key_destructed, Held \X {"key"})
  /\ value_destructed' = Count(value_destructed, Held \X {"value"})
  /\ buckets' = [i \in DOMAIN buckets |-> << >>]
  /\ UNCHANGED << mix, expansion, size, n_buckets, generation, bucketLock, lock, pc, locals,
                  moved, undefined >>

Step(t) == PutCall(t) \/ RemoveCall(t) \/ GetCall(t) \/ UseFreedMemory(t)

Stopped == (undefined \/ ~open) /\ UNCHANGED vars

Next == \/ ~undefined /\ Destroy
        \/ \E t \in Threads : ~undefined /\ (Call(t) \/ Step(t))
        \/ Stopped

Spec == Init /\ [][Next]_vars

\* Every thread that can go on does so.  With the bound on calls nobody can take
\* a mutex again and again, so it does not matter whether mutexes are fair.
FairSpec == Spec /\ \A t \in Threads : WF_vars(~undefined /\ Step(t))

-----------------------------------------------------------------------------
(* Properties                                                              *)

\* The state variables have the types of struct hash_map, and every chain that a
\* lock protects has a lock.
TypeOK ==
  /\ n_buckets \in Nat \ {0} /\ size \in 0..2^SizeBits-1
  /\ DOMAIN buckets = 0..n_buckets-1
  /\ \A i \in DOMAIN buckets :
       buckets[i] \in Seq([key : Keys, by : Calls, id : Calls])
  /\ bucketLock \in [0..n_buckets-1 -> Threads \cup {NoThread}]
  /\ lock \in Threads \cup {NoThread}
  /\ register \in [Threads -> 0..2^SizeBits-1]
  /\ pc \in [Threads -> {"idle", "put", "putBucket", "expand", "grow", "copy", "remove",
                         "removeBucket", "removeScan", "removeEntry",
                         "get", "getBucket", "getScan", "getValue"}]

\* A key has at most one entry, and the entry is in the bucket in which a lookup
\* looks for it, although the expansion puts the hash value through an int: the
\* number of buckets is a power of two, so the lost bits do not matter.
EntriesInTheirBucket ==
  /\ \A i \in DOMAIN buckets : \A node \in ToSet(buckets[i]) :
       i = CalculateIndex(n_buckets, Hash[node.key])
  /\ \A i \in DOMAIN buckets : \A j, l \in DOMAIN buckets[i] :
       buckets[i][j].key = buckets[i][l].key => j = l

\* As long as nothing is removed, size counts the entries, up to those whose put
\* has not come to its expandIfNecessary.  (A removal decrements size under
\* another lock than the one under which it is incremented.)
SizeWithoutRemoval ==
  "remove" \notin mix /\ open =>
    size + Cardinality({ t \in Threads : pc[t] \in {"expand", "grow"} }) =
      Cardinality(Held)

\* The table between any two steps: types, entries where lookups look for them, and
\* a size that counts them.
TableIsSound == TypeOK /\ EntriesInTheirBucket /\ SizeWithoutRemoval

\* Freed memory is only touched after an expansion, by a get that overlaps with a
\* removal, or by an expansion that does: the locks are enough for everything else.
OnlyKnownMisuse ==
  undefined => generation > 0 \/ {"get", "remove"} \subseteq mix \/ unlinked # {}

\* Whatever replaces, removals, expansions and the final destroy do, an object the
\* map has taken is either in it or has gone to a destructor exactly once; only those
\* whose entry was removed during an expansion and came back are another matter: the map
\* holds them although they are destructed, and destructs them again.
ObjectsAreOwned ==
  \A c \in Calls \ revived, kind \in {"key", "value"} :
    key_destructed[<< c, kind >>] + value_destructed[<< c, kind >>] =
      IF c \in moved \ Held THEN 1 ELSE 0

\* Every call returns, unless memory has been corrupted before.
CallsReturn ==
  \A t \in Threads : pc[t] # "idle" ~> pc[t] = "idle" \/ undefined

\* Until freed memory is touched the hash map is a map whose operations take effect
\* at one point in time; only an expansion may undo removals that overlap with it.
Operation(t) ==
  CASE pc[t] \in {"put", "putBucket"} -> "put"
    [] pc[t] \in {"remove", "removeBucket", "removeScan", "removeEntry"} -> "remove"
    [] pc[t] \in {"get", "getBucket", "getScan", "getValue"} -> "get"
    [] OTHER -> "none"

Atomic == INSTANCE AtomicMap
  WITH Values  <- Calls,
       Nothing <- NoCall,
       map     <- [k \in Keys |->
                    LET entries == { node \in UNION { ToSet(buckets[i]) : i \in DOMAIN buckets } :
                                       node.key = k }
                    IN  IF entries = {} THEN NoCall
                        ELSE (CHOOSE node \in entries : TRUE).by],
       call    <- [t \in Threads |->
                    IF Operation(t) = "none" THEN [op |-> "none"]
                    ELSE [op |-> Operation(t), key |-> key[t], value |-> MyCall(t)]]

\* An expansion publishes entries that were removed while it copied the table.
UndoesRemovals ==
  /\ Expanding /\ generation' = generation + 1
  /\ Held \subseteq Held' /\ Held' # Held
  /\ Held' \ Held \subseteq { node.by : node \in unlinked }
  /\ UNCHANGED << key, calls, answer >>

ImplementsAtomicMap ==
  Atomic!Init /\ [][Atomic!Next \/ UndoesRemovals]_(Atomic!vars)

=============================================================================
