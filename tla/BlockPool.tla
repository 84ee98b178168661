------------------------------ MODULE BlockPool ------------------------------
(***************************************************************************)
(* Where the concurrent queue gets its blocks from: requisition_block      *)
(* tries the initial pool, then the lock-free free list, then the heap;    *)
(* add_block_to_free_list gives a block back.                              *)
(*                                                                         *)
(* The free list is a stack whose nodes carry a reference count and a      *)
(* SHOULD_BE_ON_FREELIST bit in one word.  Whoever brings the count to     *)
(* zero while the bit is set puts the node on the list.                    *)
(*                                                                         *)
(* Every action is one access to an atomic variable, with the thread-local *)
(* work around it.  Memory is sequentially consistent.                     *)
(***************************************************************************)
EXTENDS Integers, FiniteSets

CONSTANTS
  Threads,
  PoolBlocks,   \* the blockCount of the constructor
  MaxBlock,     \* bounds the blocks that malloc provides
  Null

\* First the pool's blocks, then the heap's.
Blocks == 0 .. MaxBlock

ASSUME BlockPoolAssumption ==
  /\ IsFiniteSet(Threads)
  /\ MaxBlock \in Nat
  /\ PoolBlocks \in Blocks
  /\ Null \notin Int

VARIABLES
  poolSize,     \* initialBlockPoolSize
  poolIndex,    \* initialBlockPoolIndex
  freeListHead, \* freeList.freeListHead
  freeListNext, \* freeListNext of each block
  freeListRefs, \* freeListRefs of each block
  users,        \* how many calls have handed out a block that is not given back
  created,      \* the blocks allocated on the heap
  pc,           \* where a thread is
  op,           \* the call it is in
  node,         \* the node it works on: node, or head and prevHead
  seen,         \* what it read last: refs or next in try_get, head in add
  resume        \* the head to go on with after a failed compare-exchange

vars == <<poolSize, poolIndex, freeListHead, freeListNext, freeListRefs, users,
          created, pc, op, node, seen, resume>>
lists == <<freeListHead, freeListNext, freeListRefs>>
pool == <<poolSize, poolIndex, created>>

\* The bit above every count that the threads can reach; the code's 2^31.
ShouldBeOnFreeList == 2 * (Cardinality(Threads) + 2)
Word(n) == n % (2 * ShouldBeOnFreeList)
Count(refs) == refs % ShouldBeOnFreeList
BitSet(refs) == refs >= ShouldBeOnFreeList

Goto(t, l) == pc' = [pc EXCEPT ![t] = l]
At(t, l) == pc[t] = l

\* The loop of try_get looks at h next; without a node the list was empty.
Consider(t, h) ==
  /\ node' = [node EXCEPT ![t] = h]
  /\ Goto(t, IF h = Null THEN "allocate" ELSE "loadRefs")

\* The thread's locals die with its call.
Forget(t) ==
  /\ node' = [node EXCEPT ![t] = Null]
  /\ seen' = [seen EXCEPT ![t] = Null]
  /\ resume' = [resume EXCEPT ![t] = Null]

Return(t) == Goto(t, "idle") /\ op' = [op EXCEPT ![t] = "none"] /\ Forget(t)

\* add_knowing_refcount_is_zero returns to add, which returns, or to try_get.
LeaveAdd(t) ==
  IF op[t] = "add" THEN Return(t)
  ELSE Consider(t, resume[t]) /\ UNCHANGED <<op, seen, resume>>

------------------------------------------------------------------------------
(* requisition_block: initial pool, then heap.                             *)

Requisition(t) ==
  /\ At(t, "idle")
  /\ op' = [op EXCEPT ![t] = "requisition"]
  /\ Goto(t, IF poolIndex >= poolSize THEN "loadHead" ELSE "poolBump")
  /\ UNCHANGED <<pool, lists, users, node, seen, resume>>

TakeFromPool(t) ==
  /\ At(t, "poolBump")
  /\ poolIndex' = poolIndex + 1
  /\ IF poolIndex < poolSize
       THEN users' = [users EXCEPT ![poolIndex] = @ + 1] /\ Return(t)
       ELSE Goto(t, "loadHead") /\ UNCHANGED <<users, op, node, seen, resume>>
  /\ UNCHANGED <<poolSize, created, lists>>

\* create<Block>() with CanAlloc; malloc may fail.
Allocate(t) ==
  /\ At(t, "allocate")
  /\ \E b \in Blocks :
       /\ b = PoolBlocks + Cardinality(created)
       /\ created' = created \cup {b}
       /\ users' = [users EXCEPT ![b] = @ + 1]
  /\ Return(t)
  /\ UNCHANGED <<poolSize, poolIndex, lists>>

\* CannotAlloc, or malloc failed: requisition_block returns nullptr.
NoBlock(t) ==
  /\ At(t, "allocate")
  /\ Return(t)
  /\ UNCHANGED <<pool, lists, users>>

------------------------------------------------------------------------------
(* FreeList::try_get                                                       *)

LoadHead(t) ==
  /\ At(t, "loadHead")
  /\ Consider(t, freeListHead)
  /\ UNCHANGED <<pool, lists, users, op, seen, resume>>

LoadRefs(t) ==
  /\ At(t, "loadRefs")
  /\ seen' = [seen EXCEPT ![t] = freeListRefs[node[t]]]
  /\ Goto(t, IF Count(freeListRefs[node[t]]) = 0 THEN "loadHead" ELSE "acquire")
  /\ UNCHANGED <<pool, lists, users, op, node, resume>>

\* Mutant of Acquire: the count is raised even if it has dropped to zero.
AcquireBlindly(t) ==
  /\ At(t, "acquire")
  /\ freeListRefs' = [freeListRefs EXCEPT ![node[t]] = Word(@ + 1)]
  /\ Goto(t, "loadNext")
  /\ UNCHANGED <<pool, freeListHead, freeListNext, users, op, node, seen, resume>>

Acquire(t) ==
  /\ At(t, "acquire")
  /\ IF freeListRefs[node[t]] = seen[t]
       THEN /\ freeListRefs' = [freeListRefs EXCEPT ![node[t]] = Word(@ + 1)]
            /\ Goto(t, "loadNext")
       ELSE freeListRefs' = freeListRefs /\ Goto(t, "loadHead")
  /\ UNCHANGED <<pool, freeListHead, freeListNext, users, op, node, seen, resume>>

LoadNext(t) ==
  /\ At(t, "loadNext")
  /\ seen' = [seen EXCEPT ![t] = freeListNext[node[t]]]
  /\ Goto(t, "takeHead")
  /\ UNCHANGED <<pool, lists, users, op, node, resume>>

\* A failed compare-exchange leaves the current head in head.
TakeHead(t) ==
  /\ At(t, "takeHead")
  /\ IF freeListHead = node[t]
       THEN /\ freeListHead' = seen[t]
            /\ users' = [users EXCEPT ![node[t]] = @ + 1]
            /\ Goto(t, "taken")
            /\ resume' = resume
       ELSE /\ Goto(t, "release")
            /\ resume' = [resume EXCEPT ![t] = freeListHead]
            /\ UNCHANGED <<freeListHead, users>>
  /\ UNCHANGED <<pool, freeListNext, freeListRefs, op, node, seen>>

\* Mutant of DropTwice: only the thread's own reference is dropped.
DropOnce(t) ==
  /\ At(t, "taken")
  /\ freeListRefs' = [freeListRefs EXCEPT ![node[t]] = Word(@ - 1)]
  /\ Return(t)
  /\ UNCHANGED <<pool, freeListHead, freeListNext, users>>

DropTwice(t) ==
  /\ At(t, "taken")
  /\ freeListRefs' = [freeListRefs EXCEPT ![node[t]] = Word(@ - 2)]
  /\ Return(t)
  /\ UNCHANGED <<pool, freeListHead, freeListNext, users>>

\* Mutant of Release: nobody adds the node when the last reference goes.
ReleaseAndForget(t) ==
  /\ At(t, "release")
  /\ freeListRefs' = [freeListRefs EXCEPT ![node[t]] = Word(@ - 1)]
  /\ Consider(t, resume[t])
  /\ UNCHANGED <<pool, freeListHead, freeListNext, users, op, seen, resume>>

Release(t) ==
  /\ At(t, "release")
  /\ freeListRefs' = [freeListRefs EXCEPT ![node[t]] = Word(@ - 1)]
  /\ IF freeListRefs[node[t]] = ShouldBeOnFreeList + 1
       THEN Goto(t, "addLoadHead") /\ node' = node
       ELSE Consider(t, resume[t])
  /\ UNCHANGED <<pool, freeListHead, freeListNext, users, op, seen, resume>>

------------------------------------------------------------------------------
(* FreeList::add and add_knowing_refcount_is_zero                          *)

\* Any thread may give back a block that somebody obtained: a consumer frees
\* what a producer filled.  A block is handed on when its requisition is over.
Add(t) ==
  /\ At(t, "idle")
  /\ \E b \in Blocks :
       /\ users[b] > 0
       /\ \A u \in Threads : ~(pc[u] = "taken" /\ node[u] = b)
       /\ users' = [users EXCEPT ![b] = @ - 1]
       /\ freeListRefs' = [freeListRefs EXCEPT ![b] = Word(@ + ShouldBeOnFreeList)]
       /\ IF freeListRefs[b] = 0
            THEN /\ op' = [op EXCEPT ![t] = "add"]
                 /\ node' = [node EXCEPT ![t] = b]
                 /\ Goto(t, "addLoadHead")
            ELSE UNCHANGED <<op, node, pc>>
  /\ UNCHANGED <<pool, freeListHead, freeListNext, seen, resume>>

AddLoadHead(t) ==
  /\ At(t, "addLoadHead")
  /\ seen' = [seen EXCEPT ![t] = freeListHead]
  /\ Goto(t, "storeNext")
  /\ UNCHANGED <<pool, lists, users, op, node, resume>>

StoreNext(t) ==
  /\ At(t, "storeNext")
  /\ freeListNext' = [freeListNext EXCEPT ![node[t]] = seen[t]]
  /\ Goto(t, "storeRefs")
  /\ UNCHANGED <<pool, freeListHead, freeListRefs, users, op, node, seen, resume>>

StoreRefs(t) ==
  /\ At(t, "storeRefs")
  /\ freeListRefs' = [freeListRefs EXCEPT ![node[t]] = 1]
  /\ Goto(t, "pushHead")
  /\ UNCHANGED <<pool, freeListHead, freeListNext, users, op, node, seen, resume>>

PushHead(t) ==
  /\ At(t, "pushHead")
  /\ IF freeListHead = seen[t]
       THEN freeListHead' = node[t] /\ LeaveAdd(t)
       ELSE /\ freeListHead' = freeListHead
            /\ seen' = [seen EXCEPT ![t] = freeListHead]
            /\ Goto(t, "undo")
            /\ UNCHANGED <<op, node, resume>>
  /\ UNCHANGED <<pool, freeListNext, freeListRefs, users>>

\* Mutant of Undo: tries again whether or not others hold references.
UndoAndRetry(t) ==
  /\ At(t, "undo")
  /\ freeListRefs' = [freeListRefs EXCEPT ![node[t]] = Word(@ + ShouldBeOnFreeList - 1)]
  /\ Goto(t, "storeNext") /\ UNCHANGED <<op, node, seen, resume>>
  /\ UNCHANGED <<pool, freeListHead, freeListNext, users>>

\* The list's reference becomes the bit again; whoever drops the last
\* reference goes on with the node.
Undo(t) ==
  /\ At(t, "undo")
  /\ freeListRefs' = [freeListRefs EXCEPT ![node[t]] = Word(@ + ShouldBeOnFreeList - 1)]
  /\ IF freeListRefs[node[t]] = 1
       THEN Goto(t, "storeNext") /\ UNCHANGED <<op, node, seen, resume>>
       ELSE LeaveAdd(t)
  /\ UNCHANGED <<pool, freeListHead, freeListNext, users>>

------------------------------------------------------------------------------
Init ==
  /\ poolSize \in {0, PoolBlocks}      \* populate_initial_block_list may fail
  /\ poolIndex = 0
  /\ freeListHead = Null
  /\ freeListNext = [b \in Blocks |-> Null]
  /\ freeListRefs = [b \in Blocks |-> 0]
  /\ users = [b \in Blocks |-> 0]
  /\ created = {}
  /\ pc = [t \in Threads |-> "idle"]
  /\ op = [t \in Threads |-> "none"]
  /\ node = [t \in Threads |-> Null]
  /\ seen = [t \in Threads |-> Null]
  /\ resume = [t \in Threads |-> Null]

TryGet(t) ==
  \/ LoadHead(t) \/ LoadRefs(t) \/ Acquire(t) \/ LoadNext(t) \/ TakeHead(t)
  \/ DropTwice(t) \/ Release(t)

AddKnowingRefcountIsZero(t) ==
  AddLoadHead(t) \/ StoreNext(t) \/ StoreRefs(t) \/ PushHead(t) \/ Undo(t)

\* A thread in a call goes on.
Proceed(t) ==
  \/ TakeFromPool(t) \/ Allocate(t) \/ NoBlock(t)
  \/ TryGet(t) \/ AddKnowingRefcountIsZero(t)

Next == \E t \in Threads : Requisition(t) \/ Add(t) \/ Proceed(t)

Spec == Init /\ [][Next]_vars

------------------------------------------------------------------------------
(* Properties                                                              *)

Labels == {"idle", "poolBump", "allocate", "loadHead", "loadRefs", "acquire", "loadNext",
           "takeHead", "taken", "release", "addLoadHead", "storeNext", "storeRefs",
           "pushHead", "undo"}

\* The variables keep their types.
TypeOK ==
  /\ poolSize \in {0, PoolBlocks}
  /\ poolIndex \in Nat
  /\ freeListHead \in Blocks \cup {Null}
  /\ freeListNext \in [Blocks -> Blocks \cup {Null}]
  /\ freeListRefs \in [Blocks -> 0 .. 2 * ShouldBeOnFreeList - 1]
  /\ users \in [Blocks -> Nat]
  /\ created \subseteq Blocks
  /\ pc \in [Threads -> Labels]
  /\ op \in [Threads -> {"none", "requisition", "add"}]
  /\ node \in [Threads -> Blocks \cup {Null}]
  /\ seen \in [Threads -> Nat \cup {Null}]
  /\ resume \in [Threads -> Blocks \cup {Null}]

\* The blocks that the next pointers lead to from x: those in every set that has
\* x and with each block its successor.
Reachable(next, x) ==
  {b \in Blocks : \A s \in SUBSET Blocks :
     {x} \cup {next[a] : a \in s} \subseteq s \cup {Null} => b \in s}

OnList == Reachable(freeListNext, freeListHead)

\* Threads that hold a reference on a block, and threads that are putting it on
\* the list.
Holders(b) ==
  {t \in Threads : node[t] = b /\ pc[t] \in {"loadNext", "takeHead", "taken", "release"}}
Adders(b) ==
  {t \in Threads : node[t] = b
     /\ pc[t] \in {"addLoadHead", "storeNext", "storeRefs", "pushHead", "undo"}}

\* "next and not worry about it changing between now and the time we do the CAS"
\* (concurrentqueue.h:1389): when the compare-exchange of try_get succeeds, the
\* node's next pointer is still the one that was read, although the node may have
\* left the list and come back in between.
NoABA ==
  \A t \in Threads :
    pc[t] = "takeHead" /\ freeListHead = node[t] => freeListNext[node[t]] = seen[t]

\* "we run only one copy of this method per node at a time"
\* (concurrentqueue.h:1422).
OneAdder == \A b \in Blocks : Cardinality(Adders(b)) <= 1

\* A block that is neither in use nor on the list nor being put there is still
\* referenced by a thread that will put it there: no block is lost.
NoBlockLost ==
  \A b \in {i \in 0 .. poolSize - 1 : i < poolIndex} \cup created :
    users[b] > 0 \/ b \in OnList \/ Adders(b) # {}
      \/ (BitSet(freeListRefs[b]) /\ Holders(b) # {})
      \/ \E t \in Threads : pc[t] = "taken" /\ node[t] = b

\* The count is the number of threads that hold a reference, and one for the list
\* from the moment a node is pushed until its taker has dropped that reference.
RefsExact ==
  \A b \in Blocks :
    Count(freeListRefs[b]) =
      Cardinality(Holders(b))
      + (IF \/ b \in OnList
            \/ \E t \in Threads : node[t] = b /\ pc[t] \in {"pushHead", "undo", "taken"}
           THEN 1 ELSE 0)

==============================================================================
