--------------------------- MODULE BlockPoolProofs ---------------------------
(***************************************************************************)
(* Theorems about BlockPool that hold for every number of threads and of   *)
(* blocks.                                                                 *)
(***************************************************************************)
EXTENDS BlockPool, FiniteSetTheorems, TLAPS

-----------------------------------------------------------------------------
(* The inductive invariant.                                                *)

HolderPcs == {"loadNext", "takeHead", "taken", "release"}
AdderPcs == {"addLoadHead", "storeNext", "storeRefs", "pushHead", "undo"}
NodePcs == Labels \ {"idle", "poolBump", "allocate", "loadHead"}

\* A thread's locals are what its place in the call says.  What it read as the
\* next pointer, or wrote there, is still the next pointer.
Locals ==
  \A t \in Threads :
    /\ pc[t] \in NodePcs => node[t] \in Blocks
    /\ pc[t] \in {"takeHead", "storeNext", "storeRefs", "pushHead", "undo"} =>
         seen[t] \in Blocks \cup {Null}
    /\ pc[t] = "acquire" => seen[t] \in Nat /\ seen[t] # 0 /\ seen[t] # ShouldBeOnFreeList
    /\ pc[t] \in {"takeHead", "storeRefs", "pushHead"} => freeListNext[node[t]] = seen[t]

\* The list has no cycle.
Acyclic == \A b \in OnList : b \notin Reachable(freeListNext, freeListNext[b])

\* The threads that are at certain places of a call with b as their node.
AtNode(b, labels) == {t \in Threads : node[t] = b /\ pc[t] \in labels}
Takers(b) == AtNode(b, {"taken"})
Writers(b) == AtNode(b, {"addLoadHead", "storeNext", "storeRefs"})
Pushers(b) == AtNode(b, {"pushHead", "undo"})

\* The list's own reference on a block.
ListHolds(b) == b \in OnList \/ Pushers(b) # {} \/ Takers(b) # {}

\* The whole word: the holders, the list, and the bit.
RefsWord(b) ==
  freeListRefs[b] = Cardinality(Holders(b)) + (IF ListHolds(b) THEN 1 ELSE 0)
                    + (IF BitSet(freeListRefs[b]) THEN ShouldBeOnFreeList ELSE 0)

Allocated == {i \in 0 .. poolSize - 1 : i < poolIndex} \cup created

\* A block is on the list, or in use, or being added by one thread, or waits for
\* its last holder, or has never been handed out.
Phase(b) ==
  /\ users[b] \in {0, 1}
  /\ b \in OnList => users[b] = 0 /\ Adders(b) = {} /\ ~BitSet(freeListRefs[b])
  /\ users[b] = 1 => Adders(b) = {} /\ ~BitSet(freeListRefs[b])
  /\ Takers(b) # {} => users[b] = 1 /\ \E t \in Threads : Takers(b) = {t}
  /\ Adders(b) # {} => \E t \in Threads : Adders(b) = {t}
  /\ Writers(b) # {} => freeListRefs[b] = ShouldBeOnFreeList
  /\ Pushers(b) # {} => ~BitSet(freeListRefs[b])
  /\ users[b] = 0 /\ b \notin OnList /\ Adders(b) = {} =>
       (BitSet(freeListRefs[b]) /\ Holders(b) # {}) \/ b \notin Allocated
  /\ b \notin Allocated => freeListRefs[b] = 0 /\ users[b] = 0

Numbered == created = PoolBlocks .. PoolBlocks + Cardinality(created) - 1

IInv ==
  /\ TypeOK
  /\ Locals
  /\ Acyclic
  /\ Numbered
  /\ \A b \in Blocks : RefsWord(b) /\ Phase(b)

-----------------------------------------------------------------------------
(* The list.  Pointers stands for any value of freeListNext.               *)

Pointers == [Blocks -> Blocks \cup {Null}]

\* From Null nothing can be reached, from a block itself and what follows it.
LEMMA ReachableStep ==
  ASSUME NEW next \in Pointers
  PROVE  /\ Reachable(next, Null) = {}
         /\ \A b \in Blocks : Reachable(next, b) = {b} \cup Reachable(next, next[b])
<1> USE DEF Pointers, Reachable
<1>1. Reachable(next, Null) = {}
  BY BlockPoolAssumption DEF BlockPoolAssumption, Blocks
<1>2. ASSUME NEW b \in Blocks
      PROVE  Reachable(next, b) = {b} \cup Reachable(next, next[b])
  <2>1. Reachable(next, b) \subseteq {b} \cup Reachable(next, next[b])
    <3> DEFINE S == {b} \cup Reachable(next, next[b])
    <3>1. {b} \cup {next[a] : a \in S} \subseteq S \cup {Null}
      OBVIOUS
    <3>2. S \in SUBSET Blocks
      OBVIOUS
    <3>3. QED
      BY <3>1, <3>2
  <2>2. {b} \cup Reachable(next, next[b]) \subseteq Reachable(next, b)
    BY BlockPoolAssumption DEF BlockPoolAssumption, Blocks
  <2>3. QED
    BY <2>1, <2>2
<1>3. QED
  BY <1>1, <1>2

\* What can be reached is closed: with a block, its successor.
LEMMA ReachableClosed ==
  ASSUME NEW next \in Pointers, NEW x \in Blocks \cup {Null}, NEW b \in Reachable(next, x)
  PROVE  Reachable(next, next[b]) \subseteq Reachable(next, x)
BY DEF Pointers, Reachable

\* A pointer that is not reached does not matter.
LEMMA ReachableFrame ==
  ASSUME NEW next \in Pointers, NEW x \in Blocks \cup {Null},
         NEW n \in Blocks \ Reachable(next, x), NEW changed \in Pointers,
         \A b \in Blocks \ {n} : changed[b] = next[b]
  PROVE  Reachable(changed, x) = Reachable(next, x)
<1> USE DEF Pointers, Reachable
<1>1. Reachable(changed, x) \subseteq Reachable(next, x)
  <2> DEFINE S == Reachable(next, x)
  <2>1. {x} \cup {next[a] : a \in S} \subseteq S \cup {Null}
    OBVIOUS
  <2>2. {x} \cup {changed[a] : a \in S} \subseteq S \cup {Null}
    BY <2>1
  <2>3. S \in SUBSET Blocks
    OBVIOUS
  <2>4. QED
    BY <2>2, <2>3
<1>2. Reachable(next, x) \subseteq Reachable(changed, x)
  <2> DEFINE S == Reachable(changed, x)
  <2>1. {x} \cup {changed[a] : a \in S} \subseteq S \cup {Null}
    OBVIOUS
  <2>2. n \notin S
    BY <1>1
  <2>3. {x} \cup {next[a] : a \in S} \subseteq S \cup {Null}
    BY <2>1, <2>2
  <2>4. S \in SUBSET Blocks
    OBVIOUS
  <2>5. QED
    BY <2>3, <2>4
<1>3. QED
  BY <1>1, <1>2
-----------------------------------------------------------------------------
(* The reference counts.                                                   *)

\* The bit is above every count.
LEMMA BitNat ==
  /\ Cardinality(Threads) \in Nat
  /\ ShouldBeOnFreeList \in Nat
  /\ ShouldBeOnFreeList = 2 * Cardinality(Threads) + 4
<1>1. Cardinality(Threads) \in Nat
  BY FS_CardinalityType, BlockPoolAssumption DEF BlockPoolAssumption
<1>2. QED
  BY <1>1 DEF ShouldBeOnFreeList

\* Below 2 * ShouldBeOnFreeList the word is the count plus the bit.
LEMMA WordFits ==
  /\ \A i \in Int : Word(i) \in 0 .. 2 * ShouldBeOnFreeList - 1
  /\ \A n \in 0 .. 2 * ShouldBeOnFreeList - 1 :
       /\ Word(n) = n
       /\ Count(n) = IF BitSet(n) THEN n - ShouldBeOnFreeList ELSE n
<1> DEFINE m == ShouldBeOnFreeList
<1>1. m \in Nat /\ m > 0
  BY BitNat
<1> HIDE DEF m
<1>2. ASSUME NEW i \in Int
      PROVE  i % (2 * m) \in 0 .. 2 * m - 1
  BY <1>1
<1>3. ASSUME NEW n \in 0 .. 2 * m - 1
      PROVE  n % (2 * m) = n
  BY <1>1
<1>4. ASSUME NEW n \in 0 .. 2 * m - 1
      PROVE  n % m = IF n >= m THEN n - m ELSE n
  BY <1>1
<1>5. QED
  BY <1>2, <1>3, <1>4 DEF m, Word, Count, BitSet

LEMMA HoldersFinite ==
  \A b : /\ Holders(b) \subseteq Threads
         /\ IsFiniteSet(Holders(b))
         /\ Cardinality(Holders(b)) \in 0 .. Cardinality(Threads)
         /\ Cardinality(Holders(b)) = 0 <=> Holders(b) = {}
<1> TAKE b
<1>1. Holders(b) \in SUBSET Threads
  BY DEF Holders
<1>2. QED
  BY <1>1, FS_Subset, FS_CardinalityType, FS_EmptySet, BlockPoolAssumption
  DEF BlockPoolAssumption

\* A step of one thread.
OnlyMoves(t) ==
  \A u \in Threads \ {t} : pc'[u] = pc[u] /\ node'[u] = node[u]

Delta(x, S) == IF x \in S THEN 1 ELSE 0

LEMMA HoldersStep ==
  ASSUME NEW t \in Threads, OnlyMoves(t), NEW b
  PROVE  /\ Cardinality(Holders(b)') \in 0 .. Cardinality(Threads)
         /\ Cardinality(Holders(b)') =
              Cardinality(Holders(b)) + Delta(t, Holders(b)') - Delta(t, Holders(b))
<1>1. Holders(b)' \in SUBSET Threads
  BY DEF Holders
<1>2. IsFiniteSet(Holders(b)') /\ Cardinality(Holders(b)') \in 0 .. Cardinality(Threads)
  BY <1>1, FS_Subset, FS_CardinalityType, BlockPoolAssumption DEF BlockPoolAssumption
<1>3. Holders(b)' \ {t} = Holders(b) \ {t}
  BY DEF Holders, OnlyMoves
<1>4. /\ Cardinality(Holders(b) \ {t}) = Cardinality(Holders(b)) - Delta(t, Holders(b))
      /\ Cardinality(Holders(b)' \ {t}) = Cardinality(Holders(b)') - Delta(t, Holders(b)')
  BY <1>2, HoldersFinite, FS_RemoveElement, FS_CardinalityType, SMTT(30) DEF Delta
<1>5. Cardinality(Holders(b)) \in Nat /\ Cardinality(Threads) \in Nat
  BY HoldersFinite, BitNat
<1>6. QED
  BY <1>2, <1>3, <1>4, <1>5 DEF Delta

LEMMA HoldersJoin ==
  ASSUME NEW t \in Threads, OnlyMoves(t), NEW b, t \in Holders(b)', t \notin Holders(b)
  PROVE  Cardinality(Holders(b)') = Cardinality(Holders(b)) + 1 /\ Holders(b)' # {}
<1>1. Cardinality(Holders(b)) \in Nat
  BY HoldersFinite, BitNat
<1>2. Cardinality(Holders(b)') = Cardinality(Holders(b)) + 1 - 0
  BY HoldersStep DEF Delta
<1>3. QED
  BY <1>1, <1>2

LEMMA HoldersLeave ==
  ASSUME NEW t \in Threads, OnlyMoves(t), NEW b, t \notin Holders(b)', t \in Holders(b)
  PROVE  /\ Cardinality(Holders(b)') = Cardinality(Holders(b)) - 1
         /\ Cardinality(Holders(b)) \in Nat \ {0}
         /\ Cardinality(Holders(b)') = 0 <=> Holders(b)' = {}
<1>1. Cardinality(Holders(b)) \in Nat \ {0}
  BY HoldersFinite, BitNat
<1>2. Cardinality(Holders(b)') = Cardinality(Holders(b)) + 0 - 1
  BY HoldersStep DEF Delta
<1>3. Holders(b)' \in SUBSET Threads
  BY DEF Holders
<1>4. Cardinality(Holders(b)') = 0 <=> Holders(b)' = {}
  BY <1>3, FS_Subset, FS_EmptySet, BlockPoolAssumption DEF BlockPoolAssumption
<1>5. QED
  BY <1>1, <1>2, <1>4

\* What RefsWord says of the size of a word.
LEMMA RefsBound ==
  ASSUME NEW b \in Blocks, RefsWord(b)
  PROVE  /\ freeListRefs[b] \in 0 .. 2 * ShouldBeOnFreeList - 1
         /\ freeListRefs[b] <=
              Cardinality(Threads) + 1
                + (IF BitSet(freeListRefs[b]) THEN ShouldBeOnFreeList ELSE 0)
         /\ Count(freeListRefs[b]) = Cardinality(Holders(b)) + (IF ListHolds(b) THEN 1 ELSE 0)
BY BitNat, WordFits, HoldersFinite DEF RefsWord

-----------------------------------------------------------------------------
(* Types and locals.                                                       *)

LEMMA BlocksNat ==
  /\ Blocks \subseteq Nat /\ 0 \in Blocks /\ PoolBlocks \in Blocks
  /\ Null \notin Int
BY BlockPoolAssumption DEF BlockPoolAssumption, Blocks

LEMMA InitIInv == Init => IInv
<1> SUFFICES ASSUME Init PROVE IInv
  OBVIOUS
<1> USE BlockPoolAssumption DEF BlockPoolAssumption
<1>1. \A b \in Blocks : /\ Holders(b) = {} /\ Adders(b) = {}
                         /\ Takers(b) = {} /\ Pushers(b) = {} /\ Writers(b) = {}
  BY DEF Init, Holders, Adders, Takers, Pushers, Writers, AtNode
<1>2. OnList = {}
  BY ReachableStep DEF Init, OnList, Pointers
<1>3. TypeOK
  BY BitNat DEF Init, TypeOK, Labels, Blocks
<1>4. Locals /\ Acyclic
  BY <1>2 DEF Init, Locals, Acyclic, NodePcs
<1>5. Numbered
  BY FS_EmptySet DEF Init, Numbered, Blocks
<1>6. Allocated = {}
  BY DEF Init, Allocated, Blocks
<1>7. ASSUME NEW b \in Blocks PROVE RefsWord(b) /\ Phase(b)
  <2>1. /\ ~ListHolds(b)
        /\ users[b] = 0 /\ freeListRefs[b] = 0 /\ ~BitSet(freeListRefs[b])
    BY <1>1, <1>2, BitNat DEF Init, ListHolds, BitSet
  <2>2. Cardinality({}) = 0
    BY FS_EmptySet
  <2>3. RefsWord(b)
    BY <1>1, <2>1, <2>2 DEF RefsWord
  <2>4. Phase(b)
    BY <1>1, <1>2, <1>6, <2>1 DEF Phase
  <2>5. QED
    BY <2>3, <2>4
<1>8. QED
  BY <1>3, <1>4, <1>5, <1>7 DEF IInv

LEMMA StepType ==
  ASSUME IInv, NEW t \in Threads, Requisition(t) \/ Add(t) \/ Proceed(t)
  PROVE  TypeOK'
<1> USE BlocksNat DEF TypeOK, Labels, pool, lists, Goto, At, Return, Forget, Consider, LeaveAdd
<1>1. TypeOK
  BY DEF IInv
<1>2. pc[t] \notin {"idle", "poolBump", "allocate", "loadHead"} => node[t] \in Blocks
  BY <1>1 DEF IInv, Locals, NodePcs
<1>3. pc[t] \in {"takeHead", "storeNext", "pushHead"} => seen[t] \in Blocks \cup {Null}
  BY DEF IInv, Locals
<1>4. ShouldBeOnFreeList \in Nat /\ \A b \in Blocks : freeListRefs[b] \in Nat
  BY <1>1, BitNat
<1>5. \A i \in Int : Word(i) \in 0 .. 2 * ShouldBeOnFreeList - 1
  BY WordFits
<1>6. CASE Requisition(t)
  BY <1>1, <1>6 DEF Requisition
<1>7. CASE TakeFromPool(t)
  <2>1. CASE poolIndex < poolSize
    <3>1. poolIndex \in Blocks
      BY <1>1, <2>1, BlockPoolAssumption DEF BlockPoolAssumption, Blocks
    <3>2. QED
      BY <1>1, <1>7, <2>1, <3>1 DEF TakeFromPool
  <2>2. CASE ~(poolIndex < poolSize)
    BY <1>1, <1>7, <2>2 DEF TakeFromPool
  <2>3. QED
    BY <2>1, <2>2
<1>8. CASE Allocate(t)
  <2>1. PICK b \in Blocks : /\ created' = created \cup {b}
                            /\ users' = [users EXCEPT ![b] = @ + 1]
    BY <1>8 DEF Allocate
  <2>2. Return(t) /\ UNCHANGED <<poolSize, poolIndex, lists>>
    BY <1>8 DEF Allocate
  <2>3. QED
    BY <1>1, <2>1, <2>2
<1>9. CASE NoBlock(t)
  BY <1>1, <1>9 DEF NoBlock
<1>10. CASE LoadHead(t)
  BY <1>1, <1>10 DEF LoadHead
<1>11. CASE LoadRefs(t)
  <2>1. node[t] \in Blocks
    BY <1>2, <1>11 DEF LoadRefs
  <2>2. QED
    BY <1>1, <1>4, <1>11, <2>1 DEF LoadRefs
<1>12. CASE Acquire(t)
  <2>1. freeListRefs' \in [Blocks -> 0 .. 2 * ShouldBeOnFreeList - 1]
    BY <1>1, <1>2, <1>5, <1>12 DEF Acquire
  <2>2. QED
    BY <1>1, <1>12, <2>1 DEF Acquire
<1>13. CASE LoadNext(t)
  BY <1>1, <1>2, <1>13 DEF LoadNext
<1>14. CASE TakeHead(t)
  BY <1>1, <1>2, <1>3, <1>14 DEF TakeHead
<1>15. CASE DropTwice(t)
  <2>1. node[t] \in Blocks /\ freeListRefs[node[t]] \in Nat
    BY <1>2, <1>4, <1>15 DEF DropTwice
  <2>2. freeListRefs[node[t]] - 2 \in Int
    BY <1>4, <2>1
  <2>3. Word(freeListRefs[node[t]] - 2) \in 0 .. 2 * ShouldBeOnFreeList - 1
    BY <1>5, <2>2, Zenon
  <2>4. freeListRefs' \in [Blocks -> 0 .. 2 * ShouldBeOnFreeList - 1]
    BY <1>1, <1>15, <2>1, <2>3 DEF DropTwice
  <2>5. QED
    BY <1>1, <1>15, <2>4 DEF DropTwice
<1>16. CASE Release(t)
  <2>1. node[t] \in Blocks /\ freeListRefs[node[t]] \in Nat
    BY <1>2, <1>4, <1>16 DEF Release
  <2>2. freeListRefs[node[t]] - 1 \in Int
    BY <1>4, <2>1
  <2>3. Word(freeListRefs[node[t]] - 1) \in 0 .. 2 * ShouldBeOnFreeList - 1
    BY <1>5, <2>2, Zenon
  <2>4. freeListRefs' \in [Blocks -> 0 .. 2 * ShouldBeOnFreeList - 1]
    BY <1>1, <1>16, <2>1, <2>3 DEF Release
  <2>5. QED
    BY <1>1, <1>16, <2>4 DEF Release
<1>17. CASE Add(t)
  <2>1. PICK b \in Blocks :
           /\ users[b] > 0
           /\ users' = [users EXCEPT ![b] = @ - 1]
           /\ freeListRefs' = [freeListRefs EXCEPT ![b] = Word(@ + ShouldBeOnFreeList)]
           /\ \/ /\ op' = [op EXCEPT ![t] = "add"]
                 /\ node' = [node EXCEPT ![t] = b]
                 /\ Goto(t, "addLoadHead")
              \/ UNCHANGED <<op, node, pc>>
    BY <1>17 DEF Add
  <2>2. freeListRefs' \in [Blocks -> 0 .. 2 * ShouldBeOnFreeList - 1]
    BY <1>1, <1>4, <1>5, <2>1
  <2>3. QED
    BY <1>1, <1>17, <2>1, <2>2 DEF Add
<1>18. CASE AddLoadHead(t)
  BY <1>1, <1>18 DEF AddLoadHead
<1>19. CASE StoreNext(t)
  BY <1>1, <1>2, <1>3, <1>19 DEF StoreNext
<1>20. CASE StoreRefs(t)
  <2>1. 1 \in 0 .. 2 * ShouldBeOnFreeList - 1
    BY BitNat
  <2>2. QED
    BY <1>1, <1>2, <1>20, <2>1 DEF StoreRefs
<1>21. CASE PushHead(t)
  BY <1>1, <1>2, <1>21 DEF PushHead
<1>22. CASE Undo(t)
  <2>1. node[t] \in Blocks /\ freeListRefs[node[t]] \in Nat
    BY <1>2, <1>4, <1>22 DEF Undo
  <2>2. freeListRefs[node[t]] + ShouldBeOnFreeList - 1 \in Int
    BY <1>4, <2>1
  <2>3. Word(freeListRefs[node[t]] + ShouldBeOnFreeList - 1) \in 0 .. 2 * ShouldBeOnFreeList - 1
    BY <1>5, <2>2, Zenon
  <2>4. freeListRefs' \in [Blocks -> 0 .. 2 * ShouldBeOnFreeList - 1]
    BY <1>1, <1>22, <2>1, <2>3 DEF Undo
  <2>5. QED
    BY <1>1, <1>22, <2>4 DEF Undo
<1>23. QED
  BY <1>6, <1>7, <1>8, <1>9, <1>10, <1>11, <1>12, <1>13, <1>14, <1>15, <1>16, <1>17,
     <1>18, <1>19, <1>20, <1>21, <1>22 DEF Proceed, TryGet, AddKnowingRefcountIsZero

\* Nobody holds a block whose next pointer is being written, and nobody else adds it.
LEMMA WriterAlone ==
  ASSUME IInv, NEW b \in Blocks, NEW t \in Writers(b)
  PROVE  Holders(b) = {} /\ ~ListHolds(b) /\ Adders(b) = {t}
<1>1. RefsWord(b) /\ freeListRefs[b] = ShouldBeOnFreeList
  BY DEF IInv, Phase
<1>2. Cardinality(Holders(b)) = 0 /\ ~ListHolds(b)
  <2>1. BitSet(ShouldBeOnFreeList) /\ ShouldBeOnFreeList \in Nat
    BY BitNat DEF BitSet
  <2>2. Cardinality(Holders(b)) \in Nat
    BY HoldersFinite, BitNat
  <2>3. QED
    BY <1>1, <2>1, <2>2 DEF RefsWord
<1>3. t \in Adders(b)
  BY DEF Writers, AtNode, Adders
<1>4. QED
  BY <1>2, <1>3, HoldersFinite DEF IInv, Phase

LEMMA StepLocals ==
  ASSUME IInv, NEW t \in Threads, Requisition(t) \/ Add(t) \/ Proceed(t)
  PROVE  Locals'
<1> USE BlocksNat DEF Locals, NodePcs, Labels, pool, lists, Goto, At, Return, Forget,
      Consider, LeaveAdd
<1>1. TypeOK /\ Locals
  BY DEF IInv
<1>2. pc \in [Threads -> Labels] /\ node \in [Threads -> Blocks \cup {Null}]
      /\ seen \in [Threads -> Nat \cup {Null}] /\ resume \in [Threads -> Blocks \cup {Null}]
      /\ freeListHead \in Blocks \cup {Null}
      /\ freeListNext \in [Blocks -> Blocks \cup {Null}]
  BY <1>1 DEF TypeOK
<1>5. CASE Requisition(t)
  BY <1>1, <1>2, <1>5 DEF Requisition
<1>6. CASE TakeFromPool(t)
  BY <1>1, <1>2, <1>6 DEF TakeFromPool
<1>7. CASE Allocate(t)
  BY <1>1, <1>2, <1>7 DEF Allocate
<1>8. CASE NoBlock(t)
  BY <1>1, <1>2, <1>8 DEF NoBlock
<1>9. CASE LoadHead(t)
  BY <1>1, <1>2, <1>9 DEF LoadHead
<1>10. CASE LoadRefs(t)
  <2>1. /\ freeListRefs[node[t]] \in Nat
        /\ Count(freeListRefs[node[t]]) # 0 =>
             /\ freeListRefs[node[t]] # 0
             /\ freeListRefs[node[t]] # ShouldBeOnFreeList
    <3>1. freeListRefs[node[t]] \in 0 .. 2 * ShouldBeOnFreeList - 1
      BY <1>1, <1>10 DEF LoadRefs, TypeOK
    <3>2. QED
      BY <3>1, WordFits, BitNat DEF BitSet
  <2>2. QED
    BY <1>1, <1>2, <1>10, <2>1 DEF LoadRefs
<1>11. CASE Acquire(t)
  BY <1>1, <1>2, <1>11 DEF Acquire
<1>12. CASE LoadNext(t)
  BY <1>1, <1>2, <1>12 DEF LoadNext
<1>13. CASE TakeHead(t)
  BY <1>1, <1>2, <1>13 DEF TakeHead
<1>14. CASE DropTwice(t)
  BY <1>1, <1>2, <1>14 DEF DropTwice
<1>15. CASE Release(t)
  BY <1>1, <1>2, <1>15 DEF Release
<1>16. CASE Add(t)
  BY <1>1, <1>2, <1>16 DEF Add
<1>17. CASE AddLoadHead(t)
  BY <1>1, <1>2, <1>17 DEF AddLoadHead
<1>18. CASE StoreNext(t)
  <2>1. node[t] \in Blocks /\ t \in Writers(node[t])
    BY <1>1, <1>18 DEF StoreNext, Writers, AtNode
  <2>2. \A u \in Threads \ {t} :
          pc[u] \in {"takeHead", "storeRefs", "pushHead"} => node[u] # node[t]
    <3>1. Holders(node[t]) = {} /\ Adders(node[t]) = {t}
      BY <2>1, WriterAlone
    <3>2. QED
      BY <3>1 DEF Holders, Adders
  <2>3. QED
    BY <1>1, <1>2, <1>18, <2>1, <2>2 DEF StoreNext
<1>19. CASE StoreRefs(t)
  BY <1>1, <1>2, <1>19 DEF StoreRefs
<1>20. CASE PushHead(t)
  BY <1>1, <1>2, <1>20 DEF PushHead
<1>21. CASE Undo(t)
  BY <1>1, <1>2, <1>21 DEF Undo
<1>22. QED
  BY <1>5, <1>6, <1>7, <1>8, <1>9, <1>10, <1>11, <1>12, <1>13, <1>14, <1>15, <1>16,
     <1>17, <1>18, <1>19, <1>20, <1>21 DEF Proceed, TryGet, AddKnowingRefcountIsZero

-----------------------------------------------------------------------------
(* A step concerns one block at most.                                      *)

Unaffected(b) ==
  /\ Holders(b)' = Holders(b) /\ Takers(b)' = Takers(b)
  /\ Writers(b)' = Writers(b) /\ Pushers(b)' = Pushers(b)
  /\ b \in OnList' <=> b \in OnList
  /\ b \in Allocated' <=> b \in Allocated
  /\ freeListRefs'[b] = freeListRefs[b]
  /\ users'[b] = users[b]

LEMMA AddersSplit == \A b : Adders(b) = Writers(b) \cup Pushers(b)
BY DEF Adders, Writers, Pushers, AtNode

LEMMA UnaffectedStep ==
  ASSUME NEW b \in Blocks, RefsWord(b), Phase(b), Unaffected(b)
  PROVE  RefsWord(b)' /\ Phase(b)'
<1>1. ListHolds(b)' = ListHolds(b)
  BY DEF ListHolds, Unaffected
<1>2. Adders(b)' = Adders(b)
  BY DEF Adders, Writers, Pushers, AtNode, Unaffected
<1>3. RefsWord(b)'
  BY <1>1 DEF Unaffected, RefsWord
<1>4. Phase(b)'
  BY <1>2 DEF Unaffected, Phase
<1>5. QED
  BY <1>3, <1>4

\* The places that matter to a block.
HolderOnly == {"loadNext", "takeHead", "release"}
WriterPcs == {"addLoadHead", "storeNext", "storeRefs"}
PusherPcs == {"pushHead", "undo"}
Bystander == Labels \ (HolderPcs \cup AdderPcs)

\* A thread that moves on without changing its part.
LEMMA QuietStep ==
  ASSUME IInv, TypeOK', Locals', NEW t \in Threads, OnlyMoves(t),
         UNCHANGED <<lists, users, created>>, Allocated' = Allocated,
         \/ {pc[t], pc'[t]} \subseteq Bystander
         \/ /\ node'[t] = node[t]
            /\ \/ {pc[t], pc'[t]} \subseteq HolderOnly
               \/ {pc[t], pc'[t]} \subseteq WriterPcs
               \/ {pc[t], pc'[t]} \subseteq PusherPcs
  PROVE  IInv'
<1>1. \A b : /\ Holders(b)' = Holders(b) /\ Takers(b)' = Takers(b)
             /\ Writers(b)' = Writers(b) /\ Pushers(b)' = Pushers(b)
  BY DEF Holders, Takers, Writers, Pushers, AtNode, Bystander, Labels, HolderPcs,
         AdderPcs, HolderOnly, WriterPcs, PusherPcs, OnlyMoves
<1>2. OnList' = OnList
  BY DEF OnList, lists
<1>3. Acyclic' /\ Numbered'
  BY <1>2 DEF IInv, Acyclic, Numbered, lists
<1>4. \A b \in Blocks : Unaffected(b)
  BY <1>1, <1>2 DEF Unaffected, lists
<1>5. QED
  BY <1>3, <1>4, UnaffectedStep DEF IInv

\* A thread matters to the block it works on only.
LEMMA OtherBlocks ==
  ASSUME NEW t \in Threads, OnlyMoves(t), NEW n, NEW b, b # n,
         node[t] = n \/ pc[t] \in Bystander,
         node'[t] = n \/ pc'[t] \in Bystander
  PROVE  /\ Holders(b)' = Holders(b) /\ Takers(b)' = Takers(b)
         /\ Writers(b)' = Writers(b) /\ Pushers(b)' = Pushers(b)
BY DEF Holders, Takers, Writers, Pushers, AtNode, Bystander, Labels, HolderPcs,
       AdderPcs, OnlyMoves

-----------------------------------------------------------------------------
(* Handing out a block that was never used.                                *)

LEMMA FreshAlone ==
  ASSUME IInv, NEW b \in Blocks \ Allocated
  PROVE  /\ freeListRefs[b] = 0 /\ users[b] = 0 /\ ~BitSet(freeListRefs[b])
         /\ Holders(b) = {} /\ ~ListHolds(b) /\ Adders(b) = {}
<1>1. RefsWord(b) /\ Phase(b)
  BY DEF IInv
<1>2. freeListRefs[b] = 0 /\ users[b] = 0
  BY <1>1 DEF Phase
<1>3. ~BitSet(freeListRefs[b]) /\ ShouldBeOnFreeList # 0
  BY <1>2, BitNat DEF BitSet
<1>4. Cardinality(Holders(b)) \in Nat
  BY HoldersFinite, BitNat
<1>5. Cardinality(Holders(b)) = 0 /\ ~ListHolds(b)
  BY <1>1, <1>2, <1>3, <1>4 DEF RefsWord
<1>6. Adders(b) = {}
  BY <1>1, <1>2, <1>3, <1>5, AddersSplit DEF Phase, ListHolds
<1>7. QED
  BY <1>2, <1>3, <1>5, <1>6, HoldersFinite

LEMMA HandOut ==
  ASSUME IInv, TypeOK', Locals', Numbered', NEW t \in Threads, OnlyMoves(t),
         pc[t] \in Bystander, pc'[t] \in Bystander,
         NEW n \in Blocks \ Allocated, Allocated' = Allocated \cup {n},
         users' = [users EXCEPT ![n] = @ + 1], UNCHANGED lists
  PROVE  IInv'
<1>1. \A b : /\ Holders(b)' = Holders(b) /\ Takers(b)' = Takers(b)
             /\ Writers(b)' = Writers(b) /\ Pushers(b)' = Pushers(b)
  BY DEF Holders, Takers, Writers, Pushers, AtNode, Bystander, Labels, HolderPcs,
         AdderPcs, OnlyMoves
<1>2. OnList' = OnList
  BY DEF OnList, lists
<1>3. Acyclic'
  BY <1>2 DEF IInv, Acyclic, lists
<1>4. users'[n] = 1 /\ \A b \in Blocks \ {n} : users'[b] = users[b]
  BY FreshAlone DEF IInv, TypeOK
<1>5. \A b \in Blocks \ {n} : Unaffected(b)
  BY <1>1, <1>2, <1>4 DEF Unaffected, lists
<1>6. RefsWord(n)'
  BY <1>1, <1>2 DEF IInv, RefsWord, ListHolds, lists
<1>7. /\ Takers(n)' = {} /\ Writers(n)' = {} /\ Pushers(n)' = {} /\ n \notin OnList'
      /\ freeListRefs'[n] = freeListRefs[n] /\ ~BitSet(freeListRefs[n])
  BY <1>1, <1>2, FreshAlone, AddersSplit DEF ListHolds, lists
<1>8. Adders(n)' = {}
  BY <1>7 DEF Adders, AtNode, Writers, Pushers
<1>9. Phase(n)'
  BY <1>4, <1>7, <1>8 DEF Phase
<1>10. QED
  BY <1>3, <1>5, <1>6, <1>9, UnaffectedStep DEF IInv

-----------------------------------------------------------------------------
(* The steps that change a word.                                           *)

LEMMA AcquireStep ==
  ASSUME IInv, TypeOK', Locals', NEW t \in Threads, Acquire(t),
         NEW n \in Blocks, n = node[t], freeListRefs[n] = seen[t]
  PROVE  IInv'
<1>1. /\ pc[t] = "acquire" /\ pc' = [pc EXCEPT ![t] = "loadNext"]
      /\ freeListRefs' = [freeListRefs EXCEPT ![n] = Word(@ + 1)]
      /\ UNCHANGED <<poolSize, poolIndex, created, freeListHead, freeListNext, users, node>>
      /\ freeListRefs[n] # 0 /\ freeListRefs[n] # ShouldBeOnFreeList
      /\ pc \in [Threads -> Labels] /\ freeListRefs \in [Blocks -> Nat]
  BY BitNat DEF Acquire, IInv, TypeOK, Locals, NodePcs, At, Goto, pool
<1>2. OnlyMoves(t) /\ pc[t] \in Bystander
  BY <1>1 DEF OnlyMoves, Bystander, Labels, HolderPcs, AdderPcs
<1>3. Takers(n)' = Takers(n) /\ Writers(n)' = Writers(n) /\ Pushers(n)' = Pushers(n)
  BY <1>1 DEF Takers, Writers, Pushers, AtNode
<1>4. Cardinality(Holders(n)') = Cardinality(Holders(n)) + 1 /\ Holders(n)' # {}
  <2>1. t \in Holders(n)' /\ t \notin Holders(n)
    BY <1>1 DEF Holders, Labels
  <2>2. QED
    BY <1>2, <2>1, HoldersJoin
<1>5. OnList' = OnList /\ Allocated' = Allocated
  BY <1>1 DEF OnList, Allocated
<1>6. /\ freeListRefs'[n] = freeListRefs[n] + 1
      /\ BitSet(freeListRefs'[n]) <=> BitSet(freeListRefs[n])
      /\ \A b \in Blocks \ {n} : freeListRefs'[b] = freeListRefs[b]
  BY <1>1, RefsBound, WordFits, BitNat DEF IInv, BitSet
<1>7. \A b \in Blocks \ {n} : Unaffected(b)
  BY <1>1, <1>2, <1>5, <1>6, OtherBlocks DEF Unaffected
<1>8. RefsWord(n)'
  <2>1. Cardinality(Holders(n)) \in Nat
    BY HoldersFinite, BitNat
  <2>2. QED
    BY <1>1, <1>3, <1>4, <1>5, <1>6, <2>1, BitNat DEF IInv, RefsWord, ListHolds
<1>9. Phase(n)'
  <2>1. Adders(n)' = Adders(n)
    BY <1>1 DEF Adders
  <2>2. Writers(n) = {}
    BY <1>1 DEF IInv, Phase
  <2>3. QED
    BY <1>1, <1>3, <1>4, <1>5, <1>6, <2>1, <2>2 DEF IInv, Phase
<1>10. Acyclic' /\ Numbered'
  BY <1>1, <1>5 DEF IInv, Acyclic, Numbered
<1>11. QED
  BY <1>7, <1>8, <1>9, <1>10, UnaffectedStep DEF IInv

LEMMA DropTwiceStep ==
  ASSUME IInv, TypeOK', Locals', NEW t \in Threads, DropTwice(t),
         NEW n \in Blocks, n = node[t]
  PROVE  IInv'
<1>1. /\ pc[t] = "taken" /\ pc' = [pc EXCEPT ![t] = "idle"]
      /\ node' = [node EXCEPT ![t] = Null]
      /\ freeListRefs' = [freeListRefs EXCEPT ![n] = Word(@ - 2)]
      /\ UNCHANGED <<poolSize, poolIndex, created, freeListHead, freeListNext, users>>
      /\ pc \in [Threads -> Labels] /\ node \in [Threads -> Blocks \cup {Null}]
      /\ freeListRefs \in [Blocks -> Nat]
  BY BitNat DEF DropTwice, IInv, TypeOK, At, Goto, pool, Return, Forget
<1>2. OnlyMoves(t) /\ pc'[t] \in Bystander
  BY <1>1 DEF OnlyMoves, Bystander, Labels, HolderPcs, AdderPcs
<1>3. /\ Takers(n) = {t} /\ users[n] = 1 /\ Adders(n) = {} /\ n \notin OnList
      /\ ~BitSet(freeListRefs[n]) /\ n \in Allocated
  <2>1. t \in Takers(n) /\ Phase(n)
    BY <1>1 DEF IInv, Takers, AtNode
  <2>2. QED
    BY <2>1 DEF Phase
<1>4. /\ Takers(n)' = {} /\ Writers(n)' = {} /\ Pushers(n)' = {} /\ Adders(n)' = {}
      /\ Writers(n) = {} /\ Pushers(n) = {}
  BY <1>1, <1>3 DEF Adders, Takers, Writers, Pushers, AtNode
<1>5. /\ Cardinality(Holders(n)') = Cardinality(Holders(n)) - 1
      /\ Cardinality(Holders(n)) \in Nat \ {0}
  <2>1. t \notin Holders(n)' /\ t \in Holders(n)
    BY <1>1 DEF Holders
  <2>2. QED
    BY <1>2, <2>1, HoldersLeave
<1>6. OnList' = OnList /\ Allocated' = Allocated
  BY <1>1 DEF OnList, Allocated
<1>7. freeListRefs[n] = Cardinality(Holders(n)) + 1
  BY <1>3, <1>5 DEF IInv, RefsWord, ListHolds
<1>8. /\ freeListRefs'[n] = freeListRefs[n] - 2
      /\ ~BitSet(freeListRefs'[n])
      /\ \A b \in Blocks \ {n} : freeListRefs'[b] = freeListRefs[b]
  <2>1. freeListRefs[n] - 2 \in 0 .. 2 * ShouldBeOnFreeList - 1
    BY <1>3, <1>5, <1>7, BitNat DEF BitSet
  <2>2. Word(freeListRefs[n] - 2) = freeListRefs[n] - 2
    BY <2>1, WordFits, Zenon
  <2>3. freeListRefs'[n] = freeListRefs[n] - 2
    BY <1>1, <2>2
  <2>4. ~BitSet(freeListRefs'[n])
    BY <1>1, <1>3, <2>3, BitNat DEF BitSet
  <2>5. QED
    BY <1>1, <2>3, <2>4
<1>9. \A b \in Blocks \ {n} : Unaffected(b)
  BY <1>1, <1>2, <1>6, <1>8, OtherBlocks DEF Unaffected
<1>10. RefsWord(n)'
  BY <1>3, <1>4, <1>5, <1>6, <1>7, <1>8 DEF RefsWord, ListHolds
<1>11. Phase(n)'
  BY <1>1, <1>3, <1>4, <1>6, <1>8 DEF Phase
<1>12. Acyclic' /\ Numbered'
  BY <1>1, <1>6 DEF IInv, Acyclic, Numbered
<1>13. QED
  BY <1>9, <1>10, <1>11, <1>12, UnaffectedStep DEF IInv

LEMMA ReleaseStep ==
  ASSUME IInv, TypeOK', Locals', NEW t \in Threads, Release(t),
         NEW n \in Blocks, n = node[t]
  PROVE  IInv'
<1>1. /\ pc[t] = "release"
      /\ freeListRefs' = [freeListRefs EXCEPT ![n] = Word(@ - 1)]
      /\ UNCHANGED <<poolSize, poolIndex, created, freeListHead, freeListNext, users>>
      /\ pc \in [Threads -> Labels] /\ node \in [Threads -> Blocks \cup {Null}]
      /\ freeListRefs \in [Blocks -> Nat]
  BY BitNat DEF Release, IInv, TypeOK, At, pool
<1>2. /\ OnlyMoves(t) /\ pc' \in [Threads -> Labels]
      /\ IF freeListRefs[n] = ShouldBeOnFreeList + 1
           THEN pc'[t] = "addLoadHead" /\ node'[t] = n
           ELSE pc'[t] \in Bystander
  BY <1>1 DEF Release, Consider, Goto, OnlyMoves, Bystander, Labels, HolderPcs, AdderPcs
<1>3. /\ Cardinality(Holders(n)') = Cardinality(Holders(n)) - 1
      /\ Cardinality(Holders(n)) \in Nat \ {0}
      /\ Cardinality(Holders(n)') = 0 <=> Holders(n)' = {}
  <2>1. t \notin Holders(n)' /\ t \in Holders(n)
    BY <1>1, <1>2 DEF Holders, Bystander, HolderPcs
  <2>2. QED
    BY <1>2, <2>1, HoldersLeave
<1>4. OnList' = OnList /\ Allocated' = Allocated
  BY <1>1 DEF OnList, Allocated
<1>5. RefsWord(n) /\ Phase(n) /\ Writers(n) = {}
  <2>1. Holders(n) # {}
    BY <1>3, FS_EmptySet
  <2>2. QED
    BY <2>1, WriterAlone DEF IInv
<1>6. /\ freeListRefs[n] > 0 /\ freeListRefs[n] # ShouldBeOnFreeList
      /\ freeListRefs'[n] = freeListRefs[n] - 1
      /\ \A b \in Blocks \ {n} : freeListRefs'[b] = freeListRefs[b]
  <2>1. freeListRefs[n] > 0 /\ freeListRefs[n] # ShouldBeOnFreeList
    BY <1>3, <1>5, BitNat DEF RefsWord, BitSet
  <2>2. freeListRefs[n] - 1 \in 0 .. 2 * ShouldBeOnFreeList - 1
    BY <1>1, <1>5, <2>1, RefsBound, BitNat
  <2>3. Word(freeListRefs[n] - 1) = freeListRefs[n] - 1
    BY <2>2, WordFits, Zenon
  <2>4. QED
    BY <1>1, <2>1, <2>3
<1>7. BitSet(freeListRefs'[n]) <=> BitSet(freeListRefs[n])
  BY <1>1, <1>6, BitNat DEF BitSet
<1>8. BitSet(freeListRefs[n]) =>
        /\ users[n] = 0 /\ ~ListHolds(n) /\ Adders(n) = {}
        /\ freeListRefs[n] = Cardinality(Holders(n)) + ShouldBeOnFreeList
        /\ n \in Allocated
  <2>1. SUFFICES ASSUME BitSet(freeListRefs[n])
                 PROVE  /\ users[n] = 0 /\ ~ListHolds(n) /\ Adders(n) = {}
                        /\ freeListRefs[n] = Cardinality(Holders(n)) + ShouldBeOnFreeList
                        /\ n \in Allocated
    OBVIOUS
  <2>2. users[n] = 0 /\ ~ListHolds(n) /\ Adders(n) = {}
    BY <1>5, <2>1, AddersSplit DEF Phase, ListHolds
  <2>3. n \in Allocated
    BY <1>5, <1>6 DEF Phase
  <2>4. QED
    BY <1>3, <1>5, <2>1, <2>2, <2>3, BitNat DEF RefsWord
<1>9. \A b \in Blocks \ {n} : Unaffected(b)
  BY <1>1, <1>2, <1>4, <1>6, OtherBlocks DEF Unaffected
<1>10. Takers(n)' = Takers(n) /\ Pushers(n)' = Pushers(n)
  BY <1>1, <1>2 DEF Takers, Pushers, AtNode, OnlyMoves, Bystander, HolderPcs, AdderPcs
<1>11. RefsWord(n)'
  BY <1>1, <1>3, <1>4, <1>5, <1>6, <1>7, <1>10, BitNat DEF RefsWord, ListHolds
<1>12. Phase(n)'
  <2>1. CASE freeListRefs[n] = ShouldBeOnFreeList + 1
    <3>1. BitSet(freeListRefs[n])
      BY <2>1, BitNat DEF BitSet
    <3>2. Adders(n)' = {t} /\ Takers(n) = {} /\ Pushers(n) = {} /\ n \notin OnList
      BY <1>1, <1>2, <1>8, <2>1, <3>1 DEF Adders, OnlyMoves, ListHolds
    <3>3. freeListRefs'[n] = ShouldBeOnFreeList
      BY <1>6, <2>1, BitNat
    <3>4. QED
      BY <1>1, <1>4, <1>8, <1>10, <3>1, <3>2, <3>3 DEF Phase
  <2>2. CASE freeListRefs[n] # ShouldBeOnFreeList + 1
    <3>1. Adders(n)' = Adders(n) /\ Writers(n)' = {}
      BY <1>1, <1>2, <1>5, <2>2
      DEF Adders, Writers, AtNode, OnlyMoves, Bystander, HolderPcs, AdderPcs
    <3>2. BitSet(freeListRefs[n]) => Holders(n)' # {}
      BY <1>3, <1>8, <2>2, BitNat
    <3>3. n \in Allocated
      BY <1>5, <1>6 DEF Phase
    <3>4. QED
      BY <1>1, <1>4, <1>5, <1>7, <1>10, <3>1, <3>2, <3>3 DEF Phase
  <2>3. QED
    BY <2>1, <2>2
<1>13. Acyclic' /\ Numbered'
  BY <1>1, <1>4 DEF IInv, Acyclic, Numbered
<1>14. QED
  BY <1>9, <1>11, <1>12, <1>13, UnaffectedStep DEF IInv

LEMMA AddStep ==
  ASSUME IInv, TypeOK', Locals', NEW t \in Threads, Add(t)
  PROVE  IInv'
<1>1. PICK n \in Blocks :
        /\ users[n] > 0
        /\ \A u \in Threads : ~(pc[u] = "taken" /\ node[u] = n)
        /\ users' = [users EXCEPT ![n] = @ - 1]
        /\ freeListRefs' = [freeListRefs EXCEPT ![n] = Word(@ + ShouldBeOnFreeList)]
        /\ IF freeListRefs[n] = 0
             THEN node' = [node EXCEPT ![t] = n] /\ pc' = [pc EXCEPT ![t] = "addLoadHead"]
             ELSE UNCHANGED <<node, pc>>
  BY DEF Add, Goto
<1>2. /\ pc[t] = "idle"
      /\ UNCHANGED <<poolSize, poolIndex, created, freeListHead, freeListNext>>
      /\ pc \in [Threads -> Labels] /\ node \in [Threads -> Blocks \cup {Null}]
      /\ freeListRefs \in [Blocks -> Nat] /\ users \in [Blocks -> Nat]
  BY BitNat DEF Add, At, pool, IInv, TypeOK
<1>3. /\ OnlyMoves(t) /\ pc[t] \in Bystander
      /\ node'[t] = n \/ pc'[t] \in Bystander
      /\ Holders(n)' = Holders(n)
  BY <1>1, <1>2 DEF OnlyMoves, Bystander, Labels, HolderPcs, AdderPcs, Holders
<1>4. OnList' = OnList /\ Allocated' = Allocated
  BY <1>2 DEF OnList, Allocated
<1>5. /\ users[n] = 1 /\ users'[n] = 0 /\ \A b \in Blocks \ {n} : users'[b] = users[b]
      /\ ~BitSet(freeListRefs[n]) /\ n \in Allocated
      /\ n \notin OnList /\ Adders(n) = {} /\ Takers(n) = {}
  BY <1>1, <1>2 DEF IInv, Phase, Takers, AtNode
<1>6. ~ListHolds(n) /\ freeListRefs[n] = Cardinality(Holders(n))
  <2>1. ~ListHolds(n)
    BY <1>5, AddersSplit DEF ListHolds
  <2>2. QED
    BY <1>5, <2>1, HoldersFinite, BitNat DEF IInv, RefsWord
<1>7. /\ freeListRefs'[n] = freeListRefs[n] + ShouldBeOnFreeList
      /\ BitSet(freeListRefs'[n])
      /\ \A b \in Blocks \ {n} : freeListRefs'[b] = freeListRefs[b]
  <2>1. freeListRefs[n] + ShouldBeOnFreeList \in 0 .. 2 * ShouldBeOnFreeList - 1
    BY <1>2, <1>5, BitNat DEF BitSet
  <2>2. Word(freeListRefs[n] + ShouldBeOnFreeList) = freeListRefs[n] + ShouldBeOnFreeList
    BY <2>1, WordFits, Zenon
  <2>3. freeListRefs'[n] = freeListRefs[n] + ShouldBeOnFreeList
    BY <1>1, <1>2, <2>2
  <2>4. BitSet(freeListRefs'[n])
    BY <1>2, <2>3, BitNat DEF BitSet
  <2>5. QED
    BY <1>1, <1>2, <2>3, <2>4
<1>8. Takers(n)' = {} /\ Pushers(n)' = {} /\ Pushers(n) = {}
  BY <1>1, <1>2, <1>5, AddersSplit DEF Takers, Pushers, AtNode
<1>9. ASSUME NEW b \in Blocks \ {n} PROVE Unaffected(b)
  <2>1. /\ Holders(b)' = Holders(b) /\ Takers(b)' = Takers(b)
        /\ Writers(b)' = Writers(b) /\ Pushers(b)' = Pushers(b)
    BY <1>3, OtherBlocks
  <2>2. QED
    BY <1>4, <1>5, <1>7, <2>1 DEF Unaffected
<1>10. RefsWord(n)'
  <2>1. ~ListHolds(n)'
    BY <1>4, <1>5, <1>8 DEF ListHolds
  <2>2. QED
    BY <1>2, <1>3, <1>6, <1>7, <2>1, BitNat DEF RefsWord
<1>11. Phase(n)'
  <2>1. CASE freeListRefs[n] = 0
    <3>1. Adders(n)' = {t}
      BY <1>1, <1>2, <1>5, <2>1 DEF Adders
    <3>2. freeListRefs'[n] = ShouldBeOnFreeList
      BY <1>7, <2>1, BitNat
    <3>3. QED
      BY <1>4, <1>5, <1>8, <3>1, <3>2 DEF Phase
  <2>2. CASE freeListRefs[n] # 0
    <3>1. Adders(n)' = {} /\ Writers(n)' = {}
      BY <1>1, <1>5, <2>2 DEF Adders, Writers, AtNode
    <3>2. Holders(n)' # {}
      BY <1>3, <1>6, <2>2, HoldersFinite
    <3>3. QED
      BY <1>4, <1>5, <1>7, <1>8, <3>1, <3>2 DEF Phase
  <2>3. QED
    BY <2>1, <2>2
<1>12. Acyclic' /\ Numbered'
  BY <1>2, <1>4 DEF IInv, Acyclic, Numbered
<1>13. QED
  BY <1>9, <1>10, <1>11, <1>12, UnaffectedStep DEF IInv

\* The thread that has set the count to one has become a pusher.
LEMMA StoreRefsStep ==
  ASSUME IInv, TypeOK', Locals', NEW t \in Threads, StoreRefs(t),
         NEW n \in Blocks, n = node[t]
  PROVE  IInv'
<1>1. /\ pc[t] = "storeRefs" /\ pc' = [pc EXCEPT ![t] = "pushHead"]
      /\ freeListRefs' = [freeListRefs EXCEPT ![n] = 1]
      /\ UNCHANGED <<poolSize, poolIndex, created, freeListHead, freeListNext, users, node>>
      /\ pc \in [Threads -> Labels]
      /\ freeListRefs \in [Blocks -> 0 .. 2 * ShouldBeOnFreeList - 1]
  BY DEF StoreRefs, IInv, TypeOK, At, Goto, pool
<1>2. OnlyMoves(t)
  BY <1>1 DEF OnlyMoves
<1>3. t \in Writers(n) /\ Holders(n) = {} /\ ~ListHolds(n) /\ Adders(n) = {t}
  <2>1. t \in Writers(n)
    BY <1>1 DEF Writers, AtNode
  <2>2. QED
    BY <2>1, WriterAlone
<1>4. /\ Holders(n)' = {} /\ Adders(n)' = {t} /\ Pushers(n)' = {t} /\ Writers(n)' = {}
      /\ Takers(n)' = Takers(n)
  BY <1>1, <1>3 DEF Holders, Adders, Pushers, Writers, Takers, AtNode
<1>5. OnList' = OnList /\ Allocated' = Allocated
  BY <1>1 DEF OnList, Allocated
<1>6. /\ freeListRefs'[n] = 1 /\ ~BitSet(freeListRefs'[n])
      /\ \A b \in Blocks \ {n} : freeListRefs'[b] = freeListRefs[b]
  BY <1>1, BitNat DEF BitSet
<1>7. \A b \in Blocks \ {n} : Unaffected(b)
  BY <1>1, <1>2, <1>5, <1>6, OtherBlocks DEF Unaffected
<1>8. RefsWord(n)'
  BY <1>4, <1>6, FS_EmptySet DEF RefsWord, ListHolds
<1>9. Phase(n)'
  <2>1. users[n] = 0 /\ n \in Allocated /\ n \notin OnList /\ Takers(n) = {}
    <3>1. Phase(n) /\ Writers(n) # {}
      BY <1>3 DEF IInv
    <3>2. QED
      BY <1>3, <3>1, BitNat DEF Phase, ListHolds
  <2>2. QED
    BY <1>1, <1>4, <1>5, <1>6, <2>1 DEF Phase
<1>10. Acyclic' /\ Numbered'
  BY <1>1, <1>5 DEF IInv, Acyclic, Numbered
<1>11. QED
  BY <1>7, <1>8, <1>9, <1>10, UnaffectedStep DEF IInv

LEMMA UndoStep ==
  ASSUME IInv, TypeOK', Locals', NEW t \in Threads, Undo(t),
         NEW n \in Blocks, n = node[t]
  PROVE  IInv'
<1>1. /\ pc[t] = "undo"
      /\ freeListRefs' = [freeListRefs EXCEPT ![n] = Word(@ + ShouldBeOnFreeList - 1)]
      /\ UNCHANGED <<poolSize, poolIndex, created, freeListHead, freeListNext, users>>
      /\ pc \in [Threads -> Labels] /\ node \in [Threads -> Blocks \cup {Null}]
      /\ freeListRefs \in [Blocks -> Nat]
  BY BitNat DEF Undo, IInv, TypeOK, At, pool
<1>2. /\ OnlyMoves(t) /\ pc' \in [Threads -> Labels]
      /\ IF freeListRefs[n] = 1 THEN pc'[t] = "storeNext" /\ node'[t] = n
                                ELSE pc'[t] \in Bystander
  BY <1>1 DEF Undo, LeaveAdd, Return, Forget, Consider, Goto, OnlyMoves, Bystander, Labels,
              HolderPcs, AdderPcs
<1>3. /\ Pushers(n) = {t} /\ Adders(n) = {t} /\ users[n] = 0 /\ n \notin OnList
      /\ Writers(n) = {} /\ Takers(n) = {} /\ ~BitSet(freeListRefs[n])
  <2>1. t \in Pushers(n) /\ Phase(n)
    BY <1>1 DEF IInv, Pushers, AtNode
  <2>2. t \notin Writers(n)
    BY <1>1 DEF Writers, AtNode
  <2>3. QED
    BY <2>1, <2>2, AddersSplit DEF Phase
<1>4. Holders(n)' = Holders(n) /\ Takers(n)' = {} /\ Pushers(n)' = {}
  BY <1>1, <1>2, <1>3 DEF Holders, Takers, Pushers, AtNode, OnlyMoves, Bystander,
                          HolderPcs, AdderPcs
<1>5. OnList' = OnList /\ Allocated' = Allocated
  BY <1>1 DEF OnList, Allocated
<1>6. freeListRefs[n] = Cardinality(Holders(n)) + 1 /\ Cardinality(Holders(n)) \in Nat
  BY <1>3, HoldersFinite, BitNat DEF IInv, RefsWord, ListHolds
<1>7. /\ freeListRefs'[n] = Cardinality(Holders(n)) + ShouldBeOnFreeList
      /\ BitSet(freeListRefs'[n])
      /\ \A b \in Blocks \ {n} : freeListRefs'[b] = freeListRefs[b]
  <2>1. freeListRefs[n] + ShouldBeOnFreeList - 1 \in 0 .. 2 * ShouldBeOnFreeList - 1
    BY <1>3, <1>6, BitNat DEF BitSet
  <2>2. Word(freeListRefs[n] + ShouldBeOnFreeList - 1)
          = freeListRefs[n] + ShouldBeOnFreeList - 1
    BY <2>1, WordFits, Zenon
  <2>3. freeListRefs'[n] = Cardinality(Holders(n)) + ShouldBeOnFreeList
    BY <1>1, <1>6, <2>2, BitNat
  <2>4. BitSet(freeListRefs'[n])
    BY <1>6, <2>3, BitNat DEF BitSet
  <2>5. QED
    BY <1>1, <2>3, <2>4
<1>8. \A b \in Blocks \ {n} : Unaffected(b)
  BY <1>1, <1>2, <1>5, <1>7, OtherBlocks DEF Unaffected
<1>9. RefsWord(n)'
  <2>1. ~ListHolds(n)'
    BY <1>3, <1>4, <1>5 DEF ListHolds
  <2>2. QED
    BY <1>4, <1>6, <1>7, <2>1, BitNat DEF RefsWord
<1>10. n \in Allocated
  BY <1>6 DEF IInv, Phase
<1>11. Phase(n)'
  <2>1. CASE freeListRefs[n] = 1
    <3>1. Adders(n)' = {t}
      BY <1>1, <1>2, <1>3, <2>1 DEF Adders, OnlyMoves
    <3>2. freeListRefs'[n] = ShouldBeOnFreeList
      BY <1>6, <1>7, <2>1, BitNat
    <3>3. QED
      BY <1>1, <1>3, <1>4, <1>5, <1>10, <3>1, <3>2 DEF Phase
  <2>2. CASE freeListRefs[n] # 1
    <3>1. Adders(n)' = {} /\ Writers(n)' = {}
      BY <1>1, <1>2, <1>3, <2>2
      DEF Adders, Writers, AtNode, OnlyMoves, Bystander, HolderPcs, AdderPcs
    <3>2. Holders(n) # {}
      BY <1>6, <2>2, HoldersFinite
    <3>3. QED
      BY <1>1, <1>3, <1>4, <1>5, <1>7, <1>10, <3>1, <3>2 DEF Phase
  <2>3. QED
    BY <2>1, <2>2
<1>12. Acyclic' /\ Numbered'
  BY <1>1, <1>5 DEF IInv, Acyclic, Numbered
<1>13. QED
  BY <1>8, <1>9, <1>11, <1>12, UnaffectedStep DEF IInv

-----------------------------------------------------------------------------
(* The steps that change the list.                                         *)

LEMMA TakeHeadStep ==
  ASSUME IInv, TypeOK', Locals', NEW t \in Threads, TakeHead(t),
         NEW n \in Blocks, n = node[t], freeListHead = n
  PROVE  IInv'
<1>1. /\ pc[t] = "takeHead" /\ pc' = [pc EXCEPT ![t] = "taken"]
      /\ freeListHead' = freeListNext[n]
      /\ users' = [users EXCEPT ![n] = @ + 1]
      /\ UNCHANGED <<poolSize, poolIndex, created, freeListNext, freeListRefs, node>>
      /\ pc \in [Threads -> Labels] /\ users \in [Blocks -> Nat]
      /\ freeListNext \in Pointers /\ freeListNext[n] \in Blocks \cup {Null}
  BY DEF TakeHead, IInv, TypeOK, Locals, At, Goto, pool, Pointers
<1>2. OnlyMoves(t)
  BY <1>1 DEF OnlyMoves
<1>3. /\ OnList = {n} \cup Reachable(freeListNext, freeListNext[n])
      /\ OnList' = Reachable(freeListNext, freeListNext[n])
  BY <1>1, ReachableStep DEF OnList
<1>4. n \in OnList /\ n \notin OnList' /\ OnList' = OnList \ {n}
  BY <1>3 DEF IInv, Acyclic
<1>5. Acyclic'
  BY <1>1, <1>4 DEF IInv, Acyclic
<1>6. /\ users[n] = 0 /\ Adders(n) = {} /\ ~BitSet(freeListRefs[n]) /\ Takers(n) = {}
      /\ n \in Allocated /\ RefsWord(n)
  <2>1. Phase(n) /\ RefsWord(n)
    BY DEF IInv
  <2>2. freeListRefs[n] # 0
    <3>1. ListHolds(n) /\ Cardinality(Holders(n)) \in Nat
      BY <1>4, HoldersFinite, BitNat DEF ListHolds
    <3>2. QED
      BY <2>1, <3>1, BitNat DEF RefsWord
  <2>3. QED
    BY <1>4, <2>1, <2>2 DEF Phase
<1>7. /\ Holders(n)' = Holders(n) /\ Adders(n)' = {} /\ Takers(n)' = {t}
      /\ Writers(n)' = {} /\ Pushers(n)' = {}
  BY <1>1, <1>6 DEF Holders, Adders, Takers, Writers, Pushers, AtNode
<1>8. Allocated' = Allocated
  BY <1>1 DEF Allocated
<1>9. ASSUME NEW b \in Blocks \ {n} PROVE Unaffected(b)
  <2>1. /\ Holders(b)' = Holders(b) /\ Takers(b)' = Takers(b)
        /\ Writers(b)' = Writers(b) /\ Pushers(b)' = Pushers(b)
    BY <1>1, <1>2, OtherBlocks
  <2>2. QED
    BY <1>1, <1>4, <1>8, <2>1 DEF Unaffected
<1>10. RefsWord(n)'
  BY <1>1, <1>4, <1>6, <1>7 DEF RefsWord, ListHolds
<1>11. Phase(n)'
  BY <1>1, <1>4, <1>6, <1>7, <1>8 DEF Phase
<1>12. Numbered'
  BY <1>1 DEF IInv, Numbered
<1>13. QED
  BY <1>5, <1>9, <1>10, <1>11, <1>12, UnaffectedStep DEF IInv

\* Writing the next pointer of a block that is not on the list leaves the list alone.
LEMMA StoreNextStep ==
  ASSUME IInv, TypeOK', Locals', NEW t \in Threads, StoreNext(t),
         NEW n \in Blocks, n = node[t]
  PROVE  IInv'
<1>1. /\ pc[t] = "storeNext" /\ pc' = [pc EXCEPT ![t] = "storeRefs"]
      /\ UNCHANGED <<poolSize, poolIndex, created, freeListHead, freeListRefs, users, node>>
      /\ pc \in [Threads -> Labels]
      /\ freeListNext \in Pointers /\ freeListHead \in Blocks \cup {Null}
      /\ freeListNext' \in Pointers
      /\ \A b \in Blocks \ {n} : freeListNext'[b] = freeListNext[b]
  BY DEF StoreNext, IInv, TypeOK, Locals, At, Goto, pool, Pointers
<1>2. OnlyMoves(t)
  BY <1>1 DEF OnlyMoves
<1>3. n \notin OnList
  <2>1. t \in Writers(n)
    BY <1>1 DEF Writers, AtNode
  <2>2. QED
    BY <2>1, WriterAlone DEF ListHolds
<1>4. OnList' = OnList
  <2>1. n \notin Reachable(freeListNext, freeListHead)
    BY <1>3 DEF OnList
  <2>2. Reachable(freeListNext', freeListHead) = Reachable(freeListNext, freeListHead)
    BY <1>1, <2>1, ReachableFrame
  <2>3. QED
    BY <1>1, <2>2 DEF OnList
<1>5. Acyclic'
  <2>1. SUFFICES ASSUME NEW b \in OnList
                 PROVE  b \notin Reachable(freeListNext, freeListNext[b])'
    BY <1>4 DEF Acyclic
  <2>2. b \in Blocks /\ b # n /\ freeListNext[b] \in Blocks \cup {Null}
    BY <1>1, <1>3 DEF OnList, Reachable, Pointers
  <2>3. n \notin Reachable(freeListNext, freeListNext[b])
    BY <1>1, <1>3, ReachableClosed DEF OnList
  <2>4. Reachable(freeListNext', freeListNext[b]) = Reachable(freeListNext, freeListNext[b])
    BY <1>1, <2>2, <2>3, ReachableFrame
  <2>5. freeListNext'[b] = freeListNext[b]
    BY <1>1, <2>2 DEF Pointers
  <2>6. QED
    BY <2>4, <2>5 DEF IInv, Acyclic
<1>6. Allocated' = Allocated
  BY <1>1 DEF Allocated
<1>7. ASSUME NEW b \in Blocks PROVE Unaffected(b)
  <2>1. /\ Holders(b)' = Holders(b) /\ Takers(b)' = Takers(b)
        /\ Writers(b)' = Writers(b) /\ Pushers(b)' = Pushers(b)
    BY <1>1 DEF Holders, Takers, Writers, Pushers, AtNode
  <2>2. QED
    BY <1>1, <1>4, <1>6, <2>1 DEF Unaffected
<1>8. Numbered'
  BY <1>1 DEF IInv, Numbered
<1>9. QED
  BY <1>5, <1>7, <1>8, UnaffectedStep DEF IInv

LEMMA PushHeadStep ==
  ASSUME IInv, TypeOK', Locals', NEW t \in Threads, PushHead(t),
         NEW n \in Blocks, n = node[t], freeListHead = seen[t]
  PROVE  IInv'
<1>1. /\ pc[t] = "pushHead" /\ freeListHead' = n /\ freeListNext[n] = freeListHead
      /\ UNCHANGED <<poolSize, poolIndex, created, freeListNext, freeListRefs, users>>
      /\ pc \in [Threads -> Labels] /\ node \in [Threads -> Blocks \cup {Null}]
      /\ freeListNext \in Pointers
  BY DEF PushHead, IInv, TypeOK, Locals, At, pool, Pointers
<1>2. OnlyMoves(t) /\ pc'[t] \in Bystander
  BY <1>1 DEF PushHead, LeaveAdd, Return, Forget, Consider, Goto, OnlyMoves, Bystander,
              Labels, HolderPcs, AdderPcs
<1>3. /\ Pushers(n) = {t} /\ Adders(n) = {t} /\ users[n] = 0 /\ n \notin OnList
      /\ Writers(n) = {} /\ Takers(n) = {} /\ ~BitSet(freeListRefs[n])
  <2>1. t \in Pushers(n) /\ Phase(n)
    BY <1>1 DEF IInv, Pushers, AtNode
  <2>2. t \notin Writers(n)
    BY <1>1 DEF Writers, AtNode
  <2>3. QED
    BY <2>1, <2>2, AddersSplit DEF Phase
<1>4. OnList' = OnList \cup {n}
  BY <1>1, ReachableStep DEF OnList
<1>5. Acyclic'
  BY <1>1, <1>3, <1>4 DEF IInv, Acyclic, OnList
<1>6. /\ Holders(n)' = Holders(n) /\ Takers(n)' = {} /\ Pushers(n)' = {} /\ Writers(n)' = {}
      /\ Adders(n)' = {}
  BY <1>1, <1>2, <1>3 DEF Holders, Takers, Pushers, Writers, Adders, AtNode, OnlyMoves,
                          Bystander, HolderPcs, AdderPcs
<1>7. Allocated' = Allocated
  BY <1>1 DEF Allocated
<1>8. ASSUME NEW b \in Blocks \ {n} PROVE Unaffected(b)
  <2>1. /\ Holders(b)' = Holders(b) /\ Takers(b)' = Takers(b)
        /\ Writers(b)' = Writers(b) /\ Pushers(b)' = Pushers(b)
    BY <1>2, OtherBlocks
  <2>2. QED
    BY <1>1, <1>4, <1>7, <2>1 DEF Unaffected
<1>9. RefsWord(n)'
  BY <1>1, <1>3, <1>4, <1>6 DEF IInv, RefsWord, ListHolds
<1>10. Phase(n)'
  BY <1>1, <1>3, <1>4, <1>6, <1>7 DEF IInv, Phase
<1>11. Numbered'
  BY <1>1 DEF IInv, Numbered
<1>12. QED
  BY <1>5, <1>8, <1>9, <1>10, <1>11, UnaffectedStep DEF IInv

-----------------------------------------------------------------------------
(* The theorems.                                                           *)

LEMMA CreatedNext ==
  ASSUME IInv
  PROVE  /\ IsFiniteSet(created)
         /\ Cardinality(created) \in Nat
         /\ PoolBlocks + Cardinality(created) \notin created
<1>1. created \in SUBSET (0 .. MaxBlock)
  BY DEF IInv, TypeOK, Blocks
<1>2. IsFiniteSet(created) /\ Cardinality(created) \in Nat
  <2>1. IsFiniteSet(0 .. MaxBlock)
    BY FS_Interval, BlockPoolAssumption DEF BlockPoolAssumption
  <2>2. QED
    BY <1>1, <2>1, FS_Subset, FS_CardinalityType
<1>3. QED
  BY <1>2, BlocksNat DEF IInv, Numbered

LEMMA TakeFromPoolStep ==
  ASSUME IInv, TypeOK', Locals', NEW t \in Threads, TakeFromPool(t)
  PROVE  IInv'
<1>1. OnlyMoves(t) /\ pc[t] \in Bystander /\ pc'[t] \in Bystander
  BY DEF TakeFromPool, IInv, TypeOK, At, Goto, Return, Forget, OnlyMoves, Bystander,
         Labels, HolderPcs, AdderPcs
<1>2. CASE poolIndex < poolSize
  <2>1. poolIndex \in Nat /\ poolSize \in {0, PoolBlocks} /\ PoolBlocks \in 0 .. MaxBlock
        /\ MaxBlock \in Nat
    BY BlockPoolAssumption DEF BlockPoolAssumption, Blocks, IInv, TypeOK
  <2>2. poolIndex \in Blocks
    BY <1>2, <2>1 DEF Blocks
  <2>3. poolIndex \notin Allocated
    <3>1. /\ Cardinality(created) \in Nat
          /\ created = PoolBlocks .. PoolBlocks + Cardinality(created) - 1
      BY CreatedNext DEF IInv, Numbered
    <3>2. poolIndex \notin created
      BY <1>2, <2>1, <3>1
    <3>3. QED
      BY <2>1, <3>2 DEF Allocated
  <2>4. Allocated' = Allocated \cup {poolIndex}
    <3>1. poolIndex' = poolIndex + 1 /\ poolSize' = poolSize /\ created' = created
      BY DEF TakeFromPool
    <3>2. {i \in 0 .. poolSize - 1 : i < poolIndex + 1} =
            {i \in 0 .. poolSize - 1 : i < poolIndex} \cup {poolIndex}
      BY <1>2, <2>1
    <3>3. QED
      BY <3>1, <3>2 DEF Allocated
  <2>5. users' = [users EXCEPT ![poolIndex] = @ + 1] /\ UNCHANGED lists /\ Numbered'
    BY <1>2 DEF TakeFromPool, IInv, Numbered
  <2>6. QED
    BY <1>1, <2>2, <2>3, <2>4, <2>5, HandOut
<1>3. CASE ~(poolIndex < poolSize)
  <2>1. Allocated' = Allocated
    BY <1>3, BlocksNat DEF TakeFromPool, Allocated, IInv, TypeOK
  <2>2. UNCHANGED <<lists, users, created>>
    BY <1>3 DEF TakeFromPool
  <2>3. QED
    BY <1>1, <2>1, <2>2, QuietStep
<1>4. QED
  BY <1>2, <1>3

LEMMA AllocateStep ==
  ASSUME IInv, TypeOK', Locals', NEW t \in Threads, Allocate(t)
  PROVE  IInv'
<1>1. OnlyMoves(t) /\ pc[t] \in Bystander /\ pc'[t] \in Bystander
  BY DEF Allocate, IInv, TypeOK, At, Goto, Return, Forget, OnlyMoves, Bystander,
         Labels, HolderPcs, AdderPcs
<1>2. PICK n \in Blocks : /\ n = PoolBlocks + Cardinality(created)
                          /\ created' = created \cup {n}
                          /\ users' = [users EXCEPT ![n] = @ + 1]
  BY DEF Allocate
<1>3. UNCHANGED <<poolSize, poolIndex, lists>>
  BY DEF Allocate
<1>4. n \notin created /\ n >= PoolBlocks
  BY <1>2, CreatedNext, BlocksNat
<1>5. n \notin Allocated
  BY <1>4, BlocksNat DEF Allocated, IInv, TypeOK
<1>6. Allocated' = Allocated \cup {n}
  BY <1>2, <1>3 DEF Allocated
<1>7. Numbered'
  <2>1. Cardinality(created') = Cardinality(created) + 1
    BY <1>2, <1>4, CreatedNext, FS_AddElement
  <2>2. QED
    BY <1>2, <2>1, CreatedNext, BlocksNat DEF IInv, Numbered
<1>8. QED
  BY <1>1, <1>2, <1>3, <1>5, <1>6, <1>7, HandOut

LEMMA StepIInv ==
  ASSUME IInv, NEW t \in Threads, Requisition(t) \/ Add(t) \/ Proceed(t)
  PROVE  IInv'
<1>1. TypeOK' /\ Locals' /\ TypeOK
  BY StepType, StepLocals DEF IInv
<1>2. pc[t] \in NodePcs => node[t] \in Blocks
  BY DEF IInv, Locals
<1>3. pc \in [Threads -> Labels] /\ node \in [Threads -> Blocks \cup {Null}]
  BY <1>1 DEF TypeOK
<1> USE DEF At, Goto, Return, Forget, Consider, NodePcs, Labels, Bystander, HolderPcs,
            AdderPcs, HolderOnly, WriterPcs, PusherPcs
<1>4. CASE \/ Requisition(t) \/ NoBlock(t) \/ LoadHead(t) \/ LoadRefs(t) \/ LoadNext(t)
           \/ AddLoadHead(t)
           \/ Acquire(t) /\ freeListRefs[node[t]] # seen[t]
           \/ TakeHead(t) /\ freeListHead # node[t]
           \/ PushHead(t) /\ freeListHead # seen[t]
  <2>1. UNCHANGED <<lists, users, created>> /\ Allocated' = Allocated /\ OnlyMoves(t)
    BY <1>3, <1>4 DEF Requisition, NoBlock, LoadHead, LoadRefs, LoadNext, AddLoadHead,
      Acquire, TakeHead, PushHead, pool, lists, Allocated, OnlyMoves
  <2>2. \/ {pc[t], pc'[t]} \subseteq Bystander
        \/ /\ node'[t] = node[t]
           /\ \/ {pc[t], pc'[t]} \subseteq HolderOnly
              \/ {pc[t], pc'[t]} \subseteq WriterPcs
              \/ {pc[t], pc'[t]} \subseteq PusherPcs
    BY <1>3, <1>4 DEF Requisition, NoBlock, LoadHead, LoadRefs, LoadNext, AddLoadHead,
      Acquire, TakeHead, PushHead
  <2>3. QED
    BY <1>1, <2>1, <2>2, QuietStep
<1>5. CASE TakeFromPool(t) \/ Allocate(t) \/ Add(t)
  BY <1>1, <1>5, TakeFromPoolStep, AllocateStep, AddStep
<1>6. CASE Acquire(t) /\ freeListRefs[node[t]] = seen[t]
  BY <1>1, <1>2, <1>6, AcquireStep DEF Acquire
<1>7. CASE TakeHead(t) /\ freeListHead = node[t]
  BY <1>1, <1>2, <1>7, TakeHeadStep DEF TakeHead
<1>8. CASE DropTwice(t)
  BY <1>1, <1>2, <1>8, DropTwiceStep DEF DropTwice
<1>9. CASE Release(t)
  BY <1>1, <1>2, <1>9, ReleaseStep DEF Release
<1>10. CASE StoreNext(t)
  BY <1>1, <1>2, <1>10, StoreNextStep DEF StoreNext
<1>11. CASE StoreRefs(t)
  BY <1>1, <1>2, <1>11, StoreRefsStep DEF StoreRefs
<1>12. CASE PushHead(t) /\ freeListHead = seen[t]
  BY <1>1, <1>2, <1>12, PushHeadStep DEF PushHead
<1>13. CASE Undo(t)
  BY <1>1, <1>2, <1>13, UndoStep DEF Undo
<1>14. QED
  BY <1>4, <1>5, <1>6, <1>7, <1>8, <1>9, <1>10, <1>11, <1>12, <1>13
  DEF Proceed, TryGet, AddKnowingRefcountIsZero

LEMMA StutterIInv == ASSUME IInv, UNCHANGED vars PROVE IInv'
<1> USE DEF vars
<1>1. TypeOK' /\ Locals'
  BY DEF IInv, TypeOK, Locals
<1>2. OnList' = OnList /\ Allocated' = Allocated
  BY DEF OnList, Allocated
<1>3. Acyclic' /\ Numbered'
  BY <1>2 DEF IInv, Acyclic, Numbered
<1>4. \A b : /\ Holders(b)' = Holders(b) /\ Takers(b)' = Takers(b)
             /\ Writers(b)' = Writers(b) /\ Pushers(b)' = Pushers(b)
  BY DEF Holders, Takers, Writers, Pushers, AtNode
<1>5. \A b \in Blocks : Unaffected(b)
  BY <1>2, <1>4 DEF Unaffected
<1>6. QED
  BY <1>1, <1>3, <1>5, UnaffectedStep DEF IInv

THEOREM Invariance == Spec => []IInv
<1>1. IInv /\ [Next]_vars => IInv'
  BY StepIInv, StutterIInv DEF Next
<1>2. QED
  BY <1>1, InitIInv, PTL DEF Spec

\* Typing: the variables of the block pool keep their types.
THEOREM Typing == Spec => []TypeOK
<1>1. IInv => TypeOK
  BY DEF IInv
<1>2. QED
  BY <1>1, Invariance, PTL

\* The compare-exchange of try_get (concurrentqueue.h:1395) never installs a stale
\* next pointer: the reference that the thread holds keeps the node from being
\* put back on the list, so its next pointer cannot be rewritten.
THEOREM NextPointerStable == Spec => []NoABA
<1>1. IInv => NoABA
  BY DEF IInv, Locals, NoABA
<1>2. QED
  BY <1>1, Invariance, PTL

\* At most one thread runs add_knowing_refcount_is_zero for a node
\* (concurrentqueue.h:1422).
THEOREM OneThreadAdds == Spec => []OneAdder
<1>1. ASSUME IInv, NEW b \in Blocks PROVE Cardinality(Adders(b)) <= 1
  <2>1. Adders(b) = {} \/ \E t \in Threads : Adders(b) = {t}
    BY <1>1 DEF IInv, Phase
  <2>2. Cardinality({}) = 0 /\ \A t \in Threads : Cardinality({t}) = 1
    BY FS_EmptySet, FS_Singleton
  <2>3. QED
    BY <2>1, <2>2
<1>2. IInv => OneAdder
  BY <1>1 DEF OneAdder
<1>3. QED
  BY <1>2, Invariance, PTL

\* The reference count of a node is the number of its holders, plus the list's own
\* reference.
THEOREM CountsExact == Spec => []RefsExact
<1>1. ASSUME IInv, NEW b \in Blocks PROVE RefsExact!(b)
  <2>1. Count(freeListRefs[b]) = Cardinality(Holders(b)) + (IF ListHolds(b) THEN 1 ELSE 0)
    BY <1>1, RefsBound DEF IInv
  <2>2. ListHolds(b) <=> \/ b \in OnList
                         \/ \E t \in Threads :
                              node[t] = b /\ pc[t] \in {"pushHead", "undo", "taken"}
    BY DEF ListHolds, Pushers, Takers, AtNode
  <2>3. QED
    BY <2>1, <2>2
<1>2. IInv => RefsExact
  BY <1>1 DEF RefsExact
<1>3. QED
  BY <1>2, Invariance, PTL

\* The count never grows into SHOULD_BE_ON_FREELIST: at most every thread holds a
\* reference, and the list one.
THEOREM CountBelowBit ==
  Spec => [](\A b \in Blocks : Count(freeListRefs[b]) <= Cardinality(Threads) + 1)
<1>1. ASSUME IInv, NEW b \in Blocks
      PROVE  Count(freeListRefs[b]) <= Cardinality(Threads) + 1
  <2>1. Count(freeListRefs[b]) = Cardinality(Holders(b)) + (IF ListHolds(b) THEN 1 ELSE 0)
    BY <1>1, RefsBound DEF IInv
  <2>2. QED
    BY <2>1, HoldersFinite, BitNat
<1>2. IInv => \A b \in Blocks : Count(freeListRefs[b]) <= Cardinality(Threads) + 1
  BY <1>1
<1>3. QED
  BY <1>2, Invariance, PTL

\* Every block that was ever handed out is in use, on the list, on its way there, or
\* held by a thread that will put it there: the free list loses no block.
THEOREM NoneLost == Spec => []NoBlockLost
<1>1. ASSUME IInv, NEW b \in Allocated PROVE NoBlockLost!(b)
  <2>1. b \in Blocks
    BY <1>1, BlockPoolAssumption DEF BlockPoolAssumption, Allocated, IInv, TypeOK, Blocks
  <2>2. Phase(b)
    BY <1>1, <2>1 DEF IInv
  <2>3. QED
    BY <1>1, <2>2 DEF Phase
<1>2. IInv => NoBlockLost
  BY <1>1 DEF NoBlockLost, Allocated
<1>3. QED
  BY <1>2, Invariance, PTL
==============================================================================
