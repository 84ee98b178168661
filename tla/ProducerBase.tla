----------------------------- MODULE ProducerBase -----------------------------
(***************************************************************************)
(* How the consumers of one producer's sub-queue share out its elements:   *)
(* the part of dequeue and dequeue_bulk that explicit and implicit         *)
(* producers have in common.                                               *)
(*                                                                         *)
(* A consumer promises to take elements (dequeueOptimisticCount), gives    *)
(* back what it promised too much (dequeueOvercommit), and claims the rest *)
(* (headIndex).  A single dequeue is a bulk dequeue of at most one.        *)
(*                                                                         *)
(* Every action is one access to an atomic variable, with the thread-local *)
(* work around it.  Memory is sequentially consistent.  Indices are        *)
(* numbers of IndexBits bits and wrap around.                              *)
(***************************************************************************)
EXTENDS Integers, Sequences, FiniteSets, Sums

CONSTANTS
  Consumers,        \* the threads that dequeue
  IndexBits,        \* the width of index_t
  BlockSize,        \* BLOCK_SIZE
  MaxBulk,          \* the most elements a call asks for
  StartIndex,       \* head and tail, where the observation starts: 0 after construction
  StartOvercommit,  \* dequeueOvercommit there: 0 after construction
  MaxPromised,      \* bounds the promises of the consumers
  MaxEnqueued       \* bounds the elements

Numbers == 2 ^ IndexBits
Index == 0 .. Numbers - 1

ASSUME ProducerAssumption ==
  /\ IsFiniteSet(Consumers)
  /\ IndexBits \in Nat \ {0} /\ BlockSize \in Nat \ {0, 1} /\ MaxBulk \in Nat \ {0}
  /\ Numbers \in Nat /\ Numbers % 2 = 0
  /\ Numbers % BlockSize = 0 /\ BlockSize < Numbers
  /\ StartIndex \in Index /\ StartIndex % BlockSize = 0
  /\ StartOvercommit \in Index
  /\ MaxPromised \in Nat /\ MaxEnqueued \in Nat

\* Circular comparison tells apart what is within half the range of the indices: the
\* elements and the promises while the queue is observed are.
WindowsFit ==
  /\ MaxEnqueued < Numbers \div 2
  /\ MaxPromised + Cardinality(Consumers) * MaxBulk <= Numbers \div 2

VARIABLES
  tailIndex, headIndex, dequeueOptimisticCount, dequeueOvercommit,
  cpc,      \* where a consumer is
  call,     \* the locals of its call
  owed      \* how many elements it must get: it overlaps no other dequeue

counters == <<headIndex, dequeueOptimisticCount, dequeueOvercommit>>
claimVars == <<counters, cpc, call, owed>>

Plus(a, b) == (a + b) % Numbers
Minus(a, b) == (a - b) % Numbers
\* circular_less_than
Less(a, b) == Minus(a, b) > Numbers \div 2
Base(i) == i - (i % BlockSize)
Slot(i) == i % BlockSize
Slots == 0 .. BlockSize - 1
Vacant == -1
\* How many blocks the block of i is after the one that starts at base; in two's
\* complement, it may be up to half the range before it.
BlockOffset(base, i) ==
  LET d == Minus(Base(i), base)
  IN IF d >= Numbers \div 2 THEN -((Numbers - d) \div BlockSize) ELSE d \div BlockSize
Least(a, b) == IF a < b THEN a ELSE b

NoCall == [max |-> 0, tail |-> 0, overcommit |-> 0, desired |-> 0, mine |-> 0,
           count |-> 0, index |-> 0]

ConsumerGoto(c, l) == cpc' = [cpc EXCEPT ![c] = l]
ReturnFrom(c) == ConsumerGoto(c, "idle") /\ call' = [call EXCEPT ![c] = NoCall]

\* ProducerBase::size_approx
SizeApprox == IF Less(headIndex, tailIndex) THEN Minus(tailIndex, headIndex) ELSE 0

\* In a call that has not yet claimed or given back what it promised.
Unsettled == {c \in Consumers :
  cpc[c] \in {"overcommit", "examine", "promise", "reload", "giveBack", "claim"}}

ClaimInit ==
  /\ tailIndex = StartIndex
  /\ headIndex = StartIndex
  /\ dequeueOptimisticCount = Plus(StartIndex, StartOvercommit)
  /\ dequeueOvercommit = StartOvercommit
  /\ cpc = [c \in Consumers |-> "idle"]
  /\ call = [c \in Consumers |-> NoCall]
  /\ owed = [c \in Consumers |-> 0]

------------------------------------------------------------------------------
\* dequeue (max = 1) or dequeue_bulk: loads the tail.
BeginDequeue(c, max) ==
  /\ cpc[c] = "idle"
  /\ Minus(dequeueOptimisticCount, Plus(StartIndex, StartOvercommit)) < MaxPromised
  /\ call' = [call EXCEPT ![c] = [NoCall EXCEPT !.max = max, !.tail = tailIndex]]
  /\ owed' = [d \in Consumers |->
                IF d = c /\ Unsettled = {} THEN Least(max, SizeApprox) ELSE 0]
  /\ ConsumerGoto(c, "overcommit")
  /\ UNCHANGED <<tailIndex, counters>>

LoadOvercommit(c) ==
  /\ cpc[c] = "overcommit"
  /\ call' = [call EXCEPT ![c].overcommit = dequeueOvercommit]
  /\ ConsumerGoto(c, "examine")
  /\ UNCHANGED <<tailIndex, counters, owed>>

\* How many elements seem to be left; none: the call returns.
Examine(c) ==
  /\ cpc[c] = "examine"
  /\ LET left == Minus(call[c].tail, Minus(dequeueOptimisticCount, call[c].overcommit))
     IN IF Less(0, left)
        THEN /\ call' = [call EXCEPT ![c].desired = Least(left, call[c].max)]
             /\ ConsumerGoto(c, "promise")
             /\ owed' = owed
        ELSE ReturnFrom(c) /\ owed' = [owed EXCEPT ![c] = 0]
  /\ UNCHANGED <<tailIndex, counters>>

Promise(c) ==
  /\ cpc[c] = "promise"
  /\ call' = [call EXCEPT ![c].mine = dequeueOptimisticCount]
  /\ dequeueOptimisticCount' = Plus(dequeueOptimisticCount, call[c].desired)
  /\ ConsumerGoto(c, "reload")
  /\ UNCHANGED <<tailIndex, headIndex, dequeueOvercommit, owed>>

\* Mutant of Reload: claims what it asked for.
ReloadUnchecked(c) ==
  /\ cpc[c] = "reload"
  /\ call' = [call EXCEPT ![c].tail = tailIndex, ![c].count = call[c].desired]
  /\ ConsumerGoto(c, "claim")
  /\ UNCHANGED <<tailIndex, counters, owed>>

\* How much of the promise the tail covers.
Reload(c) ==
  /\ cpc[c] = "reload"
  /\ LET actual == Minus(tailIndex, Minus(call[c].mine, call[c].overcommit))
         count == IF Less(0, actual) THEN Least(actual, call[c].desired) ELSE 0
     IN /\ call' = [call EXCEPT ![c].tail = tailIndex, ![c].count = count]
        /\ ConsumerGoto(c, IF count < call[c].desired THEN "giveBack" ELSE "claim")
  /\ UNCHANGED <<tailIndex, counters, owed>>

\* Mutant of GiveBack: the promise is kept although nothing is taken.
GiveNothingBack(c) ==
  /\ cpc[c] = "giveBack"
  /\ IF call[c].count = 0
       THEN ReturnFrom(c) /\ owed' = [owed EXCEPT ![c] = 0]
       ELSE ConsumerGoto(c, "claim") /\ UNCHANGED <<call, owed>>
  /\ UNCHANGED <<tailIndex, counters>>

GiveBack(c) ==
  /\ cpc[c] = "giveBack"
  /\ dequeueOvercommit' = Plus(dequeueOvercommit, call[c].desired - call[c].count)
  /\ IF call[c].count = 0
       THEN ReturnFrom(c) /\ owed' = [owed EXCEPT ![c] = 0]
       ELSE ConsumerGoto(c, "claim") /\ UNCHANGED <<call, owed>>
  /\ UNCHANGED <<tailIndex, headIndex, dequeueOptimisticCount>>

\* The elements from index on are this consumer's.
Claim(c) ==
  /\ cpc[c] = "claim"
  /\ call' = [call EXCEPT ![c] =
                [NoCall EXCEPT !.max = call[c].max, !.count = call[c].count,
                               !.index = headIndex]]
  /\ headIndex' = Plus(headIndex, call[c].count)
  /\ owed' = [owed EXCEPT ![c] = 0]
  /\ ConsumerGoto(c, "claimed")
  /\ UNCHANGED <<tailIndex, dequeueOptimisticCount, dequeueOvercommit>>

\* Once a consumer has claimed count elements from first on: their indices, and those
\* in the block that it has come to.
Claimed(c) == {Plus(call[c].first, k) : k \in 0 .. call[c].count - 1}
InBlock(c) == {i \in Claimed(c) : Base(i) = Base(call[c].index)}

Sharing(c) ==
  \/ LoadOvercommit(c) \/ Examine(c) \/ Promise(c)
  \/ Reload(c) \/ GiveBack(c) \/ Claim(c)

------------------------------------------------------------------------------
(* Properties                                                              *)

\* What each consumer has promised and neither claimed nor given back.
Pending(c) ==
  CASE cpc[c] = "reload" -> call[c].desired
    [] cpc[c] = "giveBack" -> call[c].desired
    [] cpc[c] = "claim" -> call[c].count
    [] OTHER -> 0

\* What consumers hold that may claim without another look.
Sure(c) == IF cpc[c] \in {"giveBack", "claim"} THEN call[c].count ELSE 0

\* The promises that are neither given back nor claimed are those of calls under
\* way: nothing is promised twice and nothing is forgotten.
PromisesSettled ==
  Minus(dequeueOptimisticCount, dequeueOvercommit) =
    Plus(headIndex, Total([c \in Consumers |-> Pending(c)], Consumers, MaxBulk))

\* What consumers that may claim without another look hold is there to be claimed.
ClaimsCovered ==
  Total([c \in Consumers |-> Sure(c)], Consumers, MaxBulk) <= Minus(tailIndex, headIndex)

===============================================================================
