------------------------ MODULE ExplicitProducerProofs ------------------------
(***************************************************************************)
(* Theorems about ExplicitProducer that hold for every number of consumers *)
(* and blocks and every width of the indices, as long as these do not wrap *)
(* around within half their range.                                         *)
(***************************************************************************)
EXTENDS ExplicitProducer, ProducerBaseProofs, FunctionTheorems, WellFoundedInduction

\* What the producer is about to publish fits into the window.
EnqueueFits ==
  "count" \in DOMAIN enq /\ enq.count \in Nat /\ Filled + enq.count <= MaxEnqueued

ShareIInv == ShareInv /\ EnqueueFits

\* The producer publishes nothing, and no more elements are to come.
Preparing ==
  /\ UNCHANGED <<tailIndex, claimVars>>
  /\ "count" \in DOMAIN enq'
  /\ enq'.count = enq.count \/ enq'.count = 0

LEMMA PreparingStep ==
  ASSUME WindowsFit, ShareIInv, Preparing
  PROVE  ShareIInv'
<1> HIDE DEF Numbers
<1> USE DEF ShareIInv
<1>1. Filled \in Nat /\ tailIndex \in Index /\ Filled <= MaxEnqueued
  BY HalfRange, ShareTypes DEF ShareInv, ShareFacts, Index, ShareTyped, Room
<1>2. Plus(tailIndex, 0) = tailIndex
  BY <1>1, HalfRange, PlusValue DEF Index
<1>3. Resting /\ tailIndex' = Plus(tailIndex, 0) /\ Filled + 0 <= MaxEnqueued
  BY <1>1, <1>2 DEF Preparing, Resting, claimVars
<1>4. ShareInv'
  BY <1>3, FillStep
<1>5. Filled' = Filled
  BY DEF Preparing, Filled
<1>6. EnqueueFits'
  <2>1. "count" \in DOMAIN enq' /\ enq'.count \in Nat
    BY DEF Preparing, EnqueueFits
  <2>2. CASE enq'.count = enq.count
    BY <1>5, <2>1, <2>2 DEF EnqueueFits
  <2>3. CASE enq'.count = 0
    BY <1>1, <1>5, <2>1, <2>3 DEF EnqueueFits
  <2>4. QED
    BY <2>2, <2>3 DEF Preparing
<1>7. QED
  BY <1>4, <1>6

LEMMA EnqueueStep ==
  ASSUME WindowsFit, ShareIInv, Enqueue \/ Destroy
  PROVE  ShareIInv'
<1> HIDE DEF Numbers
<1> USE DEF ShareIInv
<1>0. "count" \in DOMAIN enq
  BY DEF EnqueueFits
<1>1. ASSUME NEW n \in {1, MaxBulk}, NEW bulk \in BOOLEAN, BeginEnqueue(n, bulk)
      PROVE  ShareIInv'
  <2>1. /\ enq'.count = n /\ "count" \in DOMAIN enq'
        /\ UNCHANGED <<tailIndex, claimVars>>
        /\ Filled + n <= MaxEnqueued
    BY <1>1 DEF BeginEnqueue, NoEnqueue, Filled
  <2>2. n \in Nat
    BY HalfRange
  <2>3. Filled \in Nat /\ tailIndex \in Index /\ Filled + 0 <= MaxEnqueued
    BY HalfRange, ShareTypes DEF ShareInv, ShareFacts, Index, ShareTyped, Room
  <2>4. Plus(tailIndex, 0) = tailIndex
    BY <2>3, HalfRange, PlusValue DEF Index
  <2>5. ShareInv'
    BY <2>1, <2>3, <2>4, FillStep DEF Resting, claimVars
  <2>6. EnqueueFits'
    BY <2>1, <2>2 DEF EnqueueFits, Filled
  <2>7. QED
    BY <2>5, <2>6
<1>2. CASE Commit
  <2>1. /\ tailIndex' = Plus(tailIndex, enq.count) /\ UNCHANGED claimVars
        /\ enq' = NoEnqueue
    BY <1>2 DEF Commit, EndCall
  <2>2. ShareInv'
    BY <2>1, FillStep DEF Resting, claimVars, EnqueueFits
  <2>3. "count" \in DOMAIN enq' /\ enq'.count = 0
    BY <2>1 DEF NoEnqueue
  <2>4. EnqueueFits'
    <3>1. Filled' \in Nat /\ Filled' <= MaxEnqueued
      BY <2>2, HalfRange, ShareTypesNext DEF ShareInv, ShareFacts, Index, Room
    <3>2. Filled' + 0 <= MaxEnqueued
      BY <3>1
    <3>3. QED
      BY <2>3, <3>2 DEF EnqueueFits
  <2>5. QED
    BY <2>2, <2>4
<1>3. CASE ReuseAhead \/ NothingAhead \/ CheckRoom \/ Grow \/ CannotGrow
  <2>1. Preparing
    BY <1>0, <1>3 DEF ReuseAhead, NothingAhead, CheckRoom, Grow, CannotGrow, ConstructOrPublish,
       Preparing
  <2>2. QED
    BY <2>1, PreparingStep
<1>4. CASE Requisition \/ NoRequisition \/ ResetBlocks
  <2>1. Preparing
    BY <1>0, <1>4 DEF Requisition, NoRequisition, ResetBlocks, ConstructOrPublish, Preparing
  <2>2. QED
    BY <2>1, PreparingStep
<1>5. CASE AddIndexEntry \/ StoreFront \/ Construct
  <2>1. Preparing
    BY <1>0, <1>5 DEF AddIndexEntry, StoreFront, Construct, Preparing
  <2>2. QED
    BY <2>1, PreparingStep
<1>6. CASE Undo \/ Throw
  <2>1. Preparing
    BY <1>0, <1>6 DEF Undo, Throw, Restore, EndCall, NoEnqueue, Preparing
  <2>2. QED
    BY <2>1, PreparingStep
<1>7. CASE Destroy
  <2>1. Preparing
    BY <1>0, <1>7 DEF Destroy, Preparing
  <2>2. QED
    BY <2>1, PreparingStep
<1>8. QED
  BY <1>1, <1>2, <1>3, <1>4, <1>5, <1>6, <1>7 DEF Enqueue

LEMMA DequeueStep ==
  ASSUME WindowsFit, ShareIInv, NEW c \in Consumers, Dequeue(c)
  PROVE  ShareIInv'
<1> HIDE DEF Numbers
<1> USE DEF ShareIInv
<1>1. ASSUME ShareInv', UNCHANGED <<tailIndex, enq>> PROVE ShareIInv'
  BY <1>1 DEF EnqueueFits, Filled
<1>2. CASE Begin(c)
  <2>1. PICK max \in {1, MaxBulk} : BeginDequeue(c, max)
    BY <1>2 DEF Begin
  <2>2. max \in 1 .. MaxBulk
    BY HalfRange
  <2>3. ShareInv'
    BY <2>1, <2>2, BeginStep
  <2>4. UNCHANGED <<tailIndex, enq>>
    BY <1>2, <2>1 DEF Begin, BeginDequeue, producerVars
  <2>5. QED
    BY <1>1, <2>3, <2>4
<1>3. CASE Share(c)
  <2>1. ShareInv'
    BY <1>3, SharingStep DEF Share
  <2>2. UNCHANGED <<tailIndex, enq>>
    BY <1>3 DEF Share, Sharing, LoadOvercommit, Examine, Promise, Reload, GiveBack, Claim,
       producerVars
  <2>3. QED
    BY <1>1, <2>1, <2>2
<1>4. DOMAIN cpc = Consumers /\ DOMAIN call = Consumers
  BY DEF ShareInv, ShareTyped
<1>5. ASSUME /\ cpc[c] \in {"claimed", "front", "base", "entry", "empty"}
             /\ cpc'[c] \in {"front", "base", "entry", "empty", "idle"}
             /\ OnlyCaller(c) /\ DOMAIN cpc' = Consumers /\ DOMAIN call' = Consumers
             /\ UNCHANGED <<tailIndex, counters, enq>>
      PROVE  ShareIInv'
  <2>1. c \notin Unsettled /\ c \notin Unsettled'
    BY <1>5 DEF Unsettled
  <2>2. ShareInv'
    BY <1>5, <2>1, ClaimedStep
  <2>3. QED
    BY <1>1, <1>5, <2>2
<1>7. CASE LoadHeader(c)
  BY <1>4, <1>5, <1>7 DEF LoadHeader, ConsumerGoto, OnlyCaller, producerVars
<1>8. CASE LoadFront(c)
  BY <1>4, <1>5, <1>8 DEF LoadFront, ConsumerGoto, OnlyCaller, producerVars
<1>9. CASE LoadBase(c)
  BY <1>4, <1>5, <1>9 DEF LoadBase, ConsumerGoto, OnlyCaller, producerVars
<1>10. CASE Move(c)
  BY <1>4, <1>5, <1>10 DEF Move, ConsumerGoto, OnlyCaller, producerVars
<1>11. CASE SetEmpty(c)
  BY <1>4, <1>5, <1>11 DEF SetEmpty, ReturnFrom, ConsumerGoto, OnlyCaller, producerVars
<1>14. QED
  BY <1>2, <1>3, <1>7, <1>8, <1>9, <1>10, <1>11 DEF Dequeue

LEMMA ShareInvariance ==
  ASSUME WindowsFit
  PROVE  Spec => []ShareIInv
<1> HIDE DEF Numbers
<1>1. Init => ShareIInv
  <2> SUFFICES ASSUME Init PROVE ShareIInv
    OBVIOUS
  <2>1. ShareInv
    BY ShareInit DEF Init
  <2>2. "count" \in DOMAIN enq /\ enq.count = 0
    BY DEF Init, NoEnqueue
  <2>3. Filled \in Nat /\ Filled <= MaxEnqueued
    BY <2>1, HalfRange, ShareTypes DEF ShareInv, ShareFacts, Index, Room
  <2>4. QED
    BY <2>1, <2>2, <2>3 DEF ShareIInv, EnqueueFits
<1>2. ShareIInv /\ [Next]_vars => ShareIInv'
  <2> SUFFICES ASSUME ShareIInv, [Next]_vars PROVE ShareIInv'
    OBVIOUS
  <2>1. CASE Enqueue \/ Destroy
    BY <2>1, EnqueueStep
  <2>2. ASSUME NEW c \in Consumers, Dequeue(c) PROVE ShareIInv'
    BY <2>2, DequeueStep
  <2>3. CASE UNCHANGED vars
    <3>1. Preparing
      BY <2>3 DEF vars, producerVars, Preparing, ShareIInv, EnqueueFits
    <3>2. QED
      BY <3>1, PreparingStep
  <2>4. QED
    BY <2>1, <2>2, <2>3 DEF Next
<1>3. QED
  BY <1>1, <1>2, PTL DEF Spec

\* However the calls of dequeue and dequeue_bulk interleave, what they have promised
\* and not given back is what they have taken and what they still owe each other.
THEOREM PromisesAlwaysSettled ==
  ASSUME WindowsFit
  PROVE  Spec => []PromisesSettled
<1>1. ShareIInv => PromisesSettled
  BY ShareSettles DEF ShareIInv
<1>2. QED
  BY <1>1, ShareInvariance, PTL

\* A consumer that has decided to claim elements finds them there, whichever other
\* consumers claim before it: the fetch_add on headIndex never passes the tail.
THEOREM ClaimsAlwaysCovered ==
  ASSUME WindowsFit
  PROVE  Spec => []ClaimsCovered
<1>1. ShareIInv => ClaimsCovered
  BY ShareCovers DEF ShareIInv
<1>2. QED
  BY <1>1, ShareInvariance, PTL

------------------------------------------------------------------------------
(* What consumers have claimed and consumed.                               *)

LookupPcs == {"front", "base", "entry", "empty"}
ClaimedPcs == LookupPcs \cup {"claimed"}
CallFields == {"count", "index", "header", "slot", "first", "block", "got"}

\* A consumer has claimed the elements from First to Until, and is At one of them,
\* Here is its block.
At(c) == Number(call[c].index)
First(c) == IF cpc[c] = "claimed" THEN At(c) ELSE Number(call[c].first)
Until(c) == First(c) + call[c].count
Here(c) == BlockNo(call[c].index)
LastBlock(c) == (Until(c) - 1) \div BlockSize

\* Those whose flags it has yet to set.
Open(c) == IF cpc[c] \in ClaimedPcs THEN At(c) .. Until(c) - 1 ELSE {}
Taken(c) == IF cpc[c] \in ClaimedPcs THEN First(c) .. Until(c) - 1 ELSE {}

Consumed(n) == n < Emptied /\ \A c \in Consumers : n \notin Open(c)

ClaimOK(c) ==
  cpc[c] \in ClaimedPcs =>
    /\ call[c].index \in Index /\ call[c].count \in Nat
    /\ At(c) \in First(c) .. Until(c) - 1
    /\ Until(c) <= Emptied
    /\ At(c) = First(c) \/ At(c) = Here(c) * BlockSize
    /\ cpc[c] \in LookupPcs => call[c].first \in Index /\ DOMAIN call[c] = CallFields

ClaimsOK ==
  /\ \A c \in Consumers : ClaimOK(c)
  /\ \A c, d \in Consumers : c # d => Taken(c) \cap Taken(d) = {}
  /\ ppc = "destroyed" => \A c \in Consumers : cpc[c] = "idle"

------------------------------------------------------------------------------
(* The history of the producer: the blocks that it has chosen, one after   *)
(* the other (a block that is used again has several numbers), and where   *)
(* block 0 would be in each of the block indices.                          *)

Histories == [home : [Int -> Blocks \cup {NoBlock}], org : [Int -> Int], n : Nat]

Committed == (Filled + BlockSize - 1) \div BlockSize

\* The ring holds the blocks from Oldest on.
Oldest(g) == g.n - pr.used
SlotOf(g, j, m) == (g.org[j] + m) % Capacity(headers[j])
Lists(g, j, m) ==
  headers[j].entries[SlotOf(g, j, m)] = [base |-> BaseOf(m), block |-> g.home[m]]

\* A single enqueue lists its block when it is sure to succeed, a batch all at once.
Lone(g) == ~enq.bulk /\ g.n # Committed
Unlisted(g) == Lone(g) /\ (ppc = "entry" \/ (ppc = "construct" /\ ~enq.noexcept))
Written(g) == IF Unlisted(g) THEN g.n - 1 ELSE g.n
Fronted(g) == IF Unlisted(g) \/ (Lone(g) /\ ppc = "front") THEN g.n - 1 ELSE g.n

RingOK(g) ==
  /\ pr \in [front : Int, used : Nat] /\ pr.used <= g.n /\ (g.n > 0 => pr.used > 0)
  /\ Oldest(g) <= Committed /\ Committed <= g.n
  /\ freeBlocks \subseteq Blocks /\ DOMAIN next = Blocks
  /\ \A m \in Oldest(g) .. g.n - 1 : g.home[m] \in Blocks \ freeBlocks
  /\ \A m, q \in Oldest(g) .. g.n - 1 : g.home[m] = g.home[q] => m = q
  /\ \A b \in Blocks \ freeBlocks : \E m \in Oldest(g) .. g.n - 1 : g.home[m] = b
  /\ tailBlock = IF g.n = 0 THEN NoBlock ELSE g.home[g.n - 1]
  /\ \A m \in Oldest(g) .. g.n - 2 : next[g.home[m]] = g.home[m + 1]
  /\ g.n > 0 => next[g.home[g.n - 1]] = g.home[Oldest(g)]

Entries == [base : Int, block : Blocks \cup {NoBlock}]
Headers == UNION {[front : Int, entries : [0 .. n - 1 -> Entries]] : n \in Nat \ {0}}

IndexOK(g) ==
  /\ headers \in Seq(Headers) /\ (headers = << >> => pr.used = 0)
  /\ headers # << >> =>
       /\ pr.used <= Capacity(Last) /\ pr.front = SlotOf(g, Len(headers), Fronted(g))
       /\ \A m \in Oldest(g) .. Written(g) - 1 : Lists(g, Len(headers), m)
       /\ Committed > 0 => \E T \in Committed - 1 .. Written(g) - 1 :
                             Last.front = SlotOf(g, Len(headers), T)

EnqueueRecords ==
  [count : Nat, bulk : BOOLEAN, noexcept : BOOLEAN, base : Int, start : Blocks \cup {NoBlock},
   first : Blocks \cup {NoBlock}, front : Int, used : Nat]

ChoosePcs == {"ahead", "room", "grow", "requisition"}
ChosenPcs == {"reset", "entry", "front", "construct", "commit"}

\* What the producer's call knows.
CallOK(g) ==
  /\ enq.count > 0 /\ (~enq.bulk => enq.count = 1)
  /\ enq.start = (IF Committed = 0 THEN NoBlock ELSE g.home[Committed - 1])
  /\ enq.first = (IF enq.bulk /\ g.n # Committed THEN g.home[Committed] ELSE NoBlock)
  /\ g.n = Committed => enq.front = pr.front /\ enq.used = pr.used
  /\ enq.used <= pr.used /\ pr.used <= enq.used + (g.n - Committed)
  /\ Committed > 0 => enq.used > 0

EnqOK(g) ==
  /\ enq \in EnqueueRecords /\ ppc \in ChoosePcs \cup ChosenPcs \cup {"idle", "undo"}
  /\ ppc = "idle" => g.n = Committed /\ enq = NoEnqueue
  /\ ppc # "idle" => CallOK(g)
  /\ ppc \in ChoosePcs => /\ g.n * BlockSize < Filled + enq.count /\ enq.base = BaseOf(g.n)
                          /\ ~enq.bulk => g.n = Committed
  /\ ppc = "undo" => g.n = Committed
  /\ ppc \in ChosenPcs => /\ Filled + enq.count <= g.n * BlockSize
                          /\ g.n * BlockSize < Filled + enq.count + BlockSize
  /\ ppc = "reset" => enq.bulk
  /\ ppc = "entry" => ~enq.bulk
  /\ ppc \in {"reset", "entry", "front"} => g.n # Committed
  /\ Unlisted(g) => enq.base = BaseOf(Committed)
  /\ ppc = "construct" /\ enq.noexcept => g.n # Committed
  /\ ppc = "requisition" => headers # << >> /\ pr.used < Capacity(Last)
  /\ ppc = "grow" => headers = << >> \/ pr.used = Capacity(Last)

\* The slots of a block whose elements have been consumed.
Used(m) == {n % BlockSize : n \in {k \in Within(m) : Consumed(k)}}

\* A batch takes its blocks for empty until it has them all.
FlagsOK(g) ==
  /\ DOMAIN emptied = Blocks
  /\ \A m \in Oldest(g) .. Committed - 1 : emptied[g.home[m]] = Used(m)
  /\ \A m \in 0 .. Oldest(g) - 1 : \A n \in Within(m) : Consumed(n)
  /\ \A m \in Committed .. g.n - 1 :
       emptied[g.home[m]] = IF enq.bulk /\ ppc \in ChoosePcs \cup {"reset"} THEN Slots ELSE {}

\* Slot t of index j lists a block of the history.
Leads(g, c, j, t) == \E T \in LastBlock(c) .. g.n - 1 : Lists(g, j, T) /\ t = SlotOf(g, j, T)

LookupOK(g, c) ==
  LET j == call[c].header
  IN /\ j \in 1 .. Len(headers)
     /\ \A m \in Here(c) .. LastBlock(c) : Lists(g, j, m)
     /\ cpc[c] = "front" => Leads(g, c, j, headers[j].front)
     /\ cpc[c] = "base" => Leads(g, c, j, call[c].slot)
     /\ cpc[c] \in {"entry", "empty"} => call[c].slot = SlotOf(g, j, Here(c))
     /\ cpc[c] = "empty" => call[c].block = g.home[Here(c)]

LookupsOK(g) == \A c \in Consumers : cpc[c] \in LookupPcs => LookupOK(g, c)

\* The front leads to the last block before the tail moves on to it.
Published == ppc = "commit" \/ (ppc = "construct" /\ enq.noexcept)
FrontOK(g) == Published => Last.front = SlotOf(g, Len(headers), g.n - 1)

StoreOK(g) ==
  RingOK(g) /\ IndexOK(g) /\ EnqOK(g) /\ FlagsOK(g) /\ LookupsOK(g) /\ FrontOK(g)

IInv == ShareIInv /\ ClaimsOK /\ (ppc # "destroyed" => \E g \in Histories : StoreOK(g))

------------------------------------------------------------------------------
(* Numbers of blocks.                                                      *)

LEMMA Order ==
  ASSUME NEW k \in Nat \ {0}, NEW m \in Int, NEW n \in Int, m * k < n * k
  PROVE  m < n
<1>1. ASSUME n < m PROVE n * k + k <= m * k
  BY <1>1, Multiples
<1>2. m * k \in Int /\ n * k \in Int
  OBVIOUS
<1>3. ASSUME n = m PROVE FALSE
  BY <1>3
<1> QED
  BY <1>1, <1>2, <1>3

LEMMA Basics ==
  ASSUME WindowsFit, ShareIInv
  PROVE  /\ Filled \in Nat /\ Emptied \in Nat /\ Emptied <= Filled /\ Filled <= MaxEnqueued
         /\ MaxEnqueued \in Nat /\ MaxEnqueued < Numbers \div 2 /\ Numbers \div 2 \in Nat
         /\ Numbers \in Nat \ {0} /\ Numbers \div 2 < Numbers
         /\ MaxEnqueued + BlockSize <= Numbers /\ BlockSize <= Numbers \div 2
         /\ BlockSize \in Nat \ {0, 1}
         /\ DOMAIN cpc = Consumers /\ DOMAIN call = Consumers
         /\ tailIndex \in Index /\ headIndex \in Index
<1> HIDE DEF Numbers
<1>1. /\ Numbers \in Nat \ {0} /\ Numbers \div 2 \in Nat
      /\ Numbers = (Numbers \div 2) + (Numbers \div 2)
      /\ BlockSize \in Nat \ {0, 1} /\ Numbers % BlockSize = 0 /\ BlockSize < Numbers
  BY HalfRange, BlockFacts, ProducerAssumption DEF ProducerAssumption
<1>2. ShareTyped /\ ShareFacts /\ Room /\ Emptied <= Filled
  BY ShareTypes DEF ShareIInv, ShareInv
<1>3. Filled \in Nat /\ Emptied \in Nat
  BY <1>1, <1>2 DEF ShareFacts, Index
<1>4. BlockSize <= Numbers \div 2
  <2>1. PICK q \in Int, r \in 0 .. BlockSize - 1, p \in Int :
          q = Numbers \div BlockSize /\ r = Numbers % BlockSize /\ p = q * BlockSize
          /\ Numbers = p + r
    BY <1>1, Division
  <2>6. r = 0 /\ Numbers = p + r /\ p \in Int
    BY <1>1, <2>1
  <2>2. p = Numbers
    BY <2>6
  <2>3. 1 * BlockSize = BlockSize
    BY <1>1
  <2>4. 1 < q
    <3>1. 1 * BlockSize < q * BlockSize
      BY <1>1, <2>1, <2>2, <2>3
    <3>2. BlockSize \in Nat \ {0}
      BY <1>1
    <3> QED
      BY <2>1, <3>1, <3>2, Order
  <2>5. 1 * BlockSize + BlockSize <= q * BlockSize
    <3>2. BlockSize \in Nat \ {0}
      BY <1>1
    <3> QED
      BY <2>1, <2>4, <3>2, Multiples
  <2> QED
    BY <1>1, <2>1, <2>2, <2>3, <2>5
<1>5. MaxEnqueued \in Nat /\ MaxEnqueued < Numbers \div 2
  BY HalfRange DEF WindowsFit
<1> QED
  BY <1>1, <1>2, <1>3, <1>4, <1>5 DEF ShareTyped, Room

LEMMA CommittedValue ==
  ASSUME WindowsFit, ShareIInv
  PROVE  /\ Committed \in Nat /\ Committed * BlockSize \in Nat
         /\ Filled <= Committed * BlockSize /\ Committed * BlockSize < Filled + BlockSize
<1> HIDE DEF Numbers
<1>1. Filled \in Nat /\ BlockSize \in Nat \ {0}
  BY Basics
<1>2. PICK q \in Int, r \in 0 .. BlockSize - 1, p \in Int :
        /\ q = (Filled + BlockSize - 1) \div BlockSize /\ r = (Filled + BlockSize - 1) % BlockSize
        /\ p = q * BlockSize /\ Filled + BlockSize - 1 = p + r
  <2>1. Filled + BlockSize - 1 \in Int
    BY <1>1
  <2> QED
    BY <1>1, <2>1, Division
<1>3. Committed = q
  BY <1>2 DEF Committed
<1>4. ASSUME q < 0 PROVE p + BlockSize <= 0
  <2>1. q * BlockSize + BlockSize <= 0 * BlockSize
    BY <1>1, <1>2, <1>4, Multiples
  <2> QED
    BY <1>1, <1>2, <2>1
<1>5. q >= 0
  BY <1>1, <1>2, <1>4
<1>6. q * BlockSize \in Nat
  BY <1>1, <1>2, <1>5
<1> QED
  BY <1>1, <1>2, <1>3, <1>5, <1>6

\* What a consumer that has claimed elements knows.
LEMMA ClaimFacts ==
  ASSUME WindowsFit, ShareIInv, NEW c \in Consumers, ClaimOK(c), cpc[c] \in ClaimedPcs
  PROVE  /\ At(c) \in Nat /\ First(c) \in Nat /\ Until(c) \in Nat
         /\ First(c) <= At(c) /\ At(c) < Until(c) /\ Until(c) <= Emptied
         /\ Here(c) \in Nat /\ LastBlock(c) \in Nat /\ Here(c) <= LastBlock(c)
         /\ LastBlock(c) < Committed
         /\ At(c) \in Within(Here(c)) /\ Until(c) - 1 \in Within(LastBlock(c))
         /\ Here(c) * BlockSize \in Nat /\ LastBlock(c) * BlockSize \in Nat
<1> HIDE DEF Numbers
<1>1. /\ BlockSize \in Nat \ {0} /\ Filled \in Nat /\ Emptied \in Nat /\ Emptied <= Filled
      /\ Committed \in Nat /\ Filled <= Committed * BlockSize /\ Committed * BlockSize \in Nat
  BY Basics, CommittedValue
<1>2. /\ call[c].index \in Index /\ call[c].count \in Nat
      /\ At(c) \in First(c) .. Until(c) - 1 /\ Until(c) <= Emptied
      /\ cpc[c] \in LookupPcs => call[c].first \in Index
  BY DEF ClaimOK
<1>3. \A i \in Index : i \in Nat
  BY HalfRange DEF Index
<1>4. At(c) \in Nat
  BY <1>2, <1>3, NumberValue DEF At
<1>5. First(c) \in Nat
  BY <1>2, <1>3, <1>4, NumberValue DEF First, ClaimedPcs
<1>6. Until(c) \in Nat
  BY <1>2, <1>5 DEF Until
<1>7. Here(c) \in Nat /\ At(c) \in Within(Here(c))
  BY <1>2, BlockNoValue DEF Here, At
<1>8. PICK q \in Int, r \in 0 .. BlockSize - 1, p \in Int :
        /\ q = (Until(c) - 1) \div BlockSize /\ r = (Until(c) - 1) % BlockSize
        /\ p = q * BlockSize /\ Until(c) - 1 = p + r
  <2>1. Until(c) - 1 \in Int
    BY <1>6
  <2> QED
    BY <1>1, <2>1, Division
<1>18. Until(c) - 1 = p + r /\ p \in Int /\ q \in Int /\ r \in 0 .. BlockSize - 1
  BY <1>8
<1>9. LastBlock(c) = q
  BY <1>8 DEF LastBlock
<1>10. First(c) <= At(c) /\ At(c) < Until(c) /\ Until(c) <= Emptied
  BY <1>2, <1>4, <1>5, <1>6
<1>11. PICK h \in Nat : h = Here(c) * BlockSize
  BY <1>1, <1>7
<1>12. h <= At(c) /\ At(c) < h + BlockSize
  BY <1>1, <1>4, <1>7, <1>11 DEF Within
<1>13. Here(c) <= q
  <2>1. ASSUME q < Here(c) PROVE p + BlockSize <= h
    <3>1. q * BlockSize + BlockSize <= Here(c) * BlockSize
      BY <1>1, <1>7, <1>18, <2>1, Multiples
    <3> QED
      BY <1>8, <1>11, <3>1
  <2>2. ~(p + BlockSize <= h)
    BY <1>1, <1>4, <1>6, <1>10, <1>12, <1>18
  <2> QED
    BY <1>7, <1>18, <2>1, <2>2
<1>14. q < Committed
  <2>1. q * BlockSize < Committed * BlockSize
    BY <1>1, <1>6, <1>8, <1>10
  <2> QED
    BY <1>1, <1>8, <2>1, Order
<1>15. q \in Nat /\ p \in Nat
  <2>1. q \in Nat
    BY <1>7, <1>8, <1>13
  <2> QED
    BY <1>1, <1>8, <2>1
<1>16. Until(c) - 1 \in Within(q)
  <2>1. Until(c) - 1 \in p .. p + BlockSize - 1
    BY <1>1, <1>18
  <2> QED
    BY <1>8, <2>1 DEF Within
<1> QED
  BY <1>4, <1>5, <1>6, <1>7, <1>8, <1>9, <1>10, <1>11, <1>13, <1>14, <1>15, <1>16

LEMMA BaseNext ==
  ASSUME NEW m \in Int, NEW k \in Int
  PROVE  (BaseOf(m) + k * BlockSize) % Numbers = BaseOf(m + k)
<1> HIDE DEF Numbers
<1>1. BlockSize \in Nat \ {0, 1} /\ Numbers \in Nat \ {0} /\ StartIndex \in Nat
  BY BlockFacts, HalfRange DEF Index
<1>2. PICK x \in Int, y \in Int : x = m * BlockSize /\ y = k * BlockSize
  BY <1>1
<1>3. (m + k) * BlockSize = x + y
  BY <1>1, <1>2, Distribute
<1>4. (((StartIndex + x) % Numbers) + y) % Numbers = (StartIndex + x + y) % Numbers
  <2>1. StartIndex + x \in Int
    BY <1>1, <1>2
  <2> QED
    BY <1>1, <1>2, <2>1, RingShift
<1>5. StartIndex + x + y = StartIndex + (x + y)
  BY <1>1, <1>2
<1> QED
  BY <1>2, <1>3, <1>4, <1>5 DEF BaseOf, Plus

\* The last element of a batch lies in block d.
LEMMA BatchEnd ==
  ASSUME WindowsFit, ShareIInv, NEW n \in Nat \ {0}, Filled + n <= MaxEnqueued
  PROVE  \E d \in Nat : /\ d * BlockSize < Filled + n /\ Filled + n <= d * BlockSize + BlockSize
                        /\ Base(Plus(tailIndex, n - 1)) = BaseOf(d)
                        /\ d * BlockSize \in Index /\ (d + 1) * BlockSize \in Index
<1> HIDE DEF Numbers
<1>1. /\ Filled \in Nat /\ MaxEnqueued \in Nat /\ MaxEnqueued + BlockSize <= Numbers
      /\ BlockSize \in Nat \ {0, 1} /\ tailIndex \in Index /\ Numbers \in Nat \ {0}
  BY Basics
<1>2. tailIndex = Element(Filled) /\ Filled \in Index
  BY <1>1, NumberValue DEF Filled, Number
<1>3. Plus(tailIndex, n - 1) = Element(Filled + n - 1)
  <2>1. StartIndex + Filled \in Int /\ n - 1 \in Int
    BY <1>1, HalfRange DEF Index
  <2>2. (((StartIndex + Filled) % Numbers) + (n - 1)) % Numbers = ((StartIndex + Filled) + (n - 1)) % Numbers
    BY <1>1, <2>1, RingShift
  <2>3. (StartIndex + Filled) + (n - 1) = StartIndex + (Filled + n - 1)
    BY <1>1, HalfRange DEF Index
  <2> QED
    BY <1>2, <2>2, <2>3 DEF Element, Plus
<1>4. PICK d \in Int, r \in 0 .. BlockSize - 1, p \in Int :
        /\ d = (Filled + n - 1) \div BlockSize /\ r = (Filled + n - 1) % BlockSize
        /\ p = d * BlockSize /\ Filled + n - 1 = p + r
  <2>1. Filled + n - 1 \in Int
    BY <1>1
  <2> QED
    BY <1>1, <2>1, Division
<1>5. /\ p \in Int /\ r \in Int /\ 0 <= r /\ r < BlockSize /\ Filled + n - 1 = p + r
      /\ p = d * BlockSize
  BY <1>1, <1>4
<1>6. d \in Nat
  <2>1. ASSUME d < 0 PROVE FALSE
    <3>1. d * BlockSize + BlockSize <= 0 * BlockSize
      BY <1>1, <1>4, <2>1, Multiples
    <3>2. 0 * BlockSize = 0
      BY <1>1
    <3> QED
      BY <1>1, <1>5, <3>1, <3>2
  <2> QED
    BY <1>4, <2>1
<1>7. p \in Nat /\ (d + 1) * BlockSize = p + BlockSize
  BY <1>5, <1>6, WithinValue
<1>8. p \in Index /\ p + BlockSize \in Index /\ Filled + n - 1 \in Index
  BY <1>1, <1>5, <1>7 DEF Index
<1>9. Filled + n - 1 \in Within(d)
  BY <1>1, <1>5 DEF Within
<1>10. Base(Plus(tailIndex, n - 1)) = BaseOf(d)
  BY <1>3, <1>6, <1>8, <1>9, ElementBase
<1>11. p < Filled + n /\ Filled + n <= p + BlockSize
  BY <1>1, <1>5
<1> QED
  BY <1>5, <1>6, <1>7, <1>8, <1>10, <1>11

\* The block before the first that the call prepares.
LEMMA TailBase ==
  ASSUME WindowsFit, ShareIInv
  PROVE  /\ Base(Minus(tailIndex, 1)) \in Int
         /\ Plus(Base(Minus(tailIndex, 1)), BlockSize) = BaseOf(Committed)
         /\ Filled > 0 => Committed > 0 /\ Base(Minus(tailIndex, 1)) = BaseOf(Committed - 1)
         /\ Filled = 0 => Committed = 0
<1> HIDE DEF Numbers
<1>1. /\ Filled \in Nat /\ MaxEnqueued \in Nat /\ MaxEnqueued + BlockSize <= Numbers
      /\ BlockSize \in Nat \ {0, 1} /\ tailIndex \in Index /\ Numbers \in Nat \ {0}
      /\ Filled <= MaxEnqueued /\ StartIndex \in Index /\ StartIndex \in Nat
      /\ StartIndex < Numbers
  BY Basics, HalfRange DEF Index
<1>2. /\ Committed \in Nat /\ Committed * BlockSize \in Nat
      /\ Filled <= Committed * BlockSize /\ Committed * BlockSize < Filled + BlockSize
  BY CommittedValue
<1>3. tailIndex = Element(Filled) /\ Filled \in Index
  BY <1>1, NumberValue DEF Filled, Number
<1>4. Minus(tailIndex, 1) = Element(Filled - 1)
  <2>1. StartIndex + Filled \in Int
    BY <1>1, HalfRange DEF Index
  <2>2. (((StartIndex + Filled) % Numbers) + (-1)) % Numbers = ((StartIndex + Filled) + (-1)) % Numbers
    <3>1. -1 \in Int
      OBVIOUS
    <3> QED
      BY <1>1, <2>1, <3>1, RingShift
  <2>3. (StartIndex + Filled) + (-1) = StartIndex + (Filled - 1)
    BY <1>1
  <2>4. tailIndex = (StartIndex + Filled) % Numbers
    BY <1>3 DEF Element, Plus
  <2>5. tailIndex - 1 = tailIndex + (-1)
    BY <1>1 DEF Index
  <2> QED
    BY <2>2, <2>3, <2>4, <2>5 DEF Element, Plus, Minus
<1>5. CASE Filled > 0
  <2>1. Committed > 0
    <3>1. ASSUME Committed = 0 PROVE FALSE
      BY <1>1, <1>2, <1>5, <3>1
    <3> QED
      BY <1>2, <3>1
  <2>2. PICK m \in Nat : m = Committed - 1
    BY <1>2, <2>1
  <2>3. Committed * BlockSize = m * BlockSize + BlockSize /\ m * BlockSize \in Nat
    <3>1. Committed = m + 1
      BY <1>2, <2>2
    <3> QED
      BY <3>1, WithinValue
  <2>4. PICK x \in Nat : x = m * BlockSize
    BY <2>3
  <2>5. Filled - 1 \in Within(m)
    <3>1. x <= Filled - 1 /\ Filled - 1 <= x + BlockSize - 1
      BY <1>1, <1>2, <2>3, <2>4
    <3> QED
      BY <1>1, <2>4, <3>1 DEF Within
  <2>6. Filled - 1 \in Index
    BY <1>1, <1>3, <1>5 DEF Index
  <2>7. Base(Minus(tailIndex, 1)) = BaseOf(m)
    BY <1>4, <2>5, <2>6, ElementBase
  <2>8. (BaseOf(m) + 1 * BlockSize) % Numbers = BaseOf(m + 1)
    BY BaseNext
  <2>9. 1 * BlockSize = BlockSize /\ m + 1 = Committed
    BY <1>1, <1>2, <2>2
  <2>10. x \in Index /\ BaseOf(m) \in Index
    <3>1. x \in Index
      BY <1>1, <1>2, <2>3, <2>4 DEF Index
    <3> QED
      BY <2>4, <3>1, BaseOfValue
  <2> QED
    BY <1>5, <2>1, <2>2, <2>7, <2>8, <2>9, <2>10 DEF Plus, Index
<1>6. CASE Filled = 0
  <2>1. Committed = 0
    <3>1. ASSUME Committed > 0 PROVE FALSE
      <4>1. 0 * BlockSize + BlockSize <= Committed * BlockSize
        BY <1>1, <1>2, <3>1, Multiples
      <4>2. 0 * BlockSize = 0
        BY <1>1
      <4> QED
        BY <1>1, <1>2, <1>6, <4>1, <4>2
    <3> QED
      BY <1>2, <3>1
  <2>2. PICK i \in Int : i = (StartIndex - 1) % Numbers /\ i \in 0 .. Numbers - 1
    BY <1>1
  <2>3. Minus(tailIndex, 1) = i
    <3>1. StartIndex + (Filled - 1) = StartIndex - 1
      BY <1>1, <1>6
    <3> QED
      BY <1>4, <2>2, <3>1 DEF Element, Plus
  <2>4. i = IF StartIndex = 0 THEN Numbers - 1 ELSE StartIndex - 1
    <3>1. CASE StartIndex = 0
      <4>1. (-1 + Numbers) % Numbers = (-1) % Numbers /\ (-1 + Numbers) % Numbers = -1 + Numbers
        <5>1. -1 + Numbers \in 0 .. Numbers - 1 /\ -1 \in Int /\ -1 + Numbers \in Int
          BY <1>1
        <5> QED
          BY <1>1, <5>1, RingWrap
      <4>2. StartIndex - 1 = -1
        BY <3>1
      <4> QED
        BY <1>1, <2>2, <3>1, <4>1, <4>2
    <3>2. CASE StartIndex # 0
      <4>1. StartIndex - 1 \in 0 .. Numbers - 1 /\ StartIndex - 1 \in Int
        BY <1>1, <3>2
      <4>2. (StartIndex - 1) % Numbers = StartIndex - 1
        BY <1>1, <4>1, RingWrap
      <4> QED
        BY <2>2, <3>2, <4>2
    <3> QED
      BY <3>1, <3>2
  <2>5. i % BlockSize = BlockSize - 1
    <3>1. \A a \in Nat : a % BlockSize = 0 => (a - 1) % BlockSize = BlockSize - 1
      <4> TAKE a \in Nat
      <4> HAVE a % BlockSize = 0
      <4>1. ((a % BlockSize) + (-1)) % BlockSize = (a + (-1)) % BlockSize
        <5>1. a \in Int /\ -1 \in Int
          OBVIOUS
        <5> QED
          BY <1>1, <5>1, RingShift
      <4>2. (-1 + BlockSize) % BlockSize = (-1) % BlockSize /\ (-1 + BlockSize) % BlockSize = -1 + BlockSize
        <5>1. -1 + BlockSize \in 0 .. BlockSize - 1 /\ -1 \in Int /\ -1 + BlockSize \in Int
          BY <1>1
        <5>2. (-1 + BlockSize) % BlockSize = (-1) % BlockSize
          BY <1>1, <5>1, RingWrap
        <5>3. (-1 + BlockSize) % BlockSize = -1 + BlockSize
          BY <1>1, <5>1, RingWrap
        <5> QED
          BY <5>2, <5>3
      <4>3. a + (-1) = a - 1 /\ 0 + (-1) = -1 /\ -1 + BlockSize = BlockSize - 1
        BY <1>1
      <4> QED
        BY <4>1, <4>2, <4>3
    <3>2. Numbers % BlockSize = 0 /\ StartIndex % BlockSize = 0
      BY BlockFacts
    <3> QED
      BY <1>1, <2>4, <3>1, <3>2
  <2>6. Base(i) = i - (BlockSize - 1)
    BY <2>5 DEF Base
  <2>7. Base(i) + BlockSize = i + 1 /\ Base(i) \in Int
    BY <1>1, <2>2, <2>6
  <2>8. (i + 1) % Numbers = StartIndex
    <3>1. CASE StartIndex = 0
      <4>1. (0 + Numbers) % Numbers = 0 % Numbers /\ 0 % Numbers = 0
        <5>1. 0 \in 0 .. Numbers - 1
          BY <1>1
        <5>2. (0 + Numbers) % Numbers = 0 % Numbers
          BY <1>1, RingWrap
        <5>3. 0 % Numbers = 0
          BY <1>1, <5>1, RingWrap
        <5> QED
          BY <5>2, <5>3
      <4>2. i + 1 = 0 + Numbers
        BY <1>1, <2>4, <3>1
      <4> QED
        BY <3>1, <4>1, <4>2
    <3>2. CASE StartIndex # 0
      <4>1. i + 1 = StartIndex /\ StartIndex \in 0 .. Numbers - 1
        BY <1>1, <2>4, <3>2
      <4>2. StartIndex \in Int
        BY <1>1
      <4>3. StartIndex % Numbers = StartIndex
        BY <1>1, <4>1, <4>2, RingWrap
      <4> QED
        BY <4>1, <4>3
    <3> QED
      BY <3>1, <3>2
  <2>9. BaseOf(0) = StartIndex
    <3>1. 0 * BlockSize = 0 /\ StartIndex + 0 = StartIndex
      BY <1>1
    <3>2. StartIndex \in 0 .. Numbers - 1 /\ StartIndex \in Int
      BY <1>1
    <3>3. StartIndex % Numbers = StartIndex
      BY <1>1, <3>2, RingWrap
    <3> QED
      BY <3>1, <3>3 DEF BaseOf, Plus
  <2> QED
    BY <1>6, <2>1, <2>3, <2>7, <2>8, <2>9 DEF Plus
<1> QED
  BY <1>1, <1>5, <1>6

\* What the parts of the invariant say of the numbers of blocks.
LEMMA Shape ==
  ASSUME WindowsFit, ShareIInv, NEW g \in Histories, RingOK(g), EnqOK(g)
  PROVE  /\ Committed \in Nat /\ g.n \in Nat /\ pr.used \in Nat /\ pr.front \in Int
         /\ Oldest(g) \in Nat /\ Oldest(g) <= Committed /\ Committed <= g.n
         /\ Oldest(g) = g.n - pr.used
         /\ \A m \in Int : g.home[m] \in Blocks \cup {NoBlock} /\ g.org[m] \in Int
         /\ enq.count \in Nat /\ enq.bulk \in BOOLEAN /\ enq.noexcept \in BOOLEAN
         /\ enq.used \in Nat /\ enq.front \in Int /\ enq.base \in Int
         /\ enq.start \in Blocks \cup {NoBlock} /\ enq.first \in Blocks \cup {NoBlock}
         /\ g.n * BlockSize \in Nat /\ g.n * BlockSize < MaxEnqueued + BlockSize
<1> HIDE DEF Numbers
<1>1. /\ Filled \in Nat /\ Filled <= MaxEnqueued /\ MaxEnqueued \in Nat
      /\ BlockSize \in Nat \ {0, 1}
  BY Basics
<1>2. /\ Committed \in Nat /\ Committed * BlockSize \in Nat
      /\ Committed * BlockSize < Filled + BlockSize
  BY CommittedValue
<1>3. /\ g.n \in Nat /\ g.home \in [Int -> Blocks \cup {NoBlock}] /\ g.org \in [Int -> Int]
  BY DEF Histories
<1>4. /\ enq.count \in Nat /\ enq.bulk \in BOOLEAN /\ enq.noexcept \in BOOLEAN
      /\ enq.used \in Nat /\ enq.front \in Int /\ enq.base \in Int
      /\ enq.start \in Blocks \cup {NoBlock} /\ enq.first \in Blocks \cup {NoBlock}
  BY DEF EnqOK, EnqueueRecords
<1>5. /\ pr.used \in Nat /\ pr.front \in Int /\ pr.used <= g.n
      /\ Oldest(g) <= Committed /\ Committed <= g.n
  BY DEF RingOK
<1>6. Oldest(g) = g.n - pr.used /\ Oldest(g) \in Nat
  BY <1>3, <1>5 DEF Oldest
<1>7. PICK z \in Nat : z = g.n * BlockSize
  BY <1>1, <1>3
<1>8. Filled + enq.count <= MaxEnqueued
  BY DEF ShareIInv, EnqueueFits
<1>9. z < MaxEnqueued + BlockSize
  <2>1. CASE g.n = Committed
    BY <1>1, <1>2, <1>7, <2>1
  <2>2. CASE ppc \in ChoosePcs
    <3>1. z < Filled + enq.count
      BY <1>7, <2>2 DEF EnqOK
    <3> QED
      BY <1>1, <1>4, <1>7, <1>8, <3>1
  <2>3. CASE ppc \in ChosenPcs
    <3>1. z < Filled + enq.count + BlockSize
      BY <1>7, <2>3 DEF EnqOK
    <3> QED
      BY <1>1, <1>4, <1>7, <1>8, <3>1
  <2> QED
    BY <2>1, <2>2, <2>3 DEF EnqOK
<1> QED
  BY <1>2, <1>3, <1>4, <1>5, <1>6, <1>7, <1>9

LEMMA BlockInRange ==
  ASSUME WindowsFit, ShareIInv, NEW g \in Histories, RingOK(g), EnqOK(g),
         NEW m \in Nat, m <= g.n
  PROVE  m * BlockSize \in Index /\ BaseOf(m) \in Index /\ BlockNo(BaseOf(m)) = m
         /\ (m < g.n => m * BlockSize < Numbers \div 2)
<1> HIDE DEF Numbers
<1>1. /\ g.n \in Nat /\ g.n * BlockSize \in Nat /\ g.n * BlockSize < MaxEnqueued + BlockSize
  BY Shape
<1>2. /\ MaxEnqueued + BlockSize <= Numbers /\ BlockSize \in Nat \ {0, 1} /\ Numbers \in Nat
      /\ MaxEnqueued < Numbers \div 2 /\ Numbers \div 2 \in Nat /\ MaxEnqueued \in Nat
  BY Basics
<1>3. PICK z \in Nat, x \in Nat : z = g.n * BlockSize /\ x = m * BlockSize
  BY <1>1, <1>2
<1>4. m < g.n => x + BlockSize <= z
  <2>1. ASSUME m < g.n PROVE m * BlockSize + BlockSize <= g.n * BlockSize
    BY <1>1, <1>2, <2>1, Multiples
  <2> QED
    BY <1>3, <2>1
<1>5. x \in Index /\ (m < g.n => x < Numbers \div 2)
  <2>1. x <= z
    BY <1>1, <1>2, <1>3, <1>4
  <2>2. z < MaxEnqueued + BlockSize
    BY <1>1, <1>3
  <2> QED
    BY <1>2, <1>3, <1>4, <2>1, <2>2 DEF Index
<1>6. m * BlockSize \in Index
  BY <1>3, <1>5
<1> QED
  BY <1>3, <1>5, <1>6, BaseOfValue

LEMMA HeaderFacts ==
  ASSUME NEW h \in Headers
  PROVE  /\ Capacity(h) \in Nat \ {0} /\ DOMAIN h.entries = 0 .. Capacity(h) - 1
         /\ h.entries \in [0 .. Capacity(h) - 1 -> Entries] /\ h.front \in Int
         /\ h = [front |-> h.front, entries |-> h.entries]
<1>1. PICK n \in Nat \ {0} : h \in [front : Int, entries : [0 .. n - 1 -> Entries]]
  BY DEF Headers
<1>2. h.front \in Int /\ h.entries \in [0 .. n - 1 -> Entries] /\ h = [front |-> h.front, entries |-> h.entries]
  BY <1>1
<1>3. Cardinality(0 .. n - 1) = n
  <2>1. 0 \in Int /\ n - 1 \in Int /\ ~(0 > n - 1)
    BY <1>1
  <2>2. Cardinality(0 .. n - 1) = n - 1 - 0 + 1
    BY <2>1, FS_Interval
  <2> QED
    BY <1>1, <2>2
<1>4. Capacity(h) = n
  BY <1>2, <1>3 DEF Capacity
<1> QED
  BY <1>1, <1>2, <1>4

\* The slots of an index.
LEMMA SlotFacts ==
  ASSUME headers \in Seq(Headers), NEW g \in Histories, NEW j \in 1 .. Len(headers)
  PROVE  /\ headers[j] \in Headers /\ Capacity(headers[j]) \in Nat \ {0} /\ g.org[j] \in Int
         /\ DOMAIN headers[j].entries = 0 .. Capacity(headers[j]) - 1
         /\ \A m \in Int : SlotOf(g, j, m) \in 0 .. Capacity(headers[j]) - 1
         /\ \A m, k \in Int : (SlotOf(g, j, m) + k) % Capacity(headers[j]) = SlotOf(g, j, m + k)
         /\ \A m, q \in Int : m - q < Capacity(headers[j]) /\ q - m < Capacity(headers[j])
                              /\ SlotOf(g, j, m) = SlotOf(g, j, q) => m = q
<1>1. headers[j] \in Headers
  OBVIOUS
<1>2. PICK n \in Nat \ {0} : n = Capacity(headers[j])
  BY <1>1, HeaderFacts
<1>3. DOMAIN headers[j].entries = 0 .. n - 1
  BY <1>1, <1>2, HeaderFacts
<1>4. PICK o \in Int : o = g.org[j]
  BY DEF Histories
<1>5. \A m : SlotOf(g, j, m) = (o + m) % n
  BY <1>2, <1>4 DEF SlotOf
<1>6. \A m \in Int : (o + m) % n \in 0 .. n - 1
  BY <1>2, <1>4
<1>7. ASSUME NEW m \in Int, NEW k \in Int PROVE (((o + m) % n) + k) % n = (o + (m + k)) % n
  <2>0. o + m \in Int
    BY <1>4
  <2>1. (((o + m) % n) + k) % n = ((o + m) + k) % n
    BY <1>2, <2>0, RingShift
  <2>2. (o + m) + k = o + (m + k)
    BY <1>4
  <2> QED
    BY <2>1, <2>2
<1>9. \A m, q \in Int : o + m \in Int /\ (o + m) - (o + q) = m - q
  BY <1>4
<1>8. ASSUME NEW m \in Int, NEW q \in Int, m - q < n, q - m < n, (o + m) % n = (o + q) % n
      PROVE  m = q
  <2>1. o + m \in Int /\ o + q \in Int /\ (o + m) - (o + q) < n /\ (o + q) - (o + m) < n
    BY <1>8, <1>9
  <2>2. o + m = o + q
    BY <1>2, <1>8, <2>1, RingDistinct
  <2> QED
    BY <1>4, <2>2
<1>10. \A m \in Int : SlotOf(g, j, m) \in 0 .. n - 1
  BY <1>5, <1>6
<1>11. \A m, k \in Int : (SlotOf(g, j, m) + k) % n = SlotOf(g, j, m + k)
  BY <1>5, <1>7
<1>12. \A m, q \in Int : m - q < n /\ q - m < n /\ SlotOf(g, j, m) = SlotOf(g, j, q) => m = q
  BY <1>5, <1>8
<1>13. g.org[j] \in Int
  BY DEF Histories
<1> HIDE DEF SlotOf
<1> QED
  BY <1>1, <1>2, <1>3, <1>10, <1>11, <1>12, <1>13

LEMMA LastFacts ==
  ASSUME headers \in Seq(Headers), headers # << >>
  PROVE  /\ Len(headers) \in Nat \ {0} /\ Len(headers) \in 1 .. Len(headers)
         /\ Last = headers[Len(headers)] /\ Last \in Headers /\ Capacity(Last) \in Nat \ {0}
<1>1. Len(headers) \in Nat \ {0} /\ Last = headers[Len(headers)]
  BY DEF Last
<1>2. Len(headers) \in 1 .. Len(headers)
  BY <1>1
<1>3. Last \in Headers
  BY <1>1, <1>2
<1> QED
  BY <1>1, <1>2, <1>3, HeaderFacts

------------------------------------------------------------------------------
(* Steps that leave the consumers alone.                                   *)

ClaimsStill == UNCHANGED <<headIndex, cpc, call>>

LEMMA SameClaims ==
  ASSUME ClaimsStill
  PROVE  /\ Emptied' = Emptied
         /\ \A c \in Consumers : /\ At(c)' = At(c) /\ First(c)' = First(c) /\ Until(c)' = Until(c)
                                 /\ Here(c)' = Here(c) /\ LastBlock(c)' = LastBlock(c)
                                 /\ Open(c)' = Open(c) /\ Taken(c)' = Taken(c)
         /\ \A n : Consumed(n)' <=> Consumed(n)
         /\ \A m : Used(m)' = Used(m)
<1>1. Emptied' = Emptied
  BY DEF ClaimsStill, Emptied
<1>2. \A c \in Consumers : /\ At(c)' = At(c) /\ First(c)' = First(c) /\ Until(c)' = Until(c)
                           /\ Here(c)' = Here(c) /\ LastBlock(c)' = LastBlock(c)
  BY DEF ClaimsStill, At, First, Until, Here, LastBlock, BlockNo, Number
<1>3. \A c \in Consumers : Open(c)' = Open(c) /\ Taken(c)' = Taken(c)
  BY <1>2 DEF Open, Taken, ClaimsStill
<1>4. \A n : Consumed(n)' <=> Consumed(n)
  BY <1>1, <1>3 DEF Consumed
<1>5. ASSUME NEW m PROVE Used(m)' = Used(m)
  <2>1. {k \in Within(m) : Consumed(k)}' = {k \in Within(m) : Consumed(k)}
    BY <1>4 DEF Within
  <2> QED
    BY <2>1 DEF Used
<1> QED
  BY <1>1, <1>2, <1>3, <1>4, <1>5

LEMMA ClaimsStillStep ==
  ASSUME ClaimsOK, ClaimsStill, ppc' = "destroyed" => \A c \in Consumers : cpc[c] = "idle"
  PROVE  ClaimsOK'
<1>1. \A c \in Consumers : ClaimOK(c)'
  BY SameClaims DEF ClaimsOK, ClaimOK, ClaimsStill
<1> QED
  BY <1>1, SameClaims DEF ClaimsOK, ClaimsStill

LEMMA SameTail ==
  ASSUME tailIndex' = tailIndex
  PROVE  Filled' = Filled /\ Committed' = Committed
  BY DEF Filled, Committed

\* Blocks that consumers look for are in the ring.
LEMMA InRing ==
  ASSUME WindowsFit, ShareIInv, NEW g \in Histories, RingOK(g), EnqOK(g),
         NEW o \in Nat, \A m \in 0 .. o - 1 : \A n \in Within(m) : Consumed(n),
         NEW c \in Consumers, ClaimOK(c), cpc[c] \in ClaimedPcs
  PROVE  o <= Here(c) /\ Here(c) \in Nat /\ LastBlock(c) \in Nat /\ Here(c) <= LastBlock(c)
         /\ LastBlock(c) < Committed /\ Committed <= g.n /\ Committed \in Nat /\ g.n \in Nat
<1> HIDE DEF Numbers
<1>1. /\ At(c) \in Nat /\ At(c) < Until(c) /\ Here(c) \in Nat /\ At(c) \in Within(Here(c))
      /\ LastBlock(c) \in Nat /\ Here(c) <= LastBlock(c) /\ LastBlock(c) < Committed
      /\ Until(c) \in Nat
  BY ClaimFacts
<1>2. Committed <= g.n /\ Committed \in Nat /\ g.n \in Nat
  BY Shape
<1>3. At(c) \in Open(c)
  BY <1>1 DEF Open
<1>4. ~Consumed(At(c))
  BY <1>3 DEF Consumed
<1>5. ~(Here(c) \in 0 .. o - 1)
  BY <1>1, <1>4
<1> QED
  BY <1>1, <1>2, <1>5

\* What consumers look up stays as they need it.
LEMMA LookupsStill ==
  ASSUME WindowsFit, ShareIInv, ClaimsOK, ClaimsStill,
         NEW g \in Histories, RingOK(g), EnqOK(g), LookupsOK(g),
         NEW f \in Histories, g.n <= f.n,
         NEW o \in Nat, \A m \in 0 .. o - 1 : \A n \in Within(m) : Consumed(n),
         \A m \in o .. g.n - 1 : f.home[m] = g.home[m],
         Len(headers) \in Nat, Len(headers') \in Nat, Len(headers) <= Len(headers'),
         \A j \in 1 .. Len(headers) : \A m \in Nat : SlotOf(f, j, m)' = SlotOf(g, j, m),
         \A j \in 1 .. Len(headers) : \A m \in o .. g.n - 1 : Lists(g, j, m) => Lists(f, j, m)',
         \A j \in 1 .. Len(headers) :
           \/ headers'[j].front = headers[j].front
           \/ \E T \in Int : /\ Committed - 1 <= T /\ T <= f.n - 1
                             /\ Lists(f, j, T)' /\ headers'[j].front = SlotOf(f, j, T)'
  PROVE  LookupsOK(f)'
<1> HIDE DEF Numbers
<1> SUFFICES ASSUME NEW c \in Consumers, cpc'[c] \in LookupPcs PROVE LookupOK(f, c)'
  BY DEF LookupsOK
<1>1. cpc'[c] = cpc[c] /\ call'[c] = call[c] /\ cpc[c] \in LookupPcs /\ cpc[c] \in ClaimedPcs
  BY DEF ClaimsStill, ClaimedPcs
<1>2. LookupOK(g, c) /\ ClaimOK(c)
  BY <1>1 DEF LookupsOK, ClaimsOK
<1>3. /\ o <= Here(c) /\ Here(c) \in Nat /\ LastBlock(c) \in Nat /\ Here(c) <= LastBlock(c)
      /\ LastBlock(c) < Committed /\ Committed <= g.n /\ Committed \in Nat /\ g.n \in Nat
  BY <1>1, <1>2, InRing
<1>4. Here(c)' = Here(c) /\ LastBlock(c)' = LastBlock(c)
  BY SameClaims
<1>5. f.n \in Nat
  BY DEF Histories
<1>6. PICK j : j = call[c].header
  OBVIOUS
<1>7. j \in 1 .. Len(headers) /\ j \in 1 .. Len(headers')
  BY <1>2, <1>6 DEF LookupOK
<1>8. \A m \in Here(c) .. LastBlock(c) : Lists(f, j, m)'
  <2>1. ASSUME NEW m \in Here(c) .. LastBlock(c) PROVE Lists(f, j, m)'
    <3>1. m \in o .. g.n - 1
      BY <1>3
    <3>2. Lists(g, j, m)
      BY <1>2, <1>6 DEF LookupOK
    <3> QED
      BY <1>7, <3>1, <3>2
  <2> QED
    BY <2>1
<1>9. ASSUME NEW t, Leads(g, c, j, t)
      PROVE  \E T \in LastBlock(c) .. f.n - 1 : Lists(f, j, T)' /\ t = SlotOf(f, j, T)'
  <2>1. PICK T \in LastBlock(c) .. g.n - 1 : Lists(g, j, T) /\ t = SlotOf(g, j, T)
    BY <1>9 DEF Leads
  <2>2. T \in LastBlock(c) .. f.n - 1 /\ T \in o .. g.n - 1 /\ T \in Nat
    BY <1>3, <1>5
  <2> QED
    BY <1>7, <2>1, <2>2
<1>10. ASSUME NEW t, \E T \in LastBlock(c) .. f.n - 1 : Lists(f, j, T)' /\ t = SlotOf(f, j, T)'
       PROVE  Leads(f, c, j, t)'
  BY <1>4, <1>10 DEF Leads
<1>11. cpc[c] = "front" => Leads(f, c, j, headers[j].front)'
  <2>1. CASE headers'[j].front = headers[j].front
    <3>1. cpc[c] = "front" => Leads(g, c, j, headers[j].front)
      BY <1>2, <1>6 DEF LookupOK
    <3>2. PICK t : t = headers[j].front
      OBVIOUS
    <3>3. cpc[c] = "front" => Leads(f, c, j, t)'
      BY <1>9, <1>10, <3>1, <3>2
    <3> QED
      BY <2>1, <3>2, <3>3 DEF Leads
  <2>2. CASE \E T \in Int : /\ Committed - 1 <= T /\ T <= f.n - 1
                            /\ Lists(f, j, T)' /\ headers'[j].front = SlotOf(f, j, T)'
    <3>1. PICK T \in Int : /\ Committed - 1 <= T /\ T <= f.n - 1
                           /\ Lists(f, j, T)' /\ headers'[j].front = SlotOf(f, j, T)'
      BY <2>2
    <3>2. T \in LastBlock(c) .. f.n - 1
      BY <1>3, <1>5, <3>1
    <3> QED
      BY <1>4, <3>1, <3>2 DEF Leads
  <2> QED
    BY <1>7, <2>1, <2>2
<1>12. cpc[c] = "base" => Leads(f, c, j, call[c].slot)'
  <2>1. cpc[c] = "base" => Leads(g, c, j, call[c].slot)
    BY <1>2, <1>6 DEF LookupOK
  <2>2. PICK t : t = call[c].slot
    OBVIOUS
  <2>3. cpc[c] = "base" => Leads(f, c, j, t)'
    BY <1>9, <1>10, <2>1, <2>2
  <2> QED
    BY <1>1, <2>2, <2>3 DEF Leads
<1>13. cpc[c] \in {"entry", "empty"} => call[c].slot = SlotOf(f, j, Here(c))'
  <2>1. cpc[c] \in {"entry", "empty"} => call[c].slot = SlotOf(g, j, Here(c))
    BY <1>2, <1>6 DEF LookupOK
  <2>2. SlotOf(f, j, Here(c))' = SlotOf(g, j, Here(c))
    BY <1>3, <1>4, <1>7 DEF SlotOf
  <2> QED
    BY <2>1, <2>2
<1>14. cpc[c] = "empty" => call[c].block = f.home[Here(c)]
  <2>1. Here(c) \in o .. g.n - 1
    BY <1>3
  <2> QED
    BY <1>2, <2>1 DEF LookupOK
<1>15. call'[c].header = j
  BY <1>1, <1>6
<1>16. \A m \in Here(c)' .. LastBlock(c)' : Lists(f, j, m)'
  BY <1>4, <1>8
<1>17. cpc'[c] = "base" => Leads(f, c, j, call[c].slot)'
  BY <1>1, <1>12
<1>18. cpc'[c] \in {"entry", "empty"} => call'[c].slot = SlotOf(f, j, Here(c))'
  BY <1>1, <1>13
<1>19. cpc'[c] = "empty" => call'[c].block = f.home[Here(c)']
  BY <1>1, <1>4, <1>14
<1> HIDE DEF Leads, Lists, SlotOf, Here, LastBlock
<1> QED
  BY <1>1, <1>7, <1>11, <1>15, <1>16, <1>17, <1>18, <1>19 DEF LookupOK

LEMMA RingStill ==
  ASSUME NEW g \in Histories, RingOK(g), UNCHANGED <<tailIndex, freeBlocks, next, tailBlock, pr>>
  PROVE  RingOK(g)'
<1> Committed' = Committed
  BY SameTail
<1> QED
  BY DEF RingOK, Oldest

LEMMA IndexStill ==
  ASSUME NEW g \in Histories, IndexOK(g), UNCHANGED <<tailIndex, headers, pr>>,
         Written(g)' = Written(g), Fronted(g)' = Fronted(g)
  PROVE  IndexOK(g)'
<1>1. Committed' = Committed /\ Oldest(g)' = Oldest(g) /\ Last' = Last
  BY SameTail DEF Oldest, Last
<1>2. \A j, m : (SlotOf(g, j, m)' = SlotOf(g, j, m)) /\ (Lists(g, j, m)' <=> Lists(g, j, m))
  BY DEF SlotOf, Lists
<1>3. Capacity(Last)' = Capacity(Last) /\ Len(headers') = Len(headers)
  BY <1>1 DEF Capacity
<1>4. SlotOf(g, Len(headers), Fronted(g))' = SlotOf(g, Len(headers), Fronted(g))
  BY DEF SlotOf
<1>5. \A m \in Oldest(g)' .. Written(g)' - 1 : headers # << >> => Lists(g, Len(headers), m)'
  BY <1>1, <1>2 DEF IndexOK, Lists, SlotOf
<1>6. Committed > 0 /\ headers # << >> => \E T \in Committed - 1 .. Written(g) - 1 :
                             Last.front = SlotOf(g, Len(headers), T)'
  BY DEF IndexOK, SlotOf
<1> QED
  BY <1>1, <1>3, <1>4, <1>5, <1>6 DEF IndexOK

LEMMA FlagsStill ==
  ASSUME NEW g \in Histories, FlagsOK(g), ClaimsStill, UNCHANGED <<tailIndex, emptied, pr>>,
         \/ g.n = Committed
         \/ /\ enq'.bulk = enq.bulk
            /\ ppc' \in ChoosePcs \cup {"reset"} <=> ppc \in ChoosePcs \cup {"reset"}
  PROVE  FlagsOK(g)'
<1>1. Committed' = Committed /\ Oldest(g)' = Oldest(g)
  BY SameTail DEF Oldest
<1>2. /\ \A n : Consumed(n)' <=> Consumed(n)
      /\ \A m : Used(m)' = Used(m)
  BY SameClaims
<1>3. \A m \in Committed .. g.n - 1 :
       emptied'[g.home[m]] = IF enq'.bulk /\ ppc' \in ChoosePcs \cup {"reset"} THEN Slots ELSE {}
  <2>1. CASE g.n = Committed
    <3>1. Committed \in Int => Committed .. g.n - 1 = {}
      BY <2>1
    <3>2. Committed \in Int
      BY <2>1 DEF Histories
    <3> QED
      BY <3>1, <3>2
  <2>2. CASE /\ enq'.bulk = enq.bulk
             /\ ppc' \in ChoosePcs \cup {"reset"} <=> ppc \in ChoosePcs \cup {"reset"}
    BY <2>2 DEF FlagsOK
  <2> QED
    BY <2>1, <2>2
<1>4. \A m \in Oldest(g) .. Committed - 1 : emptied'[g.home[m]] = Used(m)'
  BY <1>2 DEF FlagsOK
<1>5. \A m \in 0 .. Oldest(g) - 1 : \A n \in Within(m) : Consumed(n)'
  BY <1>2 DEF FlagsOK
<1>6. \A m : Within(m)' = Within(m)
  BY DEF Within
<1>7. DOMAIN emptied' = Blocks
  BY DEF FlagsOK
<1> QED
  BY <1>1, <1>3, <1>4, <1>5, <1>6, <1>7 DEF FlagsOK, Slots

\* The producer chooses no block and leaves the index alone.
LEMMA ControlStep ==
  ASSUME WindowsFit, ShareIInv, ClaimsOK, ClaimsStill, NEW g \in Histories, StoreOK(g), EnqOK(g)',
         FrontOK(g)',
         UNCHANGED <<tailIndex, freeBlocks, emptied, next, headers, tailBlock, pr>>,
         Written(g)' = Written(g), Fronted(g)' = Fronted(g),
         \/ g.n = Committed
         \/ /\ enq'.bulk = enq.bulk
            /\ ppc' \in ChoosePcs \cup {"reset"} <=> ppc \in ChoosePcs \cup {"reset"}
  PROVE  StoreOK(g)'
<1> HIDE DEF Numbers
<1>1. RingOK(g) /\ IndexOK(g) /\ EnqOK(g) /\ FlagsOK(g) /\ LookupsOK(g)
  BY DEF StoreOK
<1>2. RingOK(g)' /\ IndexOK(g)' /\ FlagsOK(g)'
  BY <1>1, RingStill, IndexStill, FlagsStill
<1>3. LookupsOK(g)'
  <2>1. Oldest(g) \in Nat /\ g.n <= g.n
    BY <1>1, Shape
  <2>2. \A m \in 0 .. Oldest(g) - 1 : \A n \in Within(m) : Consumed(n)
    BY <1>1 DEF FlagsOK
  <2>3. headers' = headers /\ Len(headers) \in Nat /\ Len(headers) <= Len(headers)
    BY <1>1 DEF IndexOK
  <2>4. \A j, m : SlotOf(g, j, m)' = SlotOf(g, j, m) /\ (Lists(g, j, m)' <=> Lists(g, j, m))
    BY DEF SlotOf, Lists
  <2> QED
    BY <1>1, <2>1, <2>2, <2>3, <2>4, LookupsStill
<1> QED
  BY <1>1, <1>2, <1>3 DEF StoreOK

\* The blocks in the ring.
LEMMA HomeFacts ==
  ASSUME WindowsFit, ShareIInv, NEW g \in Histories, RingOK(g), EnqOK(g),
         NEW m \in Int, Oldest(g) <= m, m < g.n
  PROVE  g.home[m] \in Blocks /\ g.home[m] # NoBlock /\ g.home[m] \notin freeBlocks
<1> HIDE DEF Numbers
<1>1. Oldest(g) \in Nat /\ g.n \in Nat
  BY Shape
<1>2. m \in Oldest(g) .. g.n - 1
  BY <1>1
<1> QED
  BY <1>2, ExplicitAssumption DEF ExplicitAssumption, RingOK

\* A call that may fail has not chosen any block.
LEMMA NothingChosen ==
  ASSUME WindowsFit, ShareIInv, ~PartialFailure, NEW g \in Histories, RingOK(g), EnqOK(g),
         ppc \in ChoosePcs, MayFail
  PROVE  g.n = Committed
<1> HIDE DEF Numbers
<1>1. enq.first = NoBlock
  BY DEF MayFail
<1>2. CASE enq.bulk /\ g.n # Committed
  <2>1. enq.first = g.home[Committed]
    BY <1>2 DEF EnqOK, CallOK, ChoosePcs
  <2>2. Committed \in Int /\ Oldest(g) <= Committed /\ Committed < g.n
    BY <1>2, Shape
  <2>3. g.home[Committed] # NoBlock
    BY <2>2, HomeFacts
  <2> QED
    BY <1>1, <2>1, <2>3
<1>3. CASE ~enq.bulk
  BY <1>3 DEF EnqOK
<1> QED
  BY <1>2, <1>3

LEMMA CallStill ==
  ASSUME NEW g \in Histories, CallOK(g), UNCHANGED <<tailIndex, enq, pr>>
  PROVE  CallOK(g)'
  BY SameTail DEF CallOK

LEMMA WaitStep ==
  ASSUME WindowsFit, ShareIInv, ~PartialFailure, ClaimsOK, NEW g \in Histories, StoreOK(g),
         NothingAhead \/ CheckRoom \/ CannotGrow \/ NoRequisition
  PROVE  StoreOK(g)'
<1> HIDE DEF Numbers
<1>0. RingOK(g) /\ IndexOK(g) /\ EnqOK(g)
  BY DEF StoreOK
<1>1. /\ ClaimsStill /\ ppc \in ChoosePcs /\ ppc' \in {"room", "requisition", "grow", "undo"}
      /\ UNCHANGED <<tailIndex, freeBlocks, emptied, next, headers, tailBlock, pr, enq>>
      /\ ppc' = "undo" => MayFail
      /\ ppc' = "requisition" => headers # << >> /\ pr.used # Capacity(Last)
      /\ ppc' = "grow" => headers = << >> \/ pr.used = Capacity(Last)
  BY DEF NothingAhead, CheckRoom, CannotGrow, NoRequisition, storage, ClaimsStill, claimVars,
     counters, ChoosePcs, ProducerGoto
<1>2. ppc' = "undo" => g.n = Committed
  BY <1>0, <1>1, NothingChosen
<1>3. headers # << >> => pr.used <= Capacity(Last) /\ Capacity(Last) \in Nat /\ pr.used \in Nat
  BY <1>0, LastFacts, Shape DEF IndexOK
<1>4. Filled' = Filled /\ Committed' = Committed /\ Last' = Last
  BY <1>1, SameTail DEF Last
<1>5. Capacity(Last)' = Capacity(Last)
  BY <1>4 DEF Capacity
<1>6. CallOK(g)'
  BY <1>0, <1>1, CallStill DEF EnqOK, ChoosePcs
<1>7. EnqOK(g)'
  BY <1>0, <1>1, <1>2, <1>3, <1>4, <1>5, <1>6 DEF EnqOK, ChoosePcs, ChosenPcs, Unlisted
<1>8. Written(g)' = Written(g) /\ Fronted(g)' = Fronted(g)
  BY <1>1 DEF Written, Fronted, Unlisted, ChoosePcs
<1>9. g.n = Committed \/ (ppc' \in ChoosePcs \cup {"reset"} <=> ppc \in ChoosePcs \cup {"reset"})
  BY <1>1, <1>2 DEF ChoosePcs
<1>10. FrontOK(g)'
  BY <1>1 DEF FrontOK, Published, ChoosePcs
<1> QED
  BY <1>1, <1>7, <1>8, <1>9, <1>10, ControlStep

LEMMA BeginEnqueueStep ==
  ASSUME WindowsFit, ShareIInv, ClaimsOK, NEW g \in Histories, StoreOK(g),
         NEW n \in {1, MaxBulk}, NEW bulk \in BOOLEAN, BeginEnqueue(n, bulk)
  PROVE  StoreOK(g)'
<1> HIDE DEF Numbers
<1>0. RingOK(g) /\ IndexOK(g) /\ EnqOK(g)
  BY DEF StoreOK
<1>1. /\ ClaimsStill /\ ppc = "idle" /\ UNCHANGED <<tailIndex, freeBlocks, emptied, next>>
      /\ UNCHANGED <<headers, tailBlock, pr>>
      /\ bulk \/ n = 1
      /\ Filled + n <= MaxEnqueued
      /\ enq' = [count |-> n, bulk |-> bulk, noexcept |-> FALSE,
                 base |-> Plus(Base(Minus(tailIndex, 1)), BlockSize), start |-> tailBlock,
                 first |-> NoBlock, front |-> pr.front, used |-> pr.used]
      /\ ppc' = IF Base(Minus(tailIndex, 1)) = Base(Plus(tailIndex, n - 1))
                THEN "construct" ELSE "ahead"
  BY DEF BeginEnqueue, ClaimsStill, claimVars, counters, storage, ProducerGoto, Filled
<1>2. n \in Nat \ {0}
  BY HalfRange
<1>3. PICK d \in Nat : /\ d * BlockSize < Filled + n /\ Filled + n <= d * BlockSize + BlockSize
                       /\ Base(Plus(tailIndex, n - 1)) = BaseOf(d)
                       /\ d * BlockSize \in Index /\ (d + 1) * BlockSize \in Index
  BY <1>1, <1>2, BatchEnd
<1>4. /\ Base(Minus(tailIndex, 1)) \in Int
      /\ Plus(Base(Minus(tailIndex, 1)), BlockSize) = BaseOf(Committed)
      /\ Filled > 0 => Committed > 0 /\ Base(Minus(tailIndex, 1)) = BaseOf(Committed - 1)
      /\ Filled = 0 => Committed = 0
  BY TailBase
<1>5. /\ Committed \in Nat /\ g.n = Committed /\ g.n \in Nat /\ pr.used \in Nat /\ pr.front \in Int
      /\ Oldest(g) = g.n - pr.used /\ (g.n > 0 => pr.used > 0)
      /\ tailBlock = (IF g.n = 0 THEN NoBlock ELSE g.home[g.n - 1])
  BY <1>0, <1>1, Shape DEF EnqOK, RingOK
<1>6. Filled \in Nat /\ BlockSize \in Nat \ {0, 1} /\ Filled <= Committed * BlockSize
      /\ Committed * BlockSize \in Nat /\ Committed * BlockSize < Filled + BlockSize
  BY Basics, CommittedValue
<1>7. (d + 1) * BlockSize = d * BlockSize + BlockSize /\ d * BlockSize \in Nat
  BY <1>3, WithinValue
<1>8. Committed * BlockSize \in Index
  <2>1. /\ g.n * BlockSize \in Index
    BY <1>0, <1>5, BlockInRange
  <2> QED
    BY <1>5, <2>1
<1>9. Base(Minus(tailIndex, 1)) = Base(Plus(tailIndex, n - 1)) <=> Committed = d + 1
  <2>1. ASSUME Base(Minus(tailIndex, 1)) = Base(Plus(tailIndex, n - 1)) PROVE Committed = d + 1
    <3>1. BaseOf(Committed) = Plus(BaseOf(d), BlockSize)
      BY <1>3, <1>4, <2>1
    <3>2. Plus(BaseOf(d), BlockSize) = BaseOf(d + 1)
      <4>1. (BaseOf(d) + 1 * BlockSize) % Numbers = BaseOf(d + 1)
        BY BaseNext
      <4>2. 1 * BlockSize = BlockSize
        BY <1>6
      <4> QED
        BY <4>1, <4>2 DEF Plus
    <3> QED
      BY <1>3, <1>5, <1>8, <3>1, <3>2, BaseSame
  <2>2. ASSUME Committed = d + 1 PROVE Base(Minus(tailIndex, 1)) = Base(Plus(tailIndex, n - 1))
    <3>1. Filled > 0
      BY <1>4, <1>6, <2>2
    <3>2. Committed - 1 = d
      BY <2>2
    <3> QED
      BY <1>3, <1>4, <3>1, <3>2
  <2> QED
    BY <2>1, <2>2
<1>10. PICK x \in Nat, z \in Nat : x = d * BlockSize /\ z = Committed * BlockSize
  BY <1>6, <1>7
<1>11. Committed = d + 1 => z = x + BlockSize
  BY <1>7, <1>10
<1>12. Committed # d + 1 => z <= x
  <2>1. ASSUME d < Committed, Committed # d + 1 PROVE FALSE
    <3>1. d + 1 < Committed
      BY <1>5, <2>1
    <3>2. (d + 1) * BlockSize + BlockSize <= Committed * BlockSize
      BY <1>5, <1>6, <3>1, Multiples
    <3>3. x + BlockSize + BlockSize <= z
      BY <1>6, <1>7, <1>10, <3>2
    <3>4. Filled + n <= x + BlockSize /\ z < Filled + BlockSize
      BY <1>3, <1>6, <1>10
    <3> QED
      BY <1>2, <1>6, <1>10, <3>3, <3>4
  <2>2. ASSUME Committed < d PROVE Committed * BlockSize + BlockSize <= d * BlockSize
    BY <1>5, <1>6, <2>2, Multiples
  <2>3. Committed # d + 1 => Committed = d \/ Committed < d \/ d < Committed
    BY <1>5
  <2> QED
    BY <1>6, <1>10, <2>1, <2>2, <2>3
<1>13. /\ Committed = d + 1 => Filled + n <= z /\ z < Filled + n + BlockSize
       /\ Committed # d + 1 => z < Filled + n
  BY <1>2, <1>3, <1>6, <1>10, <1>11, <1>12
<1>14. z = g.n * BlockSize
  BY <1>5, <1>10
<1>15. Filled' = Filled /\ Committed' = Committed
  BY <1>1, SameTail
<1>16. enq' \in EnqueueRecords
  <2>1. BaseOf(Committed) \in Int /\ tailBlock \in Blocks \cup {NoBlock}
    BY <1>5, <1>8, BaseOfValue, HalfRange DEF Index, Histories
  <2> QED
    BY <1>1, <1>2, <1>4, <1>5, <2>1 DEF EnqueueRecords
<1>17. CallOK(g)'
  BY <1>1, <1>2, <1>5, <1>15 DEF CallOK
<1>18. ~Unlisted(g)' /\ ~Lone(g)' /\ ~Lone(g) /\ ~Unlisted(g)
  BY <1>5, <1>15 DEF Unlisted, Lone
<1>19. EnqOK(g)'
  <2>1. CASE Committed = d + 1
    <3>1. ppc' = "construct" /\ enq'.count = n /\ enq'.noexcept = FALSE
      BY <1>1, <1>9, <2>1
    <3>2. Filled' + enq'.count <= g.n * BlockSize /\ g.n * BlockSize < Filled' + enq'.count + BlockSize
      BY <1>13, <1>14, <1>15, <2>1, <3>1
    <3> QED
      BY <1>16, <1>17, <1>18, <3>1, <3>2 DEF EnqOK, ChoosePcs, ChosenPcs
  <2>2. CASE Committed # d + 1
    <3>1. ppc' = "ahead" /\ enq'.count = n /\ enq'.base = BaseOf(g.n)
      BY <1>1, <1>4, <1>5, <1>9, <2>2
    <3>2. g.n * BlockSize < Filled' + enq'.count /\ g.n = Committed'
      BY <1>5, <1>13, <1>14, <1>15, <2>2, <3>1
    <3> QED
      BY <1>16, <1>17, <1>18, <3>1, <3>2 DEF EnqOK, ChoosePcs, ChosenPcs
  <2> QED
    BY <2>1, <2>2
<1>20. Written(g)' = Written(g) /\ Fronted(g)' = Fronted(g)
  BY <1>18 DEF Written, Fronted
<1>21. FrontOK(g)'
  <2>1. ppc' # "commit" /\ enq'.noexcept = FALSE
    BY <1>1
  <2> QED
    BY <2>1 DEF FrontOK, Published
<1> QED
  BY <1>1, <1>5, <1>19, <1>20, <1>21, ControlStep

\* The calls that need more room than the blocks so far have prepared some.
LEMMA Prepares ==
  ASSUME WindowsFit, ShareIInv, NEW g \in Histories, RingOK(g), EnqOK(g), ppc = "construct"
  PROVE  BlocksPrepared <=> g.n # Committed
<1> HIDE DEF Numbers
<1>1. /\ Committed \in Nat /\ g.n \in Nat /\ Committed <= g.n /\ enq.bulk \in BOOLEAN
      /\ Oldest(g) <= Committed
  BY Shape
<1>2. /\ CallOK(g) /\ Filled + enq.count <= g.n * BlockSize
      /\ g.n * BlockSize < Filled + enq.count + BlockSize
  BY DEF EnqOK, ChosenPcs
<1>3. CASE enq.bulk
  <2>1. ASSUME g.n # Committed PROVE enq.first # NoBlock
    <3>1. Committed < g.n
      BY <1>1, <2>1
    <3>2. g.home[Committed] # NoBlock
      BY <1>1, <3>1, HomeFacts
    <3> QED
      BY <1>2, <1>3, <2>1, <3>2 DEF CallOK
  <2>2. g.n = Committed => enq.first = NoBlock
    BY <1>2 DEF CallOK
  <2> QED
    BY <1>3, <2>1, <2>2 DEF BlocksPrepared
<1>4. CASE ~enq.bulk
  <2>1. enq.count = 1
    BY <1>2, <1>4 DEF CallOK
  <2>2. /\ Filled \in Nat /\ BlockSize \in Nat \ {0, 1} /\ tailIndex \in Index
        /\ Committed * BlockSize \in Nat /\ Filled <= Committed * BlockSize
        /\ Committed * BlockSize < Filled + BlockSize
    BY Basics, CommittedValue
  <2>3. PICK z \in Nat : z = Committed * BlockSize
    BY <2>2
  <2>4. Slot(tailIndex) = Filled % BlockSize
    BY <2>2, BlockNoValue DEF Filled, Number
  <2>5. Slot(tailIndex) = 0 <=> Filled = z
    <3>1. BlockSize \in Nat \ {0} /\ Filled \in Int
      BY <2>2
    <3>2. CASE Filled = z
      <4>1. Filled \in Committed * BlockSize .. Committed * BlockSize + BlockSize - 1
        BY <2>2, <2>3, <3>2
      <4>2. Filled \div BlockSize = Committed /\ Filled % BlockSize = Filled - Committed * BlockSize
        <5>1. Committed \in Int
          BY <1>1
        <5> QED
          BY <3>1, <4>1, <5>1, Quotient
      <4>3. Filled - z = 0
        BY <3>2
      <4> QED
        BY <2>3, <2>4, <3>2, <4>2, <4>3
    <3>3. CASE Filled # z
      <4>1. PICK m \in Int : m = Committed - 1
        BY <1>1
      <4>2. PICK y \in Int : y = m * BlockSize
        BY <2>2
      <4>3. (m + 1) * BlockSize = m * BlockSize + 1 * BlockSize /\ m + 1 = Committed
        BY <1>1, <2>2, <4>1, Distribute
      <4>4. z = y + BlockSize
        BY <2>2, <2>3, <4>2, <4>3
      <4>5. Filled \in m * BlockSize .. m * BlockSize + BlockSize - 1
        BY <2>2, <2>3, <3>3, <4>2, <4>4
      <4>6. Filled \div BlockSize = m /\ Filled % BlockSize = Filled - m * BlockSize
        BY <3>1, <4>1, <4>5, Quotient
      <4>7. Filled - y # 0
        BY <2>2, <2>3, <4>4
      <4> QED
        BY <2>4, <3>3, <4>2, <4>6, <4>7
    <3> QED
      BY <3>2, <3>3
  <2>6. g.n = Committed => Filled # z
    <3>1. g.n = Committed => Filled + 1 <= z
      BY <1>2, <2>1, <2>3
    <3> QED
      BY <2>2, <3>1
  <2>7. ASSUME Filled # z, Committed < g.n PROVE FALSE
    <3>1. Committed * BlockSize + BlockSize <= g.n * BlockSize /\ g.n * BlockSize \in Int
      BY <1>1, <2>2, <2>7, Multiples
    <3>2. PICK y \in Int : y = g.n * BlockSize
      BY <3>1
    <3> QED
      BY <1>2, <2>1, <2>2, <2>3, <2>7, <3>1, <3>2
  <2>8. BlocksPrepared <=> Slot(tailIndex) = 0
    BY <1>4 DEF BlocksPrepared
  <2> QED
    BY <1>1, <2>5, <2>6, <2>7, <2>8
<1> QED
  BY <1>1, <1>3, <1>4

\* A call that fails has changed nothing but the index, or added blocks to the ring that
\* it does not use.
LEMMA FailStep ==
  ASSUME WindowsFit, ShareIInv, ~ThrowsLate, ClaimsOK, NEW g \in Histories, StoreOK(g),
         Undo \/ Throw
  PROVE  StoreOK(g)'
<1> HIDE DEF Numbers
<1>0. RingOK(g) /\ IndexOK(g) /\ EnqOK(g)
  BY DEF StoreOK
<1>1. /\ ClaimsStill /\ UNCHANGED <<tailIndex, freeBlocks, emptied, next, headers>>
      /\ ppc' = "idle" /\ enq' = NoEnqueue /\ ppc \in {"undo", "construct"}
  BY DEF Undo, Throw, Restore, EndCall, ProducerGoto, ClaimsStill, claimVars, counters, storage
<1>2. /\ Committed \in Nat /\ g.n \in Nat /\ pr.used \in Nat /\ Committed <= g.n
      /\ enq.start \in Blocks \cup {NoBlock} /\ enq.count \in Nat
  BY <1>0, Shape
<1>3. CallOK(g) /\ pr \in [front : Int, used : Nat]
  BY <1>0, <1>1 DEF EnqOK, RingOK
<1>4. g.n = Committed
  <2>1. CASE ppc = "undo"
    BY <1>0, <2>1 DEF EnqOK
  <2>2. CASE ppc = "construct"
    <3>1. ~BlocksPrepared
      BY <2>2 DEF Undo, Throw
    <3> QED
      BY <1>0, <2>2, <3>1, Prepares
  <2> QED
    BY <1>1, <2>1, <2>2
<1>5. enq.front = pr.front /\ enq.used = pr.used
  BY <1>3, <1>4 DEF CallOK
<1>6. pr = [front |-> pr.front, used |-> pr.used]
  BY <1>3
<1>7. pr' = pr
  <2>1. Restore => pr' = pr
    BY <1>5, <1>6 DEF Restore
  <2>2. [pr EXCEPT !.used = enq.used] = pr
    BY <1>3, <1>5
  <2> QED
    BY <2>1, <2>2 DEF Undo, Throw
<1>8. tailBlock = (IF Committed = 0 THEN NoBlock ELSE g.home[Committed - 1])
  BY <1>0, <1>4 DEF RingOK
<1>9. tailBlock' = tailBlock
  <2>1. enq.start = tailBlock
    BY <1>3, <1>8 DEF CallOK
  <2>2. enq.first = NoBlock
    BY <1>3, <1>4 DEF CallOK
  <2>3. Restore => tailBlock' = tailBlock
    BY <2>1, <2>2 DEF Restore
  <2> QED
    BY <2>1, <2>3 DEF Undo, Throw
<1>10. Filled' = Filled /\ Committed' = Committed
  BY <1>1, SameTail
<1>11. ~Unlisted(g)' /\ ~Lone(g)' /\ ~Lone(g) /\ ~Unlisted(g)
  BY <1>4, <1>10 DEF Unlisted, Lone
<1>12. enq' \in EnqueueRecords
  BY <1>1 DEF NoEnqueue, EnqueueRecords
<1>13. EnqOK(g)'
  BY <1>1, <1>4, <1>10, <1>11, <1>12 DEF EnqOK, ChoosePcs, ChosenPcs
<1>14. Written(g)' = Written(g) /\ Fronted(g)' = Fronted(g)
  BY <1>11 DEF Written, Fronted
<1>15. FrontOK(g)'
  BY <1>1 DEF FrontOK, Published
<1> QED
  BY <1>1, <1>4, <1>7, <1>9, <1>13, <1>14, <1>15, ControlStep

\* An entry of the index in use is stored.
LEMMA Entering ==
  ASSUME headers \in Seq(Headers), headers # << >>, NEW g \in Histories, NEW f \in Histories,
         f.org = g.org, NEW w \in Int, NEW b \in Blocks, f.home[w] = b,
         pr.front = SlotOf(g, Len(headers), w), enq.base = BaseOf(w), enq.base \in Int,
         AddEntry(b)
  PROVE  /\ headers' \in Seq(Headers) /\ Len(headers') = Len(headers)
         /\ Capacity(Last)' = Capacity(Last) /\ Last'.front = Last.front
         /\ \A j \in 1 .. Len(headers) : headers'[j].front = headers[j].front
         /\ \A j \in 1 .. Len(headers) : \A m : SlotOf(f, j, m)' = SlotOf(g, j, m)
         /\ Lists(f, Len(headers), w)'
         /\ \A j \in 1 .. Len(headers) : \A m \in Int :
              /\ Lists(g, j, m) /\ f.home[m] = g.home[m]
              /\ j = Len(headers) => m - w < Capacity(Last) /\ w - m < Capacity(Last)
              => Lists(f, j, m)'
<1>1. PICK l : l = Len(headers)
  OBVIOUS
<1>2. /\ l \in Nat \ {0} /\ l \in 1 .. l /\ Last = headers[l] /\ Last \in Headers
  BY <1>1, LastFacts
<1>3. PICK s : s = pr.front
  OBVIOUS
<1>4. PICK e : e = [base |-> BaseOf(w), block |-> b]
  OBVIOUS
<1>5. e \in Entries
  BY <1>4 DEF Entries
<1>6. PICK k \in Nat \ {0} : k = Capacity(Last)
  BY <1>2, HeaderFacts
<1>7. /\ Last.entries \in [0 .. k - 1 -> Entries] /\ Last.front \in Int
      /\ Last = [front |-> Last.front, entries |-> Last.entries]
  BY <1>2, <1>6, HeaderFacts
<1>8. s \in 0 .. k - 1
  BY <1>1, <1>2, <1>3, <1>6, SlotFacts
<1>9. headers' = [headers EXCEPT ![l].entries[s] = e]
  BY <1>1, <1>3, <1>4 DEF AddEntry
<1>10. PICK x : x = [front |-> Last.front, entries |-> [Last.entries EXCEPT ![s] = e]]
  OBVIOUS
<1>11. x \in Headers
  <2>1. [Last.entries EXCEPT ![s] = e] \in [0 .. k - 1 -> Entries]
    BY <1>5, <1>7, <1>8
  <2>2. x \in [front : Int, entries : [0 .. k - 1 -> Entries]]
    BY <1>7, <1>10, <2>1
  <2> QED
    BY <2>2 DEF Headers
<1>12. headers' = [headers EXCEPT ![l] = x]
  <2>1. [headers[l] EXCEPT !.entries[s] = e] = x
    <3>1. PICK u, v : Last = [front |-> u, entries |-> v]
      BY <1>7
    <3>2. x = [front |-> u, entries |-> [v EXCEPT ![s] = e]]
      BY <1>10, <3>1
    <3>3. [[front |-> u, entries |-> v] EXCEPT !.entries = [v EXCEPT ![s] = e]] = x
      BY <3>2
    <3>4. [[front |-> u, entries |-> v] EXCEPT !.entries[s] = e] = x
      BY <3>3
    <3> QED
      BY <1>2, <3>1, <3>4
  <2> QED
    BY <1>9, <2>1
<1>13. headers' \in Seq(Headers) /\ Len(headers') = l
  BY <1>1, <1>2, <1>11, <1>12
<1>14. headers'[l] = x /\ \A j \in 1 .. l : j # l => headers'[j] = headers[j]
  BY <1>1, <1>2, <1>12
<1>15. Last' = x
  BY <1>13, <1>14 DEF Last
<1>16. DOMAIN x.entries = DOMAIN Last.entries /\ x.front = Last.front
  BY <1>7, <1>10
<1>17. Capacity(Last)' = Capacity(Last) /\ Capacity(x) = Capacity(Last)
  BY <1>15, <1>16 DEF Capacity
<1>18. ASSUME NEW j \in 1 .. l
       PROVE  headers'[j].front = headers[j].front
              /\ \A m : SlotOf(f, j, m)' = SlotOf(g, j, m)
  <2>1. CASE j = l
    BY <1>2, <1>14, <1>16, <1>17, <2>1 DEF SlotOf
  <2>2. CASE j # l
    <3>1. headers'[j] = headers[j]
      BY <1>14, <2>2
    <3> QED
      BY <3>1 DEF SlotOf
  <2> QED
    BY <2>1, <2>2
<1>19. Lists(f, l, w)'
  <2>1. SlotOf(f, l, w)' = s
    BY <1>1, <1>2, <1>3, <1>18
  <2>2. x.entries[s] = e
    BY <1>7, <1>8, <1>10
  <2> QED
    BY <1>4, <1>14, <2>1, <2>2 DEF Lists
<1>20. ASSUME NEW j \in 1 .. l, NEW m \in Int, Lists(g, j, m), f.home[m] = g.home[m],
              j = l => m - w < k /\ w - m < k
       PROVE  Lists(f, j, m)'
  <2>1. SlotOf(f, j, m)' = SlotOf(g, j, m)
    BY <1>18
  <2>2. CASE j # l
    BY <1>14, <1>20, <2>1, <2>2 DEF Lists
  <2>3. CASE j = l /\ m = w
    BY <1>19, <2>3
  <2>4. CASE j = l /\ m # w
    <3>1. SlotOf(g, l, m) # s
      BY <1>1, <1>2, <1>3, <1>6, <1>20, <2>4, SlotFacts
    <3>2. SlotOf(g, l, m) \in 0 .. k - 1
      BY <1>1, <1>2, <1>6, SlotFacts
    <3>3. x.entries[SlotOf(g, l, m)] = headers[l].entries[SlotOf(g, l, m)]
      BY <1>2, <1>7, <1>10, <3>1, <3>2
    <3> QED
      BY <1>14, <1>20, <2>1, <2>4, <3>3 DEF Lists
  <2> QED
    BY <2>2, <2>3, <2>4
<1> QED
  BY <1>1, <1>6, <1>13, <1>15, <1>16, <1>17, <1>18, <1>19, <1>20

\* The front of the index in use is stored.
LEMMA Fronting ==
  ASSUME headers \in Seq(Headers), headers # << >>, NEW g \in Histories, NEW t \in Int,
         headers' = [headers EXCEPT ![Len(headers)].front = t]
  PROVE  /\ headers' \in Seq(Headers) /\ Len(headers') = Len(headers)
         /\ Capacity(Last)' = Capacity(Last) /\ Last'.front = t
         /\ \A j \in 1 .. Len(headers) :
              /\ j # Len(headers) => headers'[j].front = headers[j].front
              /\ \A m : SlotOf(g, j, m)' = SlotOf(g, j, m) /\ (Lists(g, j, m)' <=> Lists(g, j, m))
<1>1. PICK l : l = Len(headers)
  OBVIOUS
<1>2. /\ l \in Nat \ {0} /\ l \in 1 .. l /\ Last = headers[l] /\ Last \in Headers
  BY <1>1, LastFacts
<1>6. PICK k \in Nat \ {0} : k = Capacity(Last)
  BY <1>2, HeaderFacts
<1>7. /\ Last.entries \in [0 .. k - 1 -> Entries] /\ Last.front \in Int
      /\ Last = [front |-> Last.front, entries |-> Last.entries]
  BY <1>2, <1>6, HeaderFacts
<1>10. PICK x : x = [front |-> t, entries |-> Last.entries]
  OBVIOUS
<1>11. x \in Headers
  <2>1. x \in [front : Int, entries : [0 .. k - 1 -> Entries]]
    BY <1>7, <1>10
  <2> QED
    BY <2>1 DEF Headers
<1>12. headers' = [headers EXCEPT ![l] = x]
  <2>1. [headers[l] EXCEPT !.front = t] = x
    BY <1>2, <1>7, <1>10
  <2> QED
    BY <1>1, <2>1
<1>13. headers' \in Seq(Headers) /\ Len(headers') = l
  BY <1>1, <1>2, <1>11, <1>12
<1>14. headers'[l] = x /\ \A j \in 1 .. l : j # l => headers'[j] = headers[j]
  BY <1>1, <1>2, <1>12
<1>15. Last' = x
  BY <1>13, <1>14 DEF Last
<1>16. x.entries = Last.entries /\ x.front = t
  BY <1>7, <1>10
<1>17. Capacity(Last)' = Capacity(Last) /\ Capacity(x) = Capacity(Last)
  BY <1>15, <1>16 DEF Capacity
<1>18. ASSUME NEW j \in 1 .. l
       PROVE  /\ j # l => headers'[j].front = headers[j].front
              /\ \A m : SlotOf(g, j, m)' = SlotOf(g, j, m) /\ (Lists(g, j, m)' <=> Lists(g, j, m))
  <2>1. CASE j = l
    <3>1. \A m : SlotOf(g, j, m)' = SlotOf(g, j, m)
      BY <1>2, <1>14, <1>16, <1>17, <2>1 DEF SlotOf
    <3>2. headers'[j].entries = headers[j].entries
      BY <1>2, <1>14, <1>16, <2>1
    <3> QED
      BY <2>1, <3>1, <3>2 DEF Lists
  <2>2. CASE j # l
    <3>1. headers'[j] = headers[j]
      BY <1>14, <2>2
    <3> QED
      BY <3>1 DEF SlotOf, Lists
  <2> QED
    BY <2>1, <2>2
<1> QED
  BY <1>1, <1>13, <1>15, <1>16, <1>17, <1>18

------------------------------------------------------------------------------
(* The producer chooses a block.                                           *)

Chosen(g, f, b) ==
  /\ f.n = g.n + 1 /\ f.org = g.org /\ f.home[g.n] = b
  /\ \A m \in Int : m # g.n => f.home[m] = g.home[m]

BatchChoice(b) ==
  /\ enq.bulk /\ AddEntry(b) /\ pr'.front = NextFront
  /\ enq' = [enq EXCEPT !.first = IF @ = NoBlock THEN b ELSE @,
                        !.base = IF More THEN Plus(@, BlockSize) ELSE @]
  /\ ppc' \in (IF More THEN {"ahead", "room"} ELSE {"reset"})

SingleChoice ==
  ~enq.bulk /\ headers' = headers /\ pr'.front = pr.front /\ ConstructOrPublish("entry")

\* o is the oldest block from now on.
Choice(g, f, o, b) ==
  /\ Chosen(g, f, b) /\ tailIndex' = tailIndex /\ ppc \in {"ahead", "requisition"}
  /\ BatchChoice(b) \/ SingleChoice
  /\ o \in {Oldest(g), Oldest(g) + 1} /\ o <= Committed
  /\ pr' \in [front : Int, used : Nat] /\ pr'.used = f.n - o
  /\ headers # << >> /\ pr'.used <= Capacity(Last)
  /\ \A m \in 0 .. o - 1 : \A n \in Within(m) : Consumed(n)

\* At most one block has been chosen since.
SameHomes(g, f) == \A m \in Int : m # g.n => f.home[m] = g.home[m]

LEMMA ChosenExists ==
  ASSUME NEW g \in Histories, NEW b \in Blocks
  PROVE  \E f \in Histories : Chosen(g, f, b)
<1>1. /\ g.n \in Nat /\ g.home \in [Int -> Blocks \cup {NoBlock}] /\ g.org \in [Int -> Int]
  BY DEF Histories
<1>2. PICK v : v = [g.home EXCEPT ![g.n] = b]
  OBVIOUS
<1>3. v \in [Int -> Blocks \cup {NoBlock}] /\ v[g.n] = b /\ \A m \in Int : m # g.n => v[m] = g.home[m]
  BY <1>1, <1>2
<1>4. PICK f : f = [home |-> v, org |-> g.org, n |-> g.n + 1]
  OBVIOUS
<1>5. f \in Histories
  BY <1>1, <1>3, <1>4 DEF Histories
<1>6. Chosen(g, f, b)
  BY <1>3, <1>4 DEF Chosen
<1> QED
  BY <1>5, <1>6

LEMMA ChosenEnq ==
  ASSUME WindowsFit, ShareIInv, NEW g \in Histories, NEW f \in Histories, NEW b \in Blocks,
         NEW o, RingOK(g), EnqOK(g), Choice(g, f, o, b)
  PROVE  EnqOK(f)' /\ (Lone(f)' <=> ~enq.bulk) /\ (Unlisted(f)' <=> ~enq.bulk)
<1> HIDE DEF Numbers
<1>1. /\ Committed \in Nat /\ g.n \in Nat /\ pr.used \in Nat /\ Committed <= g.n
      /\ Oldest(g) \in Nat /\ Oldest(g) <= Committed /\ Oldest(g) = g.n - pr.used
      /\ enq.count \in Nat /\ enq.used \in Nat /\ enq \in EnqueueRecords
      /\ g.n * BlockSize \in Nat
  BY Shape DEF EnqOK
<1>2. /\ f.n = g.n + 1 /\ f.home[g.n] = b /\ \A m \in Int : m # g.n => f.home[m] = g.home[m]
      /\ tailIndex' = tailIndex /\ ppc \in {"ahead", "requisition"}
      /\ BatchChoice(b) \/ SingleChoice
      /\ pr'.used = f.n - o /\ o \in {Oldest(g), Oldest(g) + 1}
  BY DEF Choice, Chosen
<1>3. /\ CallOK(g) /\ g.n * BlockSize < Filled + enq.count /\ enq.base = BaseOf(g.n)
      /\ ~enq.bulk => g.n = Committed
  BY <1>2 DEF EnqOK, ChoosePcs
<1>4. Filled' = Filled /\ Committed' = Committed
  BY <1>2, SameTail
<1>5. /\ Filled \in Nat /\ BlockSize \in Nat \ {0, 1} /\ Filled <= Committed * BlockSize
      /\ Committed * BlockSize \in Nat
  BY Basics, CommittedValue
<1>6. f.n # Committed
  BY <1>1, <1>2
<1>7. pr'.used \in {pr.used, pr.used + 1}
  BY <1>1, <1>2
<1>8. enq.count > 0
  BY <1>3 DEF CallOK
<1>9. PICK d \in Nat : /\ d * BlockSize < Filled + enq.count
                       /\ Filled + enq.count <= d * BlockSize + BlockSize
                       /\ Base(Plus(tailIndex, enq.count - 1)) = BaseOf(d)
                       /\ d * BlockSize \in Index
  <2>1. enq.count \in Nat \ {0} /\ Filled + enq.count <= MaxEnqueued
    BY <1>1, <1>8 DEF ShareIInv, EnqueueFits
  <2> QED
    BY <2>1, BatchEnd
<1>10. g.n * BlockSize \in Index
  BY <1>1, BlockInRange
<1>11. More <=> g.n # d
  <2>1. BaseOf(g.n) = BaseOf(d) => g.n = d
    BY <1>1, <1>9, <1>10, BaseSame
  <2> QED
    BY <1>3, <1>9, <2>1 DEF More
<1>12. f.n * BlockSize = g.n * BlockSize + BlockSize
  BY <1>1, <1>2, WithinValue
<1>13. PICK x \in Nat, y \in Nat, z \in Nat : /\ x = g.n * BlockSize /\ y = d * BlockSize
                                             /\ z = f.n * BlockSize /\ z = x + BlockSize
  BY <1>1, <1>5, <1>9, <1>12, HalfRange DEF Index
<1>14. g.n < d => z <= y
  BY <1>1, <1>5, <1>13, Multiples
<1>15. d < g.n => y + BlockSize <= x
  BY <1>1, <1>5, <1>13, Multiples
<1>16. ~More => Filled + enq.count <= z /\ z < Filled + enq.count + BlockSize
  <2>1. ASSUME g.n = d PROVE x = y
    BY <1>13, <2>1
  <2> QED
    BY <1>1, <1>3, <1>5, <1>9, <1>11, <1>13, <2>1
<1>17. More => z < Filled + enq.count
  <2>1. ~(d < g.n)
    BY <1>1, <1>3, <1>5, <1>9, <1>13, <1>15
  <2> QED
    BY <1>1, <1>5, <1>9, <1>11, <1>13, <1>14, <2>1
<1>18. CASE BatchChoice(b)
  <2>1. /\ enq.bulk
        /\ enq' = [enq EXCEPT !.first = IF @ = NoBlock THEN b ELSE @,
                              !.base = IF More THEN Plus(@, BlockSize) ELSE @]
        /\ ppc' \in (IF More THEN {"ahead", "room"} ELSE {"reset"})
    BY <1>18 DEF BatchChoice
  <2>2. PICK u, v : u = (IF enq.first = NoBlock THEN b ELSE enq.first)
                    /\ v = (IF More THEN Plus(enq.base, BlockSize) ELSE enq.base)
    OBVIOUS
  <2>3. /\ enq' = [enq EXCEPT !.first = u, !.base = v]
    BY <2>1, <2>2
  <2>4. More => v = BaseOf(f.n)
    <3>1. (BaseOf(g.n) + 1 * BlockSize) % Numbers = BaseOf(g.n + 1)
      <4>1. g.n \in Int /\ 1 \in Int
        BY <1>1
      <4> QED
        BY <4>1, BaseNext
    <3>2. 1 * BlockSize = BlockSize
      BY <1>5
    <3> QED
      BY <1>2, <1>3, <2>2, <3>1, <3>2 DEF Plus
  <2>5. u \in Blocks \cup {NoBlock} /\ v \in Int
    <3>1. enq.first \in Blocks \cup {NoBlock} /\ enq.base \in Int
      BY Shape
    <3>2. More => f.n * BlockSize \in Index
      <4>1. More => z < Numbers
        BY <1>1, <1>5, <1>17, Basics DEF ShareIInv, EnqueueFits
      <4> QED
        BY <1>13, <4>1, HalfRange DEF Index
    <3>3. More => BaseOf(f.n) \in Index
      BY <1>1, <1>2, <3>2, BaseOfValue
    <3> QED
      BY <2>2, <2>4, <3>1, <3>3, HalfRange DEF Index
  <2>6. /\ enq' \in EnqueueRecords /\ enq'.count = enq.count /\ enq'.bulk = enq.bulk
        /\ enq'.start = enq.start /\ enq'.used = enq.used /\ enq'.first = u /\ enq'.base = v
        /\ enq'.noexcept = enq.noexcept
    BY <1>1, <2>3, <2>5 DEF EnqueueRecords
  <2>7. u = f.home[Committed]
    <3>1. CASE g.n = Committed
      BY <1>2, <1>3, <2>2, <3>1 DEF CallOK
    <3>2. CASE g.n # Committed
      <4>1. g.home[Committed] # NoBlock
        BY <1>1, <3>2, HomeFacts
      <4>2. f.home[Committed] = g.home[Committed]
        BY <1>1, <1>2, <3>2
      <4> QED
        BY <1>3, <2>1, <2>2, <3>2, <4>1, <4>2 DEF CallOK
    <3> QED
      BY <3>1, <3>2
  <2>8. Committed > 0 => f.home[Committed - 1] = g.home[Committed - 1]
    BY <1>1, <1>2
  <2>9. CallOK(f)'
    <3>1. enq.used <= pr'.used /\ pr'.used <= enq.used + (f.n - Committed)
      BY <1>1, <1>2, <1>3, <1>7 DEF CallOK
    <3>2. enq'.count > 0 /\ enq'.bulk
      BY <1>8, <2>1, <2>6
    <3>3. enq'.start = (IF Committed' = 0 THEN NoBlock ELSE f.home[Committed' - 1])
      BY <1>1, <1>3, <1>4, <2>6, <2>8 DEF CallOK
    <3>4. enq'.first = f.home[Committed']
      BY <1>4, <2>6, <2>7
    <3>5. enq'.used <= pr'.used /\ pr'.used <= enq'.used + (f.n - Committed')
      BY <1>4, <2>6, <3>1
    <3>6. Committed' > 0 => enq'.used > 0
      BY <1>3, <1>4, <2>6 DEF CallOK
    <3> QED
      BY <1>4, <1>6, <3>2, <3>3, <3>4, <3>5, <3>6 DEF CallOK
  <2>10. ~Lone(f)' /\ ~Unlisted(f)'
    BY <2>1, <2>6 DEF Lone, Unlisted
  <2>11. CASE More
    <3>1. /\ ppc' \in {"ahead", "room"} /\ enq'.base = BaseOf(f.n)
          /\ f.n * BlockSize < Filled' + enq'.count
      BY <1>4, <1>13, <1>17, <2>1, <2>4, <2>6, <2>11
    <3> QED
      BY <2>1, <2>6, <2>9, <2>10, <3>1 DEF EnqOK, ChoosePcs, ChosenPcs
  <2>12. CASE ~More
    <3>1. /\ ppc' = "reset" /\ Filled' + enq'.count <= f.n * BlockSize
          /\ f.n * BlockSize < Filled' + enq'.count + BlockSize
      BY <1>4, <1>13, <1>16, <2>1, <2>6, <2>12
    <3> QED
      BY <1>4, <1>6, <2>1, <2>6, <2>9, <2>10, <3>1 DEF EnqOK, ChoosePcs, ChosenPcs
  <2> QED
    BY <2>1, <2>10, <2>11, <2>12
<1>19. CASE SingleChoice
  <2>1. PICK noexcept \in BOOLEAN : /\ enq' = [enq EXCEPT !.noexcept = noexcept]
                                   /\ ppc' = IF noexcept THEN "entry" ELSE "construct"
    BY <1>19 DEF SingleChoice, ConstructOrPublish, ProducerGoto
  <2>2. ~enq.bulk /\ g.n = Committed /\ enq.count = 1
    BY <1>3, <1>19 DEF SingleChoice, CallOK
  <2>3. /\ enq' \in EnqueueRecords /\ enq'.count = enq.count /\ enq'.bulk = enq.bulk
        /\ enq'.start = enq.start /\ enq'.used = enq.used /\ enq'.first = enq.first
        /\ enq'.base = enq.base /\ enq'.noexcept = noexcept
    BY <1>1, <2>1 DEF EnqueueRecords
  <2>4. Committed > 0 => f.home[Committed - 1] = g.home[Committed - 1]
    BY <1>1, <1>2
  <2>5. CallOK(f)'
    <3>1. enq.used <= pr'.used /\ pr'.used <= enq.used + (f.n - Committed)
      BY <1>1, <1>2, <1>3, <1>7 DEF CallOK
    <3> QED
      BY <1>1, <1>3, <1>4, <1>6, <2>2, <2>3, <2>4, <3>1 DEF CallOK
  <2>6. Lone(f)' /\ Unlisted(f)'
    BY <1>4, <1>6, <2>1, <2>2, <2>3 DEF Lone, Unlisted
  <2>7. Filled + 1 <= z /\ z < Filled + 1 + BlockSize
    <3>1. x = Committed * BlockSize
      BY <1>13, <2>2
    <3>2. Filled <= x /\ x < Filled + 1
      BY <1>3, <1>5, <1>13, <2>2, <3>1
    <3> QED
      BY <1>5, <1>13, <3>2
  <2>8. /\ Filled' + enq'.count <= f.n * BlockSize
        /\ f.n * BlockSize < Filled' + enq'.count + BlockSize
    BY <1>4, <1>13, <2>2, <2>3, <2>7
  <2>9. enq'.base = BaseOf(Committed')
    BY <1>3, <1>4, <2>2, <2>3
  <2> QED
    BY <1>4, <1>6, <2>1, <2>2, <2>3, <2>5, <2>6, <2>8, <2>9 DEF EnqOK, ChoosePcs, ChosenPcs
<1> QED
  BY <1>2, <1>18, <1>19

LEMMA ChosenIndex ==
  ASSUME WindowsFit, ShareIInv, NEW g \in Histories, NEW f \in Histories, NEW b \in Blocks,
         NEW o, RingOK(g), IndexOK(g), EnqOK(g), Choice(g, f, o, b)
  PROVE  /\ IndexOK(f)' /\ Oldest(f)' = o
         /\ Len(headers) \in Nat /\ Len(headers') = Len(headers)
         /\ \A j \in 1 .. Len(headers) : \A m \in Nat : SlotOf(f, j, m)' = SlotOf(g, j, m)
         /\ \A j \in 1 .. Len(headers) : \A m \in o .. g.n - 1 :
              Lists(g, j, m) => Lists(f, j, m)'
         /\ \A j \in 1 .. Len(headers) : headers'[j].front = headers[j].front
<1> HIDE DEF Numbers
<1>1. /\ Committed \in Nat /\ g.n \in Nat /\ pr.used \in Nat /\ Committed <= g.n
      /\ Oldest(g) \in Nat /\ Oldest(g) <= Committed /\ Oldest(g) = g.n - pr.used
      /\ enq.base \in Int
  BY Shape
<1>2. /\ f.n = g.n + 1 /\ f.home[g.n] = b /\ \A m \in Int : m # g.n => f.home[m] = g.home[m]
      /\ f.org = g.org
      /\ tailIndex' = tailIndex /\ ppc \in {"ahead", "requisition"}
      /\ BatchChoice(b) \/ SingleChoice
      /\ pr'.used = f.n - o /\ o \in {Oldest(g), Oldest(g) + 1}
      /\ headers # << >> /\ pr'.used <= Capacity(Last)
      /\ pr' \in [front : Int, used : Nat]
  BY DEF Choice, Chosen
<1>3. enq.base = BaseOf(g.n)
  BY <1>2 DEF EnqOK, ChoosePcs
<1>4. Filled' = Filled /\ Committed' = Committed
  BY <1>2, SameTail
<1>5. (Lone(f)' <=> ~enq.bulk) /\ (Unlisted(f)' <=> ~enq.bulk)
  BY ChosenEnq
<1>6. Written(g) = g.n /\ Fronted(g) = g.n
  <2>1. ppc \notin {"entry", "construct", "front"}
    BY <1>2
  <2> QED
    BY <2>1 DEF Unlisted, Written, Fronted
<1>7. Oldest(f)' = o
  BY <1>1, <1>2 DEF Oldest
<1>8. headers \in Seq(Headers)
  BY DEF IndexOK
<1>9. PICK l : l = Len(headers)
  OBVIOUS
<1>10. /\ l \in Nat \ {0} /\ l \in 1 .. l /\ Last = headers[l]
  BY <1>2, <1>8, <1>9, LastFacts
<1>11. PICK k \in Nat \ {0} : k = Capacity(Last)
  BY <1>2, <1>8, LastFacts
<1>12. /\ pr.front = SlotOf(g, l, g.n)
       /\ \A m \in Oldest(g) .. g.n - 1 : Lists(g, l, m)
       /\ Committed > 0 => \E T \in Committed - 1 .. g.n - 1 : Last.front = SlotOf(g, l, T)
  BY <1>2, <1>6, <1>9 DEF IndexOK
<1>13. o \in Nat /\ Oldest(g) <= o /\ g.n + 1 - o <= k
  BY <1>1, <1>2, <1>11
<1>14. CASE BatchChoice(b)
  <2>1. enq.bulk /\ AddEntry(b) /\ pr'.front = NextFront
    BY <1>14 DEF BatchChoice
  <2>2. g.n \in Int
    BY <1>1
  <2>3. /\ headers' \in Seq(Headers) /\ Len(headers') = l
        /\ Capacity(Last)' = k /\ Last'.front = Last.front
        /\ \A j \in 1 .. l : headers'[j].front = headers[j].front
        /\ \A j \in 1 .. l : \A m : SlotOf(f, j, m)' = SlotOf(g, j, m)
        /\ Lists(f, l, g.n)'
        /\ \A j \in 1 .. l : \A m \in Int :
             /\ Lists(g, j, m) /\ f.home[m] = g.home[m]
             /\ j = l => m - g.n < k /\ g.n - m < k
             => Lists(f, j, m)'
    <3>1. pr.front = SlotOf(g, Len(headers), g.n)
      BY <1>9, <1>12
    <3>2. /\ headers' \in Seq(Headers) /\ Len(headers') = Len(headers)
          /\ Capacity(Last)' = Capacity(Last) /\ Last'.front = Last.front
          /\ \A j \in 1 .. Len(headers) : headers'[j].front = headers[j].front
          /\ \A j \in 1 .. Len(headers) : \A m : SlotOf(f, j, m)' = SlotOf(g, j, m)
          /\ Lists(f, Len(headers), g.n)'
          /\ \A j \in 1 .. Len(headers) : \A m \in Int :
               /\ Lists(g, j, m) /\ f.home[m] = g.home[m]
               /\ j = Len(headers) => m - g.n < Capacity(Last) /\ g.n - m < Capacity(Last)
               => Lists(f, j, m)'
      <4>1. PICK w \in Int : w = g.n
        BY <2>2
      <4>2. f.org = g.org /\ headers # << >> /\ f.home[w] = b
        BY <1>2, <4>1
      <4>3. pr.front = SlotOf(g, Len(headers), w) /\ enq.base = BaseOf(w) /\ enq.base \in Int
        BY <1>1, <1>3, <3>1, <4>1
      <4>4. /\ headers' \in Seq(Headers) /\ Len(headers') = Len(headers)
            /\ Capacity(Last)' = Capacity(Last) /\ Last'.front = Last.front
            /\ \A j \in 1 .. Len(headers) : headers'[j].front = headers[j].front
            /\ \A j \in 1 .. Len(headers) : \A m : SlotOf(f, j, m)' = SlotOf(g, j, m)
            /\ Lists(f, Len(headers), w)'
            /\ \A j \in 1 .. Len(headers) : \A m \in Int :
                 /\ Lists(g, j, m) /\ f.home[m] = g.home[m]
                 /\ j = Len(headers) => m - w < Capacity(Last) /\ w - m < Capacity(Last)
                 => Lists(f, j, m)'
        BY <1>8, <2>1, <4>2, <4>3, Entering
      <4> QED
        BY <4>1, <4>4
    <3>3. Lists(f, l, g.n)'
      BY <1>9, <3>2 DEF Lists, SlotOf
    <3> QED
      BY <1>9, <1>11, <3>2, <3>3
  <2>4. Written(f)' = f.n /\ Fronted(f)' = f.n
    BY <1>5, <2>1 DEF Written, Fronted
  <2>5. ASSUME NEW j \in 1 .. l, NEW m \in o .. g.n - 1, Lists(g, j, m) PROVE Lists(f, j, m)'
    <3>1. m \in Int /\ m # g.n /\ m - g.n < k /\ g.n - m < k
      BY <1>1, <1>13
    <3>2. f.home[m] = g.home[m]
      BY <1>2, <3>1
    <3> QED
      BY <2>3, <2>5, <3>1, <3>2
  <2>6. pr'.front = SlotOf(f, l, f.n)'
    <3>1. (SlotOf(g, l, g.n) + 1) % k = SlotOf(g, l, g.n + 1)
      <4>1. 1 \in Int
        OBVIOUS
      <4>2. l \in 1 .. Len(headers)
        BY <1>9, <1>10
      <4>3. \A m, i \in Int : (SlotOf(g, l, m) + i) % Capacity(headers[l]) = SlotOf(g, l, m + i)
        BY <1>8, <4>2, SlotFacts
      <4> QED
        BY <1>10, <1>11, <2>2, <4>1, <4>3
    <3>2. SlotOf(f, l, f.n)' = SlotOf(g, l, g.n + 1)
      BY <1>2, <1>10, <2>3
    <3> QED
      BY <1>11, <1>12, <2>1, <3>1, <3>2 DEF NextFront
  <2>7. \A m \in o .. f.n - 1 : Lists(f, l, m)'
    <3> TAKE m \in o .. f.n - 1
    <3>1. CASE m = g.n
      BY <2>3, <3>1
    <3>2. CASE m # g.n
      <4>1. m \in o .. g.n - 1 /\ m \in Oldest(g) .. g.n - 1
        BY <1>1, <1>2, <1>13, <3>2
      <4> QED
        BY <1>10, <1>12, <2>5, <4>1
    <3> QED
      BY <3>1, <3>2
  <2>8. Committed > 0 => \E T \in Committed - 1 .. f.n - 1 : Last'.front = SlotOf(f, l, T)'
    <3>1. SUFFICES ASSUME Committed > 0 PROVE \E T \in Committed - 1 .. f.n - 1 : Last'.front = SlotOf(f, l, T)'
      OBVIOUS
    <3>2. PICK T \in Committed - 1 .. g.n - 1 : Last.front = SlotOf(g, l, T)
      BY <1>12, <3>1
    <3>3. T \in Committed - 1 .. f.n - 1
      BY <1>1, <1>2, <3>2
    <3>4. Last'.front = SlotOf(f, l, T)'
      BY <1>10, <2>3, <3>2
    <3> QED
      BY <3>3, <3>4
  <2>9. headers' # << >>
    BY <1>10, <2>3
  <2>10. IndexOK(f)'
    BY <1>2, <1>4, <1>7, <1>11, <2>3, <2>4, <2>6, <2>7, <2>8, <2>9 DEF IndexOK
  <2> QED
    BY <1>7, <1>9, <1>10, <2>3, <2>5, <2>10
<1>15. CASE SingleChoice
  <2>1. ~enq.bulk /\ headers' = headers /\ pr'.front = pr.front
    BY <1>15 DEF SingleChoice
  <2>2. Written(f)' = g.n /\ Fronted(f)' = g.n
    <3>1. f.n - 1 = g.n
      BY <1>1, <1>2
    <3> QED
      BY <1>5, <2>1, <3>1 DEF Written, Fronted
  <2>3. \A j, m : SlotOf(f, j, m)' = SlotOf(g, j, m)
    BY <1>2, <2>1 DEF SlotOf
  <2>4. ASSUME NEW j, NEW m \in o .. g.n - 1, Lists(g, j, m) PROVE Lists(f, j, m)'
    <3>1. m \in Int /\ m # g.n
      BY <1>1, <1>13
    <3>2. f.home[m] = g.home[m]
      BY <1>2, <3>1
    <3> QED
      BY <2>1, <2>3, <2>4, <3>2 DEF Lists
  <2>5. Last' = Last
    BY <2>1 DEF Last
  <2>6. \A m \in o .. g.n - 1 : Lists(f, l, m)'
    <3> TAKE m \in o .. g.n - 1
    <3>1. m \in Oldest(g) .. g.n - 1
      BY <1>1, <1>13
    <3> QED
      BY <1>12, <2>4, <3>1
  <2>7. Committed > 0 => \E T \in Committed - 1 .. g.n - 1 : Last'.front = SlotOf(f, l, T)'
    BY <1>12, <2>3, <2>5
  <2>8. Capacity(Last)' = k
    BY <1>11, <2>5
  <2>9. IndexOK(f)'
    BY <1>2, <1>4, <1>7, <1>8, <1>9, <1>11, <1>12, <2>1, <2>2, <2>3, <2>6, <2>7, <2>8 DEF IndexOK
  <2> QED
    BY <1>7, <1>9, <1>10, <2>1, <2>3, <2>4, <2>9
<1> QED
  BY <1>2, <1>14, <1>15

\* All but the ring and the flags.
LEMMA ChosenStore ==
  ASSUME WindowsFit, ShareIInv, ClaimsOK, ClaimsStill,
         NEW g \in Histories, NEW f \in Histories, NEW b \in Blocks,
         NEW o, StoreOK(g), Choice(g, f, o, b), RingOK(f)', FlagsOK(f)'
  PROVE  StoreOK(f)'
<1>1. RingOK(g) /\ IndexOK(g) /\ EnqOK(g) /\ LookupsOK(g)
  BY DEF StoreOK
<1>2. /\ IndexOK(f)' /\ Oldest(f)' = o
      /\ Len(headers) \in Nat /\ Len(headers') = Len(headers)
      /\ \A j \in 1 .. Len(headers) : \A m \in Nat : SlotOf(f, j, m)' = SlotOf(g, j, m)
      /\ \A j \in 1 .. Len(headers) : \A m \in o .. g.n - 1 :
           Lists(g, j, m) => Lists(f, j, m)'
      /\ \A j \in 1 .. Len(headers) : headers'[j].front = headers[j].front
  BY <1>1, ChosenIndex
<1>3. EnqOK(f)'
  BY <1>1, ChosenEnq
<1>4. /\ g.n \in Nat /\ Oldest(g) \in Nat
  BY <1>1, Shape
<1>5. /\ f.n = g.n + 1 /\ \A m \in Int : m # g.n => f.home[m] = g.home[m]
      /\ o \in {Oldest(g), Oldest(g) + 1}
      /\ \A m \in 0 .. o - 1 : \A n \in Within(m) : Consumed(n)
  BY DEF Choice, Chosen
<1>6. g.n <= f.n /\ o \in Nat
  BY <1>4, <1>5
<1>7. \A m \in o .. g.n - 1 : f.home[m] = g.home[m]
  BY <1>4, <1>5, <1>6
<1>8. Len(headers) <= Len(headers') /\ Len(headers') \in Nat
  BY <1>2
<1>9. LookupsOK(f)'
  BY <1>1, <1>2, <1>5, <1>6, <1>7, <1>8, LookupsStill
<1>10. FrontOK(f)'
  <2>1. enq \in EnqueueRecords
    BY <1>1 DEF EnqOK
  <2>2. CASE BatchChoice(b)
    <3>1. ppc' \notin {"commit", "construct"}
      BY <2>2 DEF BatchChoice
    <3> QED
      BY <3>1 DEF FrontOK, Published
  <2>3. CASE SingleChoice
    <3>1. PICK noexcept \in BOOLEAN : /\ enq' = [enq EXCEPT !.noexcept = noexcept]
                                     /\ ppc' = IF noexcept THEN "entry" ELSE "construct"
      BY <2>3 DEF SingleChoice, ConstructOrPublish, ProducerGoto
    <3>2. enq'.noexcept = noexcept
      BY <2>1, <3>1 DEF EnqueueRecords
    <3> QED
      BY <3>1, <3>2 DEF FrontOK, Published
  <2> QED
    BY <2>2, <2>3 DEF Choice
<1> QED
  BY <1>2, <1>3, <1>9, <1>10 DEF StoreOK

\* The block ahead is the oldest of the ring; when it is empty, all of its elements
\* have been consumed.
LEMMA AheadFacts ==
  ASSUME WindowsFit, ShareIInv, NEW g \in Histories, StoreOK(g), ppc = "ahead", EmptyAhead
  PROVE  /\ next[tailBlock] = g.home[Oldest(g)] /\ pr.used > 0 /\ Oldest(g) < Committed
         /\ emptied[g.home[Oldest(g)]] = Slots
         /\ \A m \in 0 .. Oldest(g) : \A n \in Within(m) : Consumed(n)
<1> HIDE DEF Numbers
<1>1. RingOK(g) /\ EnqOK(g) /\ FlagsOK(g)
  BY DEF StoreOK
<1>2. /\ Committed \in Nat /\ g.n \in Nat /\ pr.used \in Nat /\ Committed <= g.n
      /\ Oldest(g) \in Nat /\ Oldest(g) <= Committed /\ Oldest(g) = g.n - pr.used
  BY <1>1, Shape
<1>3. g.n # 0 /\ pr.used > 0 /\ tailBlock = g.home[g.n - 1]
  <2>1. g.n # 0
    BY <1>1 DEF RingOK, EmptyAhead
  <2>2. g.n > 0
    BY <1>2, <2>1
  <2> QED
    BY <1>1, <2>1, <2>2 DEF RingOK
<1>4. next[tailBlock] = g.home[Oldest(g)]
  <2>1. g.n > 0
    BY <1>2, <1>3
  <2> QED
    BY <1>1, <1>3, <2>1 DEF RingOK
<1>5. Oldest(g) # Committed
  <2>1. SUFFICES ASSUME Oldest(g) = Committed PROVE FALSE
    OBVIOUS
  <2>2. g.n # Committed
    BY <1>2, <1>3, <2>1
  <2>3. enq.bulk /\ enq.first = g.home[Committed]
    BY <1>1, <2>2 DEF EnqOK, ChoosePcs, CallOK
  <2> QED
    BY <1>4, <2>1, <2>3 DEF EmptyAhead
<1>6. Oldest(g) < Committed
  BY <1>2, <1>5
<1>7. emptied[g.home[Oldest(g)]] = Slots
  BY <1>4 DEF EmptyAhead, IsEmpty
<1>8. Used(Oldest(g)) = Slots
  <2>1. Oldest(g) \in Oldest(g) .. Committed - 1
    BY <1>2, <1>6
  <2> QED
    BY <1>1, <1>7, <2>1 DEF FlagsOK
<1>9. ASSUME NEW n \in Within(Oldest(g)) PROVE Consumed(n)
  <2>1. BlockSize \in Nat \ {0}
    BY BlockFacts
  <2>2. n \in Nat /\ \A k \in Within(Oldest(g)) :
                       k \in Nat /\ n - k < BlockSize /\ k - n < BlockSize
    BY <1>2, <2>1, WithinValue
  <2>3. n % BlockSize \in Slots
    BY <2>1, <2>2 DEF Slots
  <2>4. n % BlockSize \in Used(Oldest(g))
    BY <1>8, <2>3
  <2>5. PICK k \in Within(Oldest(g)) : Consumed(k) /\ k % BlockSize = n % BlockSize
    BY <2>4 DEF Used
  <2>6. k = n
    <3>1. k \in Int /\ n \in Int /\ n - k < BlockSize /\ k - n < BlockSize
      BY <2>2
    <3> QED
      BY <2>1, <2>5, <3>1, RingDistinct
  <2> QED
    BY <2>5, <2>6
<1>10. \A m \in 0 .. Oldest(g) : \A n \in Within(m) : Consumed(n)
  <2> TAKE m \in 0 .. Oldest(g)
  <2>1. m = Oldest(g) \/ m \in 0 .. Oldest(g) - 1
    BY <1>2
  <2> QED
    BY <1>1, <1>9, <2>1 DEF FlagsOK
<1> QED
  BY <1>3, <1>4, <1>6, <1>7, <1>10

LEMMA ReuseAheadStep ==
  ASSUME WindowsFit, ShareIInv, ClaimsOK, NEW g \in Histories, StoreOK(g), ReuseAhead
  PROVE  \E f \in Histories : StoreOK(f)' /\ SameHomes(g, f)
<1> HIDE DEF Numbers
<1>1. RingOK(g) /\ IndexOK(g) /\ EnqOK(g) /\ FlagsOK(g)
  BY DEF StoreOK
<1>2. /\ Committed \in Nat /\ g.n \in Nat /\ pr.used \in Nat /\ Committed <= g.n
      /\ Oldest(g) \in Nat /\ Oldest(g) = g.n - pr.used /\ pr.front \in Int
  BY <1>1, Shape
<1>3. /\ ppc = "ahead" /\ EmptyAhead /\ tailBlock' = next[tailBlock]
      /\ ClaimsStill /\ UNCHANGED <<tailIndex, freeBlocks, next>>
  BY DEF ReuseAhead, ClaimsStill, claimVars, counters
<1>4. PICK b : b = g.home[Oldest(g)]
  OBVIOUS
<1>5. PICK o \in Nat : o = Oldest(g) + 1
  BY <1>2
<1>6. /\ next[tailBlock] = b /\ pr.used > 0 /\ o <= Committed /\ emptied[b] = Slots
      /\ \A m \in 0 .. Oldest(g) : \A n \in Within(m) : Consumed(n)
  BY <1>2, <1>3, <1>4, <1>5, AheadFacts
<1>7. b \in Blocks /\ b \notin freeBlocks
  <2>1. Oldest(g) \in Int /\ Oldest(g) <= Oldest(g) /\ Oldest(g) < g.n
    BY <1>2, <1>5, <1>6
  <2> QED
    BY <1>1, <1>4, <2>1, HomeFacts
<1>8. PICK f \in Histories : Chosen(g, f, b)
  BY <1>7, ChosenExists
<1>9. /\ f.n = g.n + 1 /\ f.org = g.org /\ f.home[g.n] = b
      /\ \A m \in Int : m # g.n => f.home[m] = g.home[m]
  BY <1>8 DEF Chosen
<1>10. headers # << >> /\ pr.used <= Capacity(Last)
  BY <1>1, <1>6 DEF IndexOK
<1>11. /\ pr' \in [front : Int, used : Nat] /\ pr'.used = pr.used
       /\ emptied' = (IF enq.bulk THEN emptied ELSE [emptied EXCEPT ![b] = {}])
       /\ BatchChoice(b) \/ SingleChoice
  <2>1. PICK u, v : pr = [front |-> u, used |-> v]
    BY <1>1 DEF RingOK
  <2>2. CASE enq.bulk
    <3>1. /\ AddEntry(b) /\ pr' = [pr EXCEPT !.front = NextFront] /\ emptied' = emptied
          /\ enq' = [enq EXCEPT !.first = IF @ = NoBlock THEN b ELSE @,
                                !.base = IF More THEN Plus(@, BlockSize) ELSE @]
          /\ ppc' = IF More THEN "ahead" ELSE "reset"
      BY <1>6, <2>2 DEF ReuseAhead, ProducerGoto
    <3>2. pr' = [front |-> NextFront, used |-> v]
      BY <2>1, <3>1
    <3>3. NextFront \in Int
      <4>1. PICK k \in Nat \ {0} : k = Capacity(Last)
        BY <1>1, <1>10, LastFacts DEF IndexOK
      <4> QED
        BY <1>2, <4>1 DEF NextFront
    <3>4. BatchChoice(b)
      BY <2>2, <3>1, <3>2 DEF BatchChoice
    <3>5. v = pr.used
      BY <2>1
    <3> QED
      BY <1>2, <2>2, <3>1, <3>2, <3>3, <3>4, <3>5
  <2>3. CASE ~enq.bulk
    <3>1. emptied' = [emptied EXCEPT ![b] = {}] /\ ConstructOrPublish("entry")
          /\ headers' = headers /\ pr' = pr
      BY <1>6, <2>3 DEF ReuseAhead
    <3>2. SingleChoice
      BY <2>3, <3>1 DEF SingleChoice
    <3> QED
      BY <1>1, <2>3, <3>1, <3>2 DEF RingOK
  <2> QED
    BY <2>2, <2>3
<1>12. Choice(g, f, o, b)
  <2>1. pr'.used = f.n - o
    BY <1>2, <1>5, <1>9, <1>11
  <2>2. \A m \in 0 .. o - 1 : \A n \in Within(m) : Consumed(n)
    BY <1>2, <1>5, <1>6
  <2>3. pr'.used <= Capacity(Last)
    BY <1>10, <1>11
  <2> QED
    BY <1>3, <1>5, <1>6, <1>8, <1>10, <1>11, <2>1, <2>2, <2>3 DEF Choice
<1>13. Committed' = Committed
  BY <1>3, SameTail
<1>14. Oldest(f)' = o
  BY <1>1, <1>7, <1>12, ChosenIndex
<1>15. g.n = Oldest(g) + pr.used /\ o <= g.n
  BY <1>2, <1>6
<1>16. \A m \in o .. g.n - 1 : m \in Oldest(g) .. g.n - 1 /\ m # Oldest(g) /\ m \in Int /\ m # g.n
  BY <1>2, <1>5
<1>17. \A m \in o .. g.n - 1 : f.home[m] = g.home[m] /\ f.home[m] # b
  <2> TAKE m \in o .. g.n - 1
  <2>1. Oldest(g) \in Oldest(g) .. g.n - 1
    BY <1>2, <1>6
  <2> QED
    BY <1>1, <1>4, <1>9, <1>16, <2>1 DEF RingOK
<1>18. \A m \in o .. f.n - 1 : m = g.n \/ m \in o .. g.n - 1
  BY <1>2, <1>9
<1>19. RingOK(f)'
  <2>1. /\ pr'.used <= f.n /\ pr'.used > 0 /\ o <= Committed' /\ Committed' <= f.n
    BY <1>2, <1>6, <1>9, <1>11, <1>13
  <2>2. \A m \in o .. f.n - 1 : f.home[m] \in Blocks \ freeBlocks
    <3> TAKE m \in o .. f.n - 1
    <3>1. CASE m = g.n
      BY <1>7, <1>9, <3>1
    <3>2. CASE m \in o .. g.n - 1
      BY <1>1, <1>16, <1>17, <3>2 DEF RingOK
    <3> QED
      BY <1>18, <3>1, <3>2
  <2>3. \A m, q \in o .. f.n - 1 : f.home[m] = f.home[q] => m = q
    <3> TAKE m, q \in o .. f.n - 1
    <3>1. CASE m = g.n \/ q = g.n
      BY <1>9, <1>17, <1>18, <3>1
    <3>2. CASE m \in o .. g.n - 1 /\ q \in o .. g.n - 1
      BY <1>1, <1>16, <1>17, <3>2 DEF RingOK
    <3> QED
      BY <1>18, <3>1, <3>2
  <2>4. \A a \in Blocks \ freeBlocks : \E m \in o .. f.n - 1 : f.home[m] = a
    <3> TAKE a \in Blocks \ freeBlocks
    <3>1. PICK m \in Oldest(g) .. g.n - 1 : g.home[m] = a
      BY <1>1 DEF RingOK
    <3>2. CASE m = Oldest(g)
      <4>1. g.n \in o .. f.n - 1
        BY <1>2, <1>9, <1>15
      <4> QED
        BY <1>4, <1>9, <3>1, <3>2, <4>1
    <3>3. CASE m # Oldest(g)
      <4>1. m \in o .. g.n - 1 /\ m \in o .. f.n - 1
        BY <1>2, <1>5, <1>9, <3>3
      <4> QED
        BY <1>17, <3>1, <4>1
    <3> QED
      BY <3>2, <3>3
  <2>5. f.n # 0 /\ f.n - 1 = g.n /\ tailBlock' = f.home[f.n - 1]
    <3>1. f.n # 0 /\ f.n - 1 = g.n
      BY <1>2, <1>9
    <3> QED
      BY <1>3, <1>6, <1>9, <3>1
  <2>6. g.n > 0 /\ tailBlock = g.home[g.n - 1]
    <3>1. g.n > 0 /\ g.n # 0
      BY <1>2, <1>6
    <3> QED
      BY <1>1, <3>1 DEF RingOK
  <2>7. \A m \in o .. f.n - 2 : next[f.home[m]] = f.home[m + 1]
    <3> TAKE m \in o .. f.n - 2
    <3>1. m \in o .. g.n - 1 /\ m \in Int
      BY <1>2, <1>9
    <3>2. CASE m = g.n - 1
      <4>1. m + 1 = g.n
        BY <1>2, <3>2
      <4> QED
        BY <1>6, <1>9, <1>17, <2>6, <3>1, <3>2, <4>1
    <3>3. CASE m # g.n - 1
      <4>1. m \in Oldest(g) .. g.n - 2 /\ m + 1 \in o .. g.n - 1
        BY <1>2, <1>5, <3>1, <3>3
      <4> QED
        BY <1>1, <1>17, <3>1, <4>1 DEF RingOK
    <3> QED
      BY <3>2, <3>3
  <2>8. next[f.home[f.n - 1]] = f.home[o]
    <3>1. next[b] = f.home[o]
      <4>1. CASE o = g.n
        <5>1. Oldest(g) = g.n - 1
          BY <1>2, <1>5, <4>1
        <5> QED
          BY <1>4, <1>6, <1>9, <2>6, <4>1, <5>1
      <4>2. CASE o # g.n
        <5>1. Oldest(g) \in Oldest(g) .. g.n - 2 /\ o \in o .. g.n - 1
          BY <1>2, <1>5, <1>15, <4>2
        <5> QED
          BY <1>1, <1>4, <1>5, <1>17, <5>1 DEF RingOK
      <4> QED
        BY <4>1, <4>2
    <3> QED
      BY <1>9, <2>5, <3>1
  <2> QED
    BY <1>1, <1>3, <1>11, <1>14, <2>1, <2>2, <2>3, <2>4, <2>5, <2>7, <2>8 DEF RingOK
<1>20. FlagsOK(f)'
  <2>1. /\ \A n : Consumed(n)' <=> Consumed(n)
        /\ \A m : Used(m)' = Used(m)
    BY <1>3, SameClaims
  <2>2. DOMAIN emptied' = Blocks /\ \A a : a # b => emptied'[a] = emptied[a]
    BY <1>1, <1>11 DEF FlagsOK
  <2>3. ASSUME NEW m \in o .. Committed - 1 PROVE emptied'[f.home[m]] = Used(m)'
    <3>1. m \in o .. g.n - 1 /\ m \in Oldest(g) .. Committed - 1
      BY <1>2, <1>5
    <3> QED
      BY <1>1, <1>17, <2>1, <2>2, <3>1 DEF FlagsOK
  <2>4. ASSUME NEW m \in 0 .. o - 1, NEW n \in Within(m) PROVE Consumed(n)'
    <3>1. m \in 0 .. Oldest(g)
      BY <1>2, <1>5
    <3> QED
      BY <1>6, <2>1, <3>1
  <2>5. ASSUME NEW m \in Committed .. f.n - 1
        PROVE  emptied'[f.home[m]] =
                 IF enq'.bulk /\ ppc' \in ChoosePcs \cup {"reset"} THEN Slots ELSE {}
    <3>1. enq \in EnqueueRecords /\ (~enq.bulk => g.n = Committed)
      BY <1>1, <1>3 DEF EnqOK, ChoosePcs
    <3>2. CASE enq.bulk
      <4>1. BatchChoice(b)
        BY <1>11, <3>2 DEF SingleChoice
      <4>2. /\ enq' = [enq EXCEPT !.first = IF @ = NoBlock THEN b ELSE @,
                                  !.base = IF More THEN Plus(@, BlockSize) ELSE @]
            /\ ppc' \in (IF More THEN {"ahead", "room"} ELSE {"reset"})
        BY <4>1 DEF BatchChoice
      <4>3. enq'.bulk = enq.bulk
        BY <3>1, <4>2 DEF EnqueueRecords
      <4>4. enq'.bulk /\ ppc' \in ChoosePcs \cup {"reset"}
        BY <3>2, <4>2, <4>3 DEF ChoosePcs
      <4>5. emptied[f.home[m]] = Slots
        <5>1. CASE m = g.n
          BY <1>6, <1>9, <5>1
        <5>2. CASE m # g.n
          <6>1. m \in Committed .. g.n - 1 /\ m \in o .. g.n - 1
            BY <1>2, <1>6, <1>9, <5>2
          <6> QED
            BY <1>1, <1>3, <1>17, <3>2, <6>1 DEF FlagsOK, ChoosePcs
        <5> QED
          BY <5>1, <5>2
      <4> QED
        BY <1>11, <3>2, <4>4, <4>5
    <3>3. CASE ~enq.bulk
      <4>1. m = g.n
        BY <1>2, <1>9, <3>1, <3>3
      <4>2. PICK noexcept \in BOOLEAN : enq' = [enq EXCEPT !.noexcept = noexcept]
        BY <1>11, <3>3 DEF SingleChoice, BatchChoice, ConstructOrPublish
      <4>3. enq'.bulk = enq.bulk
        BY <3>1, <4>2 DEF EnqueueRecords
      <4>4. emptied'[b] = {}
        BY <1>1, <1>7, <1>11, <3>3 DEF FlagsOK
      <4> QED
        BY <1>9, <3>3, <4>1, <4>3, <4>4
    <3> QED
      BY <3>2, <3>3
  <2> QED
    BY <1>13, <1>14, <2>2, <2>3, <2>4, <2>5 DEF FlagsOK
<1>21. StoreOK(f)'
  BY <1>3, <1>7, <1>12, <1>19, <1>20, ChosenStore
<1> QED
  BY <1>9, <1>21 DEF SameHomes

LEMMA RequisitionStep ==
  ASSUME WindowsFit, ShareIInv, ClaimsOK, NEW g \in Histories, StoreOK(g), Requisition
  PROVE  \E f \in Histories : StoreOK(f)' /\ SameHomes(g, f)
<1> HIDE DEF Numbers
<1>1. RingOK(g) /\ IndexOK(g) /\ EnqOK(g) /\ FlagsOK(g)
  BY DEF StoreOK
<1>2. /\ Committed \in Nat /\ g.n \in Nat /\ pr.used \in Nat /\ Committed <= g.n
      /\ Oldest(g) \in Nat /\ Oldest(g) = g.n - pr.used /\ pr.front \in Int
      /\ Oldest(g) <= Committed
  BY <1>1, Shape
<1>3. PICK b \in freeBlocks :
        /\ freeBlocks' = freeBlocks \ {b} /\ Insert(b)
        /\ emptied' = [emptied EXCEPT ![b] = IF enq.bulk THEN Slots ELSE {}]
        /\ IF enq.bulk
           THEN /\ AddEntry(b)
                /\ pr' = [front |-> NextFront, used |-> pr.used + 1]
                /\ enq' = [enq EXCEPT !.first = IF @ = NoBlock THEN b ELSE @,
                                      !.base = IF More THEN Plus(@, BlockSize) ELSE @]
                /\ ProducerGoto(IF More THEN "room" ELSE "reset")
           ELSE /\ pr' = [pr EXCEPT !.used = @ + 1]
                /\ ConstructOrPublish("entry")
                /\ headers' = headers
  BY DEF Requisition
<1>4. ppc = "requisition" /\ tailIndex' = tailIndex /\ ClaimsStill
  BY DEF Requisition, ClaimsStill, claimVars, counters
<1>5. PICK o \in Nat : o = Oldest(g)
  BY <1>2
<1>6. b \in Blocks
  BY <1>1, <1>3 DEF RingOK
<1>7. headers # << >> /\ pr.used < Capacity(Last)
  BY <1>1, <1>4 DEF EnqOK
<1>8. PICK f \in Histories : Chosen(g, f, b)
  BY <1>6, ChosenExists
<1>9. /\ f.n = g.n + 1 /\ f.org = g.org /\ f.home[g.n] = b
      /\ \A m \in Int : m # g.n => f.home[m] = g.home[m]
  BY <1>8 DEF Chosen
<1>10. PICK k \in Nat \ {0} : k = Capacity(Last)
  BY <1>1, <1>7, LastFacts DEF IndexOK
<1>11. /\ pr' \in [front : Int, used : Nat] /\ pr'.used = pr.used + 1
       /\ BatchChoice(b) \/ SingleChoice
  <2>1. PICK u, v : pr = [front |-> u, used |-> v]
    BY <1>1 DEF RingOK
  <2>4. v = pr.used /\ u = pr.front
    BY <2>1
  <2>2. CASE enq.bulk
    <3>1. /\ AddEntry(b) /\ pr' = [front |-> NextFront, used |-> pr.used + 1]
          /\ enq' = [enq EXCEPT !.first = IF @ = NoBlock THEN b ELSE @,
                                !.base = IF More THEN Plus(@, BlockSize) ELSE @]
          /\ ppc' = IF More THEN "room" ELSE "reset"
      BY <1>3, <2>2 DEF ProducerGoto
    <3>3. NextFront \in Int
      BY <1>2, <1>10 DEF NextFront
    <3>4. BatchChoice(b)
      BY <2>2, <3>1 DEF BatchChoice
    <3> QED
      BY <1>2, <3>1, <3>3, <3>4
  <2>3. CASE ~enq.bulk
    <3>1. ConstructOrPublish("entry") /\ headers' = headers /\ pr' = [pr EXCEPT !.used = @ + 1]
      BY <1>3, <2>3
    <3>2. pr' = [front |-> u, used |-> v + 1]
      BY <2>1, <3>1
    <3>3. SingleChoice
      BY <2>3, <2>4, <3>1, <3>2 DEF SingleChoice
    <3> QED
      BY <1>2, <2>4, <3>2, <3>3
  <2> QED
    BY <2>2, <2>3
<1>12. Choice(g, f, o, b)
  <2>1. pr'.used = f.n - o
    BY <1>2, <1>5, <1>9, <1>11
  <2>2. \A m \in 0 .. o - 1 : \A n \in Within(m) : Consumed(n)
    BY <1>1, <1>5 DEF FlagsOK
  <2>3. pr'.used <= Capacity(Last)
    BY <1>2, <1>7, <1>10, <1>11
  <2> QED
    BY <1>2, <1>4, <1>5, <1>7, <1>8, <1>11, <2>1, <2>2, <2>3 DEF Choice
<1>13. Committed' = Committed
  BY <1>4, SameTail
<1>14. Oldest(f)' = o
  BY <1>1, <1>6, <1>12, ChosenIndex
<1>15. g.n = o + pr.used /\ o <= g.n
  BY <1>2, <1>5
<1>16. \A m \in o .. g.n - 1 : m \in Int /\ m # g.n
  BY <1>2, <1>5
<1>17. \A m \in o .. g.n - 1 : /\ f.home[m] = g.home[m] /\ f.home[m] # b
                               /\ f.home[m] \in Blocks \ freeBlocks
  BY <1>1, <1>3, <1>5, <1>9, <1>16 DEF RingOK
<1>18. \A m \in o .. f.n - 1 : m = g.n \/ m \in o .. g.n - 1
  BY <1>2, <1>9
<1>19. \A m, q \in o .. g.n - 1 : f.home[m] = f.home[q] => m = q
  BY <1>1, <1>5, <1>17 DEF RingOK
<1>20. DOMAIN next = Blocks
  BY <1>1 DEF RingOK
<1>21. g.n > 0 => /\ tailBlock = g.home[g.n - 1] /\ tailBlock \in Blocks /\ tailBlock # b
                  /\ tailBlock # NoBlock /\ g.n - 1 \in o .. g.n - 1
                  /\ next' = [next EXCEPT ![b] = next[tailBlock], ![tailBlock] = b]
                  /\ next[tailBlock] = g.home[o]
  <2> SUFFICES ASSUME g.n > 0 PROVE /\ tailBlock = g.home[g.n - 1] /\ tailBlock \in Blocks /\ tailBlock # b
                  /\ tailBlock # NoBlock /\ g.n - 1 \in o .. g.n - 1
                  /\ next' = [next EXCEPT ![b] = next[tailBlock], ![tailBlock] = b]
                  /\ next[tailBlock] = g.home[o]
    OBVIOUS
  <2>1. g.n # 0 /\ pr.used > 0
    BY <1>1, <1>2 DEF RingOK
  <2>2. g.n - 1 \in o .. g.n - 1
    BY <1>2, <1>15, <2>1
  <2>3. tailBlock = g.home[g.n - 1] /\ next[tailBlock] = g.home[o]
    BY <1>1, <1>5, <2>1 DEF RingOK
  <2>4. tailBlock \in Blocks /\ tailBlock # b
    BY <1>17, <2>2, <2>3
  <2>5. tailBlock # NoBlock
    BY <2>4, ExplicitAssumption DEF ExplicitAssumption
  <2> QED
    BY <1>3, <2>2, <2>3, <2>4, <2>5 DEF Insert
<1>22. g.n = 0 => tailBlock = NoBlock /\ o = 0 /\ next' = [next EXCEPT ![b] = b]
  <2>1. g.n = 0 => tailBlock = NoBlock
    BY <1>1 DEF RingOK
  <2>2. g.n = 0 => o = 0
    BY <1>15
  <2> QED
    BY <1>3, <2>1, <2>2 DEF Insert
<1>23. f.n # 0 /\ f.n - 1 = g.n
  BY <1>2, <1>9
<1>24. RingOK(f)'
  <2>1. /\ pr'.used <= f.n /\ pr'.used > 0 /\ o <= Committed' /\ Committed' <= f.n
    BY <1>2, <1>5, <1>9, <1>11, <1>13
  <2>2. \A m \in o .. f.n - 1 : f.home[m] \in Blocks \ freeBlocks'
    <3> TAKE m \in o .. f.n - 1
    <3>1. CASE m = g.n
      BY <1>3, <1>6, <1>9, <3>1
    <3>2. CASE m \in o .. g.n - 1
      BY <1>3, <1>17, <3>2
    <3> QED
      BY <1>18, <3>1, <3>2
  <2>3. \A m, q \in o .. f.n - 1 : f.home[m] = f.home[q] => m = q
    <3> TAKE m, q \in o .. f.n - 1
    <3>1. CASE m = g.n \/ q = g.n
      BY <1>9, <1>17, <1>18, <3>1
    <3>2. CASE m \in o .. g.n - 1 /\ q \in o .. g.n - 1
      BY <1>19, <3>2
    <3> QED
      BY <1>18, <3>1, <3>2
  <2>4. \A a \in Blocks \ freeBlocks' : \E m \in o .. f.n - 1 : f.home[m] = a
    <3> TAKE a \in Blocks \ freeBlocks'
    <3>1. CASE a = b
      <4>1. g.n \in o .. f.n - 1
        BY <1>2, <1>15, <1>23
      <4> QED
        BY <1>9, <3>1, <4>1
    <3>2. CASE a # b
      <4>1. PICK m \in o .. g.n - 1 : g.home[m] = a
        BY <1>1, <1>3, <1>5, <3>2 DEF RingOK
      <4>2. m \in o .. f.n - 1
        BY <1>2, <1>23, <4>1
      <4> QED
        BY <1>17, <4>1, <4>2
    <3> QED
      BY <3>1, <3>2
  <2>5. tailBlock' = f.home[f.n - 1]
    BY <1>3, <1>9, <1>23 DEF Insert
  <2>6. \A m \in o .. f.n - 2 : next'[f.home[m]] = f.home[m + 1]
    <3> TAKE m \in o .. f.n - 2
    <3>1. m \in o .. g.n - 1 /\ m \in Int /\ g.n > 0
      BY <1>2, <1>9, <1>15
    <3>2. CASE m = g.n - 1
      <4>1. m + 1 = g.n /\ f.home[m] = tailBlock
        BY <1>2, <1>17, <1>21, <3>1, <3>2
      <4> QED
        BY <1>6, <1>9, <1>20, <1>21, <3>1, <4>1
    <3>3. CASE m # g.n - 1
      <4>1. m \in Oldest(g) .. g.n - 2 /\ m + 1 \in o .. g.n - 1
        BY <1>2, <1>5, <3>1, <3>3
      <4>2. next[g.home[m]] = g.home[m + 1]
        BY <1>1, <4>1 DEF RingOK
      <4>3. f.home[m] # tailBlock
        BY <1>17, <1>19, <1>21, <3>1, <3>3
      <4>4. f.home[m] = g.home[m] /\ f.home[m + 1] = g.home[m + 1] /\ f.home[m] # b
            /\ f.home[m] \in Blocks
        BY <1>17, <3>1, <4>1
      <4> QED
        BY <1>20, <1>21, <3>1, <4>2, <4>3, <4>4
    <3> QED
      BY <3>2, <3>3
  <2>7. next'[f.home[f.n - 1]] = f.home[o]
    <3>1. CASE g.n = 0
      BY <1>6, <1>9, <1>20, <1>22, <1>23, <3>1
    <3>2. CASE g.n > 0
      <4>1. next'[b] = next[tailBlock]
        BY <1>6, <1>20, <1>21, <3>2
      <4>2. o \in o .. g.n - 1
        BY <1>2, <1>21, <3>2
      <4> QED
        BY <1>9, <1>17, <1>21, <1>23, <3>2, <4>1, <4>2
    <3> QED
      BY <1>2, <3>1, <3>2
  <2>8. DOMAIN next' = Blocks /\ freeBlocks' \subseteq Blocks
    <3>1. DOMAIN next' = Blocks
      BY <1>3, <1>20 DEF Insert
    <3> QED
      BY <1>1, <1>3, <3>1 DEF RingOK
  <2> QED
    BY <1>11, <1>14, <1>23, <2>1, <2>2, <2>3, <2>4, <2>5, <2>6, <2>7, <2>8 DEF RingOK
<1>25. FlagsOK(f)'
  <2>1. /\ \A n : Consumed(n)' <=> Consumed(n)
        /\ \A m : Used(m)' = Used(m)
    BY <1>4, SameClaims
  <2>2. /\ DOMAIN emptied' = Blocks /\ \A a : a # b => emptied'[a] = emptied[a]
        /\ emptied'[b] = IF enq.bulk THEN Slots ELSE {}
    BY <1>1, <1>3, <1>6 DEF FlagsOK
  <2>3. ASSUME NEW m \in o .. Committed - 1 PROVE emptied'[f.home[m]] = Used(m)'
    <3>1. m \in o .. g.n - 1 /\ m \in Oldest(g) .. Committed - 1
      BY <1>2, <1>5
    <3> QED
      BY <1>1, <1>17, <2>1, <2>2, <3>1 DEF FlagsOK
  <2>4. ASSUME NEW m \in 0 .. o - 1, NEW n \in Within(m) PROVE Consumed(n)'
    BY <1>1, <1>5, <2>1 DEF FlagsOK
  <2>5. ASSUME NEW m \in Committed .. f.n - 1
        PROVE  emptied'[f.home[m]] =
                 IF enq'.bulk /\ ppc' \in ChoosePcs \cup {"reset"} THEN Slots ELSE {}
    <3>1. enq \in EnqueueRecords /\ (~enq.bulk => g.n = Committed)
      BY <1>1, <1>4 DEF EnqOK, ChoosePcs
    <3>2. CASE enq.bulk
      <4>1. BatchChoice(b)
        BY <1>11, <3>2 DEF SingleChoice
      <4>2. /\ enq' = [enq EXCEPT !.first = IF @ = NoBlock THEN b ELSE @,
                                  !.base = IF More THEN Plus(@, BlockSize) ELSE @]
            /\ ppc' \in (IF More THEN {"ahead", "room"} ELSE {"reset"})
        BY <4>1 DEF BatchChoice
      <4>3. enq'.bulk = enq.bulk
        BY <3>1, <4>2 DEF EnqueueRecords
      <4>4. enq'.bulk /\ ppc' \in ChoosePcs \cup {"reset"}
        BY <3>2, <4>2, <4>3 DEF ChoosePcs
      <4>5. emptied'[f.home[m]] = Slots
        <5>1. CASE m = g.n
          BY <1>9, <2>2, <3>2, <5>1
        <5>2. CASE m # g.n
          <6>1. m \in Committed .. g.n - 1 /\ m \in o .. g.n - 1
            BY <1>2, <1>5, <1>9, <5>2
          <6> QED
            BY <1>1, <1>4, <1>17, <2>2, <3>2, <6>1 DEF FlagsOK, ChoosePcs
        <5> QED
          BY <5>1, <5>2
      <4> QED
        BY <3>2, <4>4, <4>5
    <3>3. CASE ~enq.bulk
      <4>1. m = g.n
        BY <1>2, <1>9, <3>1, <3>3
      <4>2. PICK noexcept \in BOOLEAN : enq' = [enq EXCEPT !.noexcept = noexcept]
        BY <1>11, <3>3 DEF SingleChoice, BatchChoice, ConstructOrPublish
      <4>3. enq'.bulk = enq.bulk
        BY <3>1, <4>2 DEF EnqueueRecords
      <4> QED
        BY <1>9, <2>2, <3>3, <4>1, <4>3
    <3> QED
      BY <3>2, <3>3
  <2> QED
    BY <1>13, <1>14, <2>2, <2>3, <2>4, <2>5 DEF FlagsOK
<1>26. StoreOK(f)'
  BY <1>4, <1>6, <1>12, <1>24, <1>25, ChosenStore
<1> QED
  BY <1>9, <1>26 DEF SameHomes

\* A block index of n slots, in which the slots in use come first.
LEMMA Growing ==
  ASSUME WindowsFit, ShareIInv, NEW g \in Histories, RingOK(g), IndexOK(g), EnqOK(g), Grow
  PROVE  \E n \in Nat \ {0}, t \in Int : \E v :
           /\ v \in [0 .. n - 1 -> Entries]
           /\ headers' = Append(headers, [front |-> t, entries |-> v])
           /\ pr.used < n
           /\ \A m \in Oldest(g) .. g.n - 1 :
                v[m - Oldest(g)] = [base |-> BaseOf(m), block |-> g.home[m]]
           /\ Committed > 0 => \E T \in Committed - 1 .. g.n - 1 : t = T - Oldest(g) /\ t >= 0
<1> HIDE DEF Numbers
<1>1. /\ Committed \in Nat /\ g.n \in Nat /\ pr.used \in Nat /\ Committed <= g.n
      /\ Oldest(g) \in Nat /\ Oldest(g) = g.n - pr.used /\ pr.front \in Int
      /\ Oldest(g) <= Committed /\ enq.used \in Nat
  BY Shape
<1>2. ppc = "grow" /\ CallOK(g) /\ (headers = << >> \/ pr.used = Capacity(Last))
      /\ (~enq.bulk => g.n = Committed)
  BY DEF Grow, EnqOK, ChoosePcs
<1>3. Fronted(g) = g.n /\ Written(g) = g.n
  BY <1>2 DEF Fronted, Written, Unlisted
<1>4. headers \in Seq(Headers)
  BY DEF IndexOK
<1>5. PICK n : n = IF headers = << >> THEN InitialIndexSize ELSE 2 * Capacity(Last)
  OBVIOUS
<1>6. n \in Nat \ {0} /\ pr.used < n
  <2>1. CASE headers = << >>
    <3>1. pr.used = 0 /\ n = InitialIndexSize
      BY <1>5, <2>1 DEF IndexOK
    <3> QED
      BY <3>1, ExplicitAssumption DEF ExplicitAssumption
  <2>2. CASE headers # << >>
    <3>1. Capacity(Last) \in Nat \ {0} /\ pr.used = Capacity(Last) /\ n = 2 * Capacity(Last)
      BY <1>2, <1>4, <1>5, <2>2, LastFacts
    <3> QED
      BY <3>1
  <2> QED
    BY <2>1, <2>2
<1>7. PICK t : t = (IF enq.bulk THEN enq.used ELSE pr.used) - 1
  OBVIOUS
<1>8. PICK v : v = [s \in 0 .. n - 1 |->
                      IF s < pr.used THEN Last.entries[(pr.front - pr.used + s) % Capacity(Last)]
                      ELSE NoEntry]
  OBVIOUS
<1>9. headers' = Append(headers, [front |-> t, entries |-> v])
  BY <1>5, <1>7, <1>8 DEF Grow, Header
<1>10. NoEntry \in Entries
  BY DEF NoEntry, Entries
<1>11. ASSUME NEW s \in 0 .. n - 1, s < pr.used
       PROVE  /\ v[s] = [base |-> BaseOf(s + Oldest(g)), block |-> g.home[s + Oldest(g)]]
              /\ v[s] \in Entries
  <2>1. headers # << >>
    <3>1. pr.used # 0
      BY <1>1, <1>6, <1>11
    <3> QED
      BY <3>1 DEF IndexOK
  <2>2. PICK l : l = Len(headers)
    OBVIOUS
  <2>3. l \in 1 .. Len(headers) /\ Last = headers[l]
    BY <1>4, <2>1, <2>2, LastFacts
  <2>4. PICK k \in Nat \ {0} : k = Capacity(Last)
    BY <1>4, <2>1, LastFacts
  <2>5. pr.front = SlotOf(g, l, g.n)
    BY <1>3, <2>1, <2>2 DEF IndexOK
  <2>6. PICK d \in Int, m \in Int : d = s - pr.used /\ m = s + Oldest(g) /\ g.n + d = m
    BY <1>1, <1>6
  <2>7. pr.front - pr.used + s = pr.front + d
    BY <1>1, <1>6, <2>6
  <2>8. (SlotOf(g, l, g.n) + d) % k = SlotOf(g, l, g.n + d)
    <3>1. \A q, i \in Int : (SlotOf(g, l, q) + i) % Capacity(headers[l]) = SlotOf(g, l, q + i)
      BY <1>4, <2>3, SlotFacts
    <3>2. g.n \in Int /\ d \in Int
      BY <1>1
    <3> QED
      BY <2>3, <2>4, <3>1, <3>2
  <2>9. v[s] = Last.entries[SlotOf(g, l, m)]
    BY <1>8, <1>11, <2>4, <2>5, <2>6, <2>7, <2>8
  <2>10. m \in Oldest(g) .. g.n - 1
    BY <1>1, <1>6, <1>11, <2>6
  <2>11. Lists(g, l, m)
    BY <1>3, <2>1, <2>2, <2>10 DEF IndexOK
  <2>12. v[s] = [base |-> BaseOf(m), block |-> g.home[m]]
    BY <2>3, <2>9, <2>11 DEF Lists
  <2>13. v[s] \in Entries
    <3>1. SlotOf(g, l, m) \in 0 .. k - 1
      BY <1>4, <2>3, <2>4, SlotFacts
    <3>2. Last.entries \in [0 .. k - 1 -> Entries]
      BY <1>4, <2>1, <2>4, LastFacts, HeaderFacts
    <3> QED
      BY <2>9, <3>1, <3>2
  <2> QED
    BY <2>6, <2>12, <2>13
<1>12. v \in [0 .. n - 1 -> Entries]
  <2>1. \A s \in 0 .. n - 1 : v[s] \in Entries
    <3> TAKE s \in 0 .. n - 1
    <3>1. CASE s < pr.used
      BY <1>11, <3>1
    <3>2. CASE ~(s < pr.used)
      BY <1>8, <1>10, <3>2
    <3> QED
      BY <3>1, <3>2
  <2>2. v = [s \in 0 .. n - 1 |-> v[s]]
    BY <1>8
  <2> QED
    BY <2>1, <2>2
<1>13. ASSUME NEW m \in Oldest(g) .. g.n - 1
       PROVE  v[m - Oldest(g)] = [base |-> BaseOf(m), block |-> g.home[m]]
  <2>1. PICK s \in 0 .. n - 1 : s = m - Oldest(g)
    BY <1>1, <1>6
  <2>2. s < pr.used /\ s + Oldest(g) = m
    BY <1>1, <2>1
  <2> QED
    BY <1>11, <2>1, <2>2
<1>14. t \in Int
  BY <1>1, <1>7
<1>15. ASSUME Committed > 0 PROVE \E T \in Committed - 1 .. g.n - 1 : t = T - Oldest(g) /\ t >= 0
  <2>1. /\ enq.used <= pr.used /\ pr.used <= enq.used + (g.n - Committed) /\ enq.used > 0
    BY <1>2, <1>15 DEF CallOK
  <2>2. CASE enq.bulk
    <3>1. PICK T \in Int : T = Oldest(g) + t
      BY <1>1, <1>14
    <3>2. t = enq.used - 1
      BY <1>7, <2>2
    <3> QED
      BY <1>1, <1>14, <2>1, <3>1, <3>2
  <2>3. CASE ~enq.bulk
    <3>1. t = pr.used - 1 /\ g.n = Committed
      BY <1>2, <1>7, <2>3
    <3>3. pr.used > 0
      BY <1>1, <1>15, <3>1 DEF RingOK
    <3>2. g.n - 1 \in Committed - 1 .. g.n - 1 /\ t = (g.n - 1) - Oldest(g) /\ t >= 0
      BY <1>1, <3>1, <3>3
    <3> QED
      BY <3>2
  <2> QED
    BY <2>2, <2>3
<1> QED
  BY <1>6, <1>9, <1>12, <1>13, <1>14, <1>15

LEMMA GrowStep ==
  ASSUME WindowsFit, ShareIInv, ClaimsOK, NEW g \in Histories, StoreOK(g), Grow
  PROVE  \E f \in Histories : StoreOK(f)' /\ SameHomes(g, f)
<1> HIDE DEF Numbers
<1>1. RingOK(g) /\ IndexOK(g) /\ EnqOK(g) /\ FlagsOK(g) /\ LookupsOK(g)
  BY DEF StoreOK
<1>2. /\ Committed \in Nat /\ g.n \in Nat /\ pr.used \in Nat /\ Committed <= g.n
      /\ Oldest(g) \in Nat /\ Oldest(g) = g.n - pr.used /\ pr.front \in Int
      /\ Oldest(g) <= Committed /\ enq.used \in Nat
  BY <1>1, Shape
<1>3. /\ ppc = "grow" /\ ppc' = "requisition" /\ pr' = [pr EXCEPT !.front = pr.used]
      /\ enq' = [enq EXCEPT !.front = enq.used]
      /\ UNCHANGED <<tailIndex, freeBlocks, emptied, next, tailBlock>> /\ ClaimsStill
  BY DEF Grow, ProducerGoto, storage, claimVars, counters, ClaimsStill
<1>40. PICK n \in Nat \ {0}, t \in Int : \E v :
        /\ v \in [0 .. n - 1 -> Entries]
        /\ headers' = Append(headers, [front |-> t, entries |-> v])
        /\ pr.used < n
        /\ \A m \in Oldest(g) .. g.n - 1 :
             v[m - Oldest(g)] = [base |-> BaseOf(m), block |-> g.home[m]]
        /\ Committed > 0 => \E T \in Committed - 1 .. g.n - 1 : t = T - Oldest(g) /\ t >= 0
  BY <1>1, Growing
<1>4. PICK v :
        /\ v \in [0 .. n - 1 -> Entries]
        /\ headers' = Append(headers, [front |-> t, entries |-> v])
        /\ pr.used < n
        /\ \A m \in Oldest(g) .. g.n - 1 :
             v[m - Oldest(g)] = [base |-> BaseOf(m), block |-> g.home[m]]
        /\ Committed > 0 => \E T \in Committed - 1 .. g.n - 1 : t = T - Oldest(g) /\ t >= 0
  BY <1>40
<1>5. PICK h : h = [front |-> t, entries |-> v]
  OBVIOUS
<1>6. h \in Headers
  <2>1. h \in [front : Int, entries : [0 .. n - 1 -> Entries]]
    BY <1>4, <1>5
  <2> QED
    BY <2>1 DEF Headers
<1>7. Capacity(h) = n
  <2>1. Capacity(h) \in Nat \ {0} /\ DOMAIN h.entries = 0 .. Capacity(h) - 1
    BY <1>6, HeaderFacts
  <2>2. 0 .. n - 1 = 0 .. Capacity(h) - 1
    BY <1>4, <1>5, <2>1
  <2>3. PICK k \in Nat \ {0} : k = Capacity(h)
    BY <2>1
  <2>4. n - 1 \in 0 .. k - 1 /\ k - 1 \in 0 .. n - 1
    BY <2>2, <2>3
  <2>5. n = k
    BY <2>4
  <2> QED
    BY <2>3, <2>5
<1>8. headers \in Seq(Headers)
  BY <1>1 DEF IndexOK
<1>9. PICK l \in Nat : l = Len(headers)
  BY <1>8
<1>10. /\ headers' \in Seq(Headers) /\ Len(headers') = l + 1 /\ headers'[l + 1] = h
       /\ \A j \in 1 .. l : headers'[j] = headers[j]
  BY <1>4, <1>5, <1>6, <1>8, <1>9
<1>11. Last' = h /\ headers' # << >>
  <2>1. headers' # << >>
    BY <1>9, <1>10
  <2> QED
    BY <1>10, <2>1 DEF Last
<1>12. PICK w : w = [g.org EXCEPT ![l + 1] = -Oldest(g)]
  OBVIOUS
<1>13. PICK f : f = [home |-> g.home, org |-> w, n |-> g.n]
  OBVIOUS
<1>14. f \in Histories /\ w[l + 1] = -Oldest(g) /\ \A j \in 1 .. l : w[j] = g.org[j]
  <2>1. /\ g.n \in Nat /\ g.home \in [Int -> Blocks \cup {NoBlock}] /\ g.org \in [Int -> Int]
    BY DEF Histories
  <2>2. -Oldest(g) \in Int /\ l + 1 \in Int /\ \A j \in 1 .. l : j \in Int /\ j # l + 1
    BY <1>2, <1>9
  <2>3. w \in [Int -> Int] /\ w[l + 1] = -Oldest(g) /\ \A j \in 1 .. l : w[j] = g.org[j]
    BY <1>12, <2>1, <2>2
  <2> QED
    BY <1>13, <2>1, <2>3 DEF Histories
<1>15. f.n = g.n /\ f.home = g.home /\ f.org = w
  BY <1>13
<1>16. ASSUME NEW j \in 1 .. l, NEW m
       PROVE  SlotOf(f, j, m)' = SlotOf(g, j, m) /\ (Lists(g, j, m) => Lists(f, j, m)')
  <2>1. headers'[j] = headers[j] /\ w[j] = g.org[j]
    BY <1>10, <1>14
  <2>2. SlotOf(f, j, m)' = SlotOf(g, j, m)
    BY <1>15, <2>1 DEF SlotOf
  <2> QED
    BY <1>15, <2>1, <2>2 DEF Lists
<1>17. ASSUME NEW m \in Oldest(g) .. g.n
       PROVE  SlotOf(f, l + 1, m)' = m - Oldest(g)
  <2>1. PICK s \in 0 .. n - 1 : s = m - Oldest(g)
    BY <1>2, <1>4
  <2>2. -Oldest(g) + m = s
    BY <1>2, <2>1
  <2>3. s % n = s
    <3>1. s \in Int
      BY <2>1
    <3> QED
      BY <3>1, RingWrap
  <2>4. SlotOf(f, l + 1, m)' = (-Oldest(g) + m) % n
    BY <1>7, <1>10, <1>14, <1>15 DEF SlotOf
  <2> QED
    BY <2>1, <2>2, <2>3, <2>4
<1>18. Committed' = Committed
  BY <1>3, SameTail
<1>19. /\ pr' \in [front : Int, used : Nat] /\ pr'.used = pr.used /\ pr'.front = pr.used
  <2>1. PICK x, y : pr = [front |-> x, used |-> y]
    BY <1>1 DEF RingOK
  <2>2. pr' = [front |-> pr.used, used |-> y]
    BY <1>3, <2>1
  <2>3. y = pr.used
    BY <2>1
  <2> QED
    BY <1>2, <2>2, <2>3
<1>20. Oldest(f)' = Oldest(g)
  BY <1>15, <1>19 DEF Oldest
<1>21. RingOK(f)'
  BY <1>1, <1>3, <1>15, <1>18, <1>19, <1>20 DEF RingOK
<1>22. /\ enq' \in EnqueueRecords /\ enq'.count = enq.count /\ enq'.bulk = enq.bulk
       /\ enq'.start = enq.start /\ enq'.used = enq.used /\ enq'.first = enq.first
       /\ enq'.base = enq.base /\ enq'.noexcept = enq.noexcept /\ enq'.front = enq.used
  BY <1>1, <1>2, <1>3 DEF EnqOK, EnqueueRecords
<1>23. /\ CallOK(g) /\ g.n * BlockSize < Filled + enq.count /\ enq.base = BaseOf(g.n)
       /\ (~enq.bulk => g.n = Committed)
  BY <1>1, <1>3 DEF EnqOK, ChoosePcs
<1>24. CallOK(f)'
  BY <1>15, <1>18, <1>19, <1>22, <1>23 DEF CallOK
<1>25. EnqOK(f)'
  <2>1. Filled' = Filled
    BY <1>3, SameTail
  <2>2. pr'.used < Capacity(Last)'
    BY <1>4, <1>7, <1>11, <1>19
  <2>3. ~Unlisted(f)'
    BY <1>3 DEF Unlisted
  <2> QED
    BY <1>3, <1>11, <1>15, <1>18, <1>22, <1>23, <1>24, <2>1, <2>2, <2>3
       DEF EnqOK, ChoosePcs, ChosenPcs
<1>26. Written(f)' = g.n /\ Fronted(f)' = g.n
  BY <1>3, <1>15 DEF Written, Fronted, Unlisted
<1>27. IndexOK(f)'
  <2>1. pr'.used <= Capacity(Last)'
    BY <1>2, <1>4, <1>7, <1>11, <1>19
  <2>2. pr'.front = SlotOf(f, l + 1, g.n)'
    <3>1. g.n \in Oldest(g) .. g.n
      BY <1>2
    <3>2. g.n - Oldest(g) = pr.used
      BY <1>2
    <3> QED
      BY <1>17, <1>19, <3>1, <3>2
  <2>3. \A m \in Oldest(g) .. g.n - 1 : Lists(f, l + 1, m)'
    <3> TAKE m \in Oldest(g) .. g.n - 1
    <3>1. SlotOf(f, l + 1, m)' = m - Oldest(g)
      <4>1. m \in Oldest(g) .. g.n
        BY <1>2
      <4> QED
        BY <1>17, <4>1
    <3>2. h.entries[m - Oldest(g)] = [base |-> BaseOf(m), block |-> g.home[m]]
      BY <1>4, <1>5
    <3> QED
      BY <1>10, <1>15, <3>1, <3>2 DEF Lists
  <2>4. Committed > 0 => \E T \in Committed - 1 .. g.n - 1 : Last'.front = SlotOf(f, l + 1, T)'
    <3> SUFFICES ASSUME Committed > 0 PROVE \E T \in Committed - 1 .. g.n - 1 : Last'.front = SlotOf(f, l + 1, T)'
      OBVIOUS
    <3>1. PICK T \in Committed - 1 .. g.n - 1 : t = T - Oldest(g)
      BY <1>4
    <3>2. T \in Oldest(g) .. g.n
      <4>1. Oldest(g) <= T
        <5>1. t \in Nat /\ T \in Int
          BY <1>2, <1>40, <3>1
        <5> QED
          BY <1>2, <3>1, <5>1
      <4> QED
        BY <1>2, <3>1, <4>1
    <3> QED
      BY <1>5, <1>11, <1>17, <3>1, <3>2
  <2> QED
    BY <1>10, <1>11, <1>18, <1>20, <1>26, <2>1, <2>2, <2>3, <2>4 DEF IndexOK
<1>28. FlagsOK(f)'
  <2>1. /\ \A n1 : Consumed(n1)' <=> Consumed(n1)
        /\ \A m : Used(m)' = Used(m)
    BY <1>3, SameClaims
  <2>2. ppc \in ChoosePcs \cup {"reset"} /\ ppc' \in ChoosePcs \cup {"reset"}
    BY <1>3 DEF ChoosePcs
  <2> QED
    BY <1>1, <1>3, <1>15, <1>18, <1>20, <1>22, <2>1, <2>2 DEF FlagsOK
<1>29. LookupsOK(f)'
  <2>1. \A m \in 0 .. Oldest(g) - 1 : \A i \in Within(m) : Consumed(i)
    BY <1>1 DEF FlagsOK
  <2>2. PICK o \in Nat : o = Oldest(g)
    BY <1>2
  <2>3. g.n <= f.n /\ \A m \in o .. g.n - 1 : f.home[m] = g.home[m]
    BY <1>2, <1>15
  <2>4. Len(headers) \in Nat /\ Len(headers') \in Nat /\ Len(headers) <= Len(headers')
    BY <1>9, <1>10
  <2>5. \A j \in 1 .. Len(headers) : \A m \in Nat : SlotOf(f, j, m)' = SlotOf(g, j, m)
    BY <1>9, <1>16
  <2>6. \A j \in 1 .. Len(headers) : \A m \in o .. g.n - 1 : Lists(g, j, m) => Lists(f, j, m)'
    BY <1>9, <1>16
  <2>7. \A j \in 1 .. Len(headers) : headers'[j].front = headers[j].front
    BY <1>9, <1>10
  <2> QED
    BY <1>1, <1>3, <1>14, <2>1, <2>2, <2>3, <2>4, <2>5, <2>6, <2>7, LookupsStill
<1>30. FrontOK(f)'
  BY <1>3 DEF FrontOK, Published
<1>31. StoreOK(f)'
  BY <1>21, <1>25, <1>27, <1>28, <1>29, <1>30 DEF StoreOK
<1> QED
  BY <1>14, <1>15, <1>31 DEF SameHomes

\* What a call knows that has chosen its blocks.
LEMMA ChosenFacts ==
  ASSUME WindowsFit, ShareIInv, NEW g \in Histories, RingOK(g), IndexOK(g), EnqOK(g),
         ppc \in ChosenPcs
  PROVE  /\ CallOK(g) /\ g.n > 0 /\ pr.used > 0 /\ headers # << >>
         /\ Filled + enq.count <= g.n * BlockSize
         /\ g.n * BlockSize < Filled + enq.count + BlockSize
         /\ ~enq.bulk /\ g.n # Committed => g.n = Committed + 1
         /\ tailBlock = g.home[g.n - 1]
<1> HIDE DEF Numbers
<1>1. /\ Committed \in Nat /\ g.n \in Nat /\ Committed <= g.n /\ enq.count \in Nat
      /\ pr.used \in Nat
  BY Shape
<1>2. /\ CallOK(g) /\ Filled + enq.count <= g.n * BlockSize
      /\ g.n * BlockSize < Filled + enq.count + BlockSize
  BY DEF EnqOK, ChosenPcs
<1>3. /\ Filled \in Nat /\ BlockSize \in Nat \ {0, 1} /\ Filled <= Committed * BlockSize
      /\ Committed * BlockSize \in Nat
  BY Basics, CommittedValue
<1>4. enq.count > 0 /\ (~enq.bulk => enq.count = 1)
  BY <1>2 DEF CallOK
<1>5. g.n # 0
  <2>1. g.n = 0 => g.n * BlockSize = 0
    BY <1>3
  <2> QED
    BY <1>1, <1>2, <1>3, <1>4, <2>1
<1>6. pr.used > 0 /\ g.n > 0 /\ tailBlock = g.home[g.n - 1]
  <2>1. g.n > 0
    BY <1>1, <1>5
  <2> QED
    BY <1>5, <2>1 DEF RingOK
<1>7. headers # << >>
  BY <1>1, <1>6 DEF IndexOK
<1>8. ASSUME ~enq.bulk, Committed + 1 < g.n PROVE FALSE
  <2>1. PICK m \in Int : m = Committed + 1
    BY <1>1
  <2>2. m * BlockSize + BlockSize <= g.n * BlockSize
    BY <1>1, <1>3, <1>8, <2>1, Multiples
  <2>3. m * BlockSize = Committed * BlockSize + BlockSize
    BY <1>1, <2>1, WithinValue
  <2>4. PICK x \in Nat, y \in Int : x = Committed * BlockSize /\ y = g.n * BlockSize
    BY <1>1, <1>3
  <2>5. x + BlockSize + BlockSize <= y
    BY <1>3, <2>2, <2>3, <2>4
  <2>6. y < Filled + 1 + BlockSize
    BY <1>2, <1>4, <1>8, <2>4
  <2> QED
    BY <1>3, <2>4, <2>5, <2>6
<1>9. ~enq.bulk /\ g.n # Committed => g.n = Committed + 1
  BY <1>1, <1>8
<1> QED
  BY <1>2, <1>6, <1>7, <1>9

LEMMA AddIndexEntryStep ==
  ASSUME WindowsFit, ShareIInv, ClaimsOK, NEW g \in Histories, StoreOK(g), AddIndexEntry
  PROVE  StoreOK(g)'
<1> HIDE DEF Numbers
<1>1. RingOK(g) /\ IndexOK(g) /\ EnqOK(g) /\ FlagsOK(g) /\ LookupsOK(g)
  BY DEF StoreOK
<1>2. /\ ppc = "entry" /\ ppc' = "front" /\ AddEntry(tailBlock) /\ ClaimsStill
      /\ UNCHANGED <<tailIndex, freeBlocks, emptied, next, tailBlock, pr, enq>>
  BY DEF AddIndexEntry, ProducerGoto, ClaimsStill, claimVars, counters, storage
<1>3. /\ Committed \in Nat /\ g.n \in Nat /\ pr.used \in Nat /\ Committed <= g.n
      /\ Oldest(g) \in Nat /\ Oldest(g) = g.n - pr.used /\ enq.base \in Int
  BY <1>1, Shape
<1>4. ~enq.bulk /\ g.n # Committed
  BY <1>1, <1>2 DEF EnqOK
<1>5. /\ CallOK(g) /\ g.n > 0 /\ pr.used > 0 /\ headers # << >> /\ g.n = Committed + 1
      /\ Filled + enq.count <= g.n * BlockSize
      /\ g.n * BlockSize < Filled + enq.count + BlockSize
      /\ tailBlock = g.home[g.n - 1]
  BY <1>1, <1>2, <1>4, ChosenFacts DEF ChosenPcs
<1>6. PICK w \in Int : w = g.n - 1
  BY <1>3
<1>7. PICK b : b = tailBlock
  OBVIOUS
<1>8. b \in Blocks /\ g.home[w] = b
  <2>1. Oldest(g) <= w /\ w < g.n
    BY <1>3, <1>5, <1>6
  <2> QED
    BY <1>1, <1>5, <1>6, <1>7, <2>1, HomeFacts
<1>9. Written(g) = w /\ Fronted(g) = w /\ Lone(g) /\ Unlisted(g)
  BY <1>2, <1>4, <1>6 DEF Written, Fronted, Lone, Unlisted
<1>10. pr.front = SlotOf(g, Len(headers), w) /\ pr.used <= Capacity(Last)
       /\ headers \in Seq(Headers)
  BY <1>1, <1>5, <1>9 DEF IndexOK
<1>11. enq.base = BaseOf(w)
  <2>1. w = Committed
    BY <1>3, <1>5, <1>6
  <2> QED
    BY <1>1, <1>9, <2>1 DEF EnqOK
<1>12. PICK l : l = Len(headers)
  OBVIOUS
<1>13. PICK k \in Nat \ {0} : k = Capacity(Last)
  BY <1>5, <1>10, LastFacts
<1>14. /\ headers' \in Seq(Headers) /\ Len(headers') = Len(headers)
       /\ Capacity(Last)' = Capacity(Last) /\ Last'.front = Last.front
       /\ \A j \in 1 .. Len(headers) : headers'[j].front = headers[j].front
       /\ \A j \in 1 .. Len(headers) : \A m : SlotOf(g, j, m)' = SlotOf(g, j, m)
       /\ Lists(g, Len(headers), w)'
       /\ \A j \in 1 .. Len(headers) : \A m \in Int :
            /\ Lists(g, j, m) /\ g.home[m] = g.home[m]
            /\ j = Len(headers) => m - w < Capacity(Last) /\ w - m < Capacity(Last)
            => Lists(g, j, m)'
  <2>1. AddEntry(b)
    BY <1>2, <1>7
  <2> QED
    BY <1>3, <1>5, <1>8, <1>10, <1>11, <2>1, Entering
<1>15. /\ l \in Nat \ {0} /\ l \in 1 .. l /\ Len(headers') = l
  BY <1>5, <1>10, <1>12, <1>14, LastFacts
<1>16. Lists(g, l, w)'
  BY <1>12, <1>14, <1>15 DEF Lists, SlotOf
<1>17. ASSUME NEW j \in 1 .. l, NEW m \in Oldest(g) .. g.n - 1, Lists(g, j, m)
       PROVE  Lists(g, j, m)'
  <2>1. m \in Int /\ m - w < k /\ w - m < k
    BY <1>3, <1>6, <1>10, <1>13
  <2> QED
    BY <1>12, <1>13, <1>14, <1>17, <2>1
<1>18. Committed' = Committed /\ Filled' = Filled
  BY <1>2, SameTail
<1>19. ~Unlisted(g)' /\ Written(g)' = g.n /\ Fronted(g)' = w
  BY <1>2, <1>4, <1>6, <1>18 DEF Written, Fronted, Lone, Unlisted
<1>20. Oldest(g)' = Oldest(g)
  BY <1>2 DEF Oldest
<1>21. IndexOK(g)'
  <2>1. \A m \in Oldest(g) .. g.n - 1 : Lists(g, l, m)'
    <3> TAKE m \in Oldest(g) .. g.n - 1
    <3>1. CASE m = w
      BY <1>16, <3>1
    <3>2. CASE m # w
      <4>1. m \in Oldest(g) .. w - 1
        BY <1>3, <1>6, <3>2
      <4>2. Lists(g, l, m)
        BY <1>1, <1>5, <1>9, <1>12, <4>1 DEF IndexOK
      <4> QED
        BY <1>15, <1>17, <4>2
    <3> QED
      BY <3>1, <3>2
  <2>2. Committed > 0 => \E T \in Committed - 1 .. g.n - 1 : Last'.front = SlotOf(g, l, T)'
    <3>1. SUFFICES ASSUME Committed > 0 PROVE \E T \in Committed - 1 .. g.n - 1 : Last'.front = SlotOf(g, l, T)'
      OBVIOUS
    <3>2. PICK T \in Committed - 1 .. w - 1 : Last.front = SlotOf(g, l, T)
      BY <1>1, <1>5, <1>9, <1>12, <3>1 DEF IndexOK
    <3>3. T \in Committed - 1 .. g.n - 1
      BY <1>3, <1>6, <3>2
    <3> QED
      BY <1>12, <1>14, <1>15, <3>2, <3>3
  <2>3. pr'.front = SlotOf(g, l, w)'
    BY <1>2, <1>10, <1>12, <1>14, <1>15
  <2>4. headers' # << >>
    BY <1>14, <1>15
  <2> QED
    BY <1>2, <1>10, <1>14, <1>15, <1>18, <1>19, <1>20, <2>1, <2>2, <2>3, <2>4 DEF IndexOK
<1>22. EnqOK(g)'
  <2>1. CallOK(g)'
    BY <1>2, <1>5, CallStill
  <2>2. enq \in EnqueueRecords
    BY <1>1 DEF EnqOK
  <2> QED
    BY <1>2, <1>4, <1>5, <1>18, <1>19, <2>1, <2>2 DEF EnqOK, ChoosePcs, ChosenPcs
<1>23. RingOK(g)'
  BY <1>1, <1>2, RingStill
<1>24. FlagsOK(g)'
  BY <1>1, <1>2, FlagsStill DEF ChoosePcs
<1>25. LookupsOK(g)'
  <2>1. PICK o \in Nat : o = Oldest(g)
    BY <1>3
  <2>2. \A m \in 0 .. o - 1 : \A n \in Within(m) : Consumed(n)
    BY <1>1, <2>1 DEF FlagsOK
  <2>3. g.n <= g.n /\ \A m \in o .. g.n - 1 : g.home[m] = g.home[m]
    BY <1>3
  <2>4. Len(headers) \in Nat /\ Len(headers') \in Nat /\ Len(headers) <= Len(headers')
    BY <1>12, <1>15
  <2>5. \A j \in 1 .. Len(headers) : \A m \in Nat : SlotOf(g, j, m)' = SlotOf(g, j, m)
    BY <1>14
  <2>6. \A j \in 1 .. Len(headers) : \A m \in o .. g.n - 1 : Lists(g, j, m) => Lists(g, j, m)'
    BY <1>12, <1>17, <2>1
  <2> QED
    BY <1>1, <1>2, <1>14, <2>2, <2>3, <2>4, <2>5, <2>6, LookupsStill
<1>26. FrontOK(g)'
  BY <1>2 DEF FrontOK, Published
<1> QED
  BY <1>21, <1>22, <1>23, <1>24, <1>25, <1>26 DEF StoreOK

LEMMA StoreFrontStep ==
  ASSUME WindowsFit, ShareIInv, ClaimsOK, NEW g \in Histories, StoreOK(g), StoreFront
  PROVE  StoreOK(g)'
<1> HIDE DEF Numbers
<1>1. RingOK(g) /\ IndexOK(g) /\ EnqOK(g) /\ FlagsOK(g) /\ LookupsOK(g)
  BY DEF StoreOK
<1>2. /\ ppc = "front" /\ ClaimsStill
      /\ ppc' = IF enq.noexcept THEN "construct" ELSE "commit"
      /\ headers' = [headers EXCEPT ![Len(headers)].front =
                       IF enq.bulk THEN (pr.front - 1) % Capacity(Last) ELSE pr.front]
      /\ pr' = IF enq.bulk THEN pr ELSE [pr EXCEPT !.front = NextFront]
      /\ UNCHANGED <<tailIndex, freeBlocks, emptied, next, tailBlock, enq>>
  BY DEF StoreFront, ProducerGoto, ClaimsStill, claimVars, counters, storage
<1>3. /\ Committed \in Nat /\ g.n \in Nat /\ pr.used \in Nat /\ Committed <= g.n
      /\ Oldest(g) \in Nat /\ Oldest(g) = g.n - pr.used /\ enq.bulk \in BOOLEAN
      /\ pr.front \in Int
  BY <1>1, Shape
<1>4. g.n # Committed
  BY <1>1, <1>2 DEF EnqOK
<1>5. /\ CallOK(g) /\ g.n > 0 /\ pr.used > 0 /\ headers # << >>
      /\ Filled + enq.count <= g.n * BlockSize
      /\ g.n * BlockSize < Filled + enq.count + BlockSize
  BY <1>1, <1>2, ChosenFacts DEF ChosenPcs
<1>6. PICK w \in Int : w = g.n - 1
  BY <1>3
<1>7. PICK l : l = Len(headers)
  OBVIOUS
<1>8. headers \in Seq(Headers)
  BY <1>1 DEF IndexOK
<1>9. PICK k \in Nat \ {0} : k = Capacity(Last)
  BY <1>5, <1>8, LastFacts
<1>10. l \in Nat \ {0} /\ l \in 1 .. Len(headers) /\ Last = headers[l] /\ l \in 1 .. l
  BY <1>5, <1>7, <1>8, LastFacts
<1>11. \A q, i \in Int : (SlotOf(g, l, q) + i) % k = SlotOf(g, l, q + i)
  BY <1>8, <1>9, <1>10, SlotFacts
<1>12. ~Unlisted(g) /\ Written(g) = g.n /\ Fronted(g) = IF enq.bulk THEN g.n ELSE w
  BY <1>2, <1>3, <1>4, <1>6 DEF Written, Fronted, Lone, Unlisted
<1>13. /\ pr.front = SlotOf(g, l, IF enq.bulk THEN g.n ELSE w)
       /\ pr.used <= k /\ \A m \in Oldest(g) .. g.n - 1 : Lists(g, l, m)
  BY <1>1, <1>5, <1>7, <1>9, <1>12 DEF IndexOK
<1>14. PICK t : t = SlotOf(g, l, w)
  OBVIOUS
<1>15. headers' = [headers EXCEPT ![Len(headers)].front = t]
  <2>1. CASE enq.bulk
    <3>1. (SlotOf(g, l, g.n) + (-1)) % k = SlotOf(g, l, g.n + (-1))
      <4>1. g.n \in Int /\ -1 \in Int
        BY <1>3
      <4> QED
        BY <1>11, <4>1
    <3>2. g.n + (-1) = w /\ pr.front - 1 = pr.front + (-1)
      BY <1>3, <1>6
    <3>3. pr.front = SlotOf(g, l, g.n)
      BY <1>13, <2>1
    <3>4. (pr.front - 1) % k = t
      BY <1>14, <3>1, <3>2, <3>3
    <3> QED
      BY <1>2, <1>9, <2>1, <3>4
  <2>2. CASE ~enq.bulk
    BY <1>2, <1>13, <1>14, <2>2
  <2> QED
    BY <2>1, <2>2
<1>16. t \in 0 .. k - 1 /\ t \in Int
  <2>1. t \in 0 .. k - 1
    BY <1>8, <1>9, <1>10, <1>14, SlotFacts
  <2> QED
    BY <2>1
<1>17. /\ headers' \in Seq(Headers) /\ Len(headers') = Len(headers)
       /\ Capacity(Last)' = Capacity(Last) /\ Last'.front = t
       /\ \A j \in 1 .. Len(headers) :
            /\ j # Len(headers) => headers'[j].front = headers[j].front
            /\ \A m : SlotOf(g, j, m)' = SlotOf(g, j, m) /\ (Lists(g, j, m)' <=> Lists(g, j, m))
  BY <1>5, <1>8, <1>15, <1>16, Fronting
<1>18. Committed' = Committed /\ Filled' = Filled
  BY <1>2, SameTail
<1>19. /\ pr' \in [front : Int, used : Nat] /\ pr'.used = pr.used
       /\ pr'.front = SlotOf(g, l, g.n)
  <2>1. PICK u, v : pr = [front |-> u, used |-> v]
    BY <1>1 DEF RingOK
  <2>2. u = pr.front /\ v = pr.used
    BY <2>1
  <2>3. CASE enq.bulk
    BY <1>2, <1>3, <1>13, <2>1, <2>2, <2>3
  <2>4. CASE ~enq.bulk
    <3>1. pr' = [front |-> NextFront, used |-> v]
      BY <1>2, <2>1, <2>4
    <3>2. (SlotOf(g, l, w) + 1) % k = SlotOf(g, l, w + 1)
      <4>1. 1 \in Int
        OBVIOUS
      <4> QED
        BY <1>11, <4>1
    <3>3. w + 1 = g.n
      BY <1>3, <1>6
    <3>4. NextFront = SlotOf(g, l, g.n)
      BY <1>9, <1>13, <2>4, <3>2, <3>3 DEF NextFront
    <3>5. SlotOf(g, l, g.n) \in 0 .. k - 1
      <4>1. \A m \in Int : SlotOf(g, l, m) \in 0 .. k - 1
        BY <1>8, <1>9, <1>10, SlotFacts
      <4> QED
        BY <1>3, <4>1
    <3> QED
      BY <1>3, <2>2, <3>1, <3>4, <3>5
  <2> QED
    BY <2>3, <2>4
<1>20. ~Unlisted(g)' /\ Written(g)' = g.n /\ Fronted(g)' = g.n
  BY <1>2 DEF Written, Fronted, Lone, Unlisted
<1>21. Oldest(g)' = Oldest(g)
  BY <1>19 DEF Oldest
<1>22. w \in Oldest(g) .. g.n - 1 /\ w \in Committed - 1 .. g.n - 1
  BY <1>3, <1>4, <1>5, <1>6
<1>23. Last'.front = SlotOf(g, l, w)' /\ Lists(g, l, w)'
  BY <1>10, <1>13, <1>14, <1>17, <1>22
<1>24. IndexOK(g)'
  <2>1. \A m \in Oldest(g) .. g.n - 1 : Lists(g, l, m)'
    BY <1>10, <1>13, <1>17
  <2>2. pr'.front = SlotOf(g, l, g.n)'
    BY <1>10, <1>17, <1>19
  <2>3. headers' # << >>
    BY <1>7, <1>10, <1>17
  <2> QED
    BY <1>7, <1>9, <1>13, <1>17, <1>18, <1>19, <1>20, <1>21, <1>22, <1>23, <2>1, <2>2, <2>3 DEF IndexOK
<1>25. EnqOK(g)'
  <2>1. CallOK(g)'
    BY <1>2, <1>4, <1>5, <1>18, <1>19 DEF CallOK
  <2>2. enq \in EnqueueRecords
    BY <1>1 DEF EnqOK
  <2> QED
    BY <1>2, <1>4, <1>5, <1>18, <1>20, <2>1, <2>2 DEF EnqOK, ChoosePcs, ChosenPcs
<1>26. RingOK(g)'
  BY <1>1, <1>2, <1>18, <1>19, <1>21 DEF RingOK
<1>27. FlagsOK(g)'
  <2>1. /\ \A n : Consumed(n)' <=> Consumed(n)
        /\ \A m : Used(m)' = Used(m)
    BY <1>2, SameClaims
  <2>2. ppc \notin ChoosePcs \cup {"reset"} /\ ppc' \notin ChoosePcs \cup {"reset"}
    BY <1>2 DEF ChoosePcs
  <2> QED
    BY <1>1, <1>2, <1>18, <1>21, <2>1, <2>2 DEF FlagsOK
<1>28. LookupsOK(g)'
  <2>1. PICK o \in Nat : o = Oldest(g)
    BY <1>3
  <2>2. \A m \in 0 .. o - 1 : \A n \in Within(m) : Consumed(n)
    BY <1>1, <2>1 DEF FlagsOK
  <2>3. g.n <= g.n /\ \A m \in o .. g.n - 1 : g.home[m] = g.home[m]
    BY <1>3
  <2>4. Len(headers) \in Nat /\ Len(headers') \in Nat /\ Len(headers) <= Len(headers')
    BY <1>7, <1>10, <1>17
  <2>5. \A j \in 1 .. Len(headers) : \A m \in Nat : SlotOf(g, j, m)' = SlotOf(g, j, m)
    BY <1>17
  <2>6. \A j \in 1 .. Len(headers) : \A m \in o .. g.n - 1 : Lists(g, j, m) => Lists(g, j, m)'
    BY <1>17
  <2>7. \A j \in 1 .. Len(headers) :
           \/ headers'[j].front = headers[j].front
           \/ \E T \in Int : /\ Committed - 1 <= T /\ T <= g.n - 1
                             /\ Lists(g, j, T)' /\ headers'[j].front = SlotOf(g, j, T)'
    <3> TAKE j \in 1 .. Len(headers)
    <3>1. CASE j # l
      BY <1>7, <1>17, <3>1
    <3>2. CASE j = l
      <4>1. Last' = headers'[l]
        BY <1>7, <1>17 DEF Last
      <4> QED
        BY <1>3, <1>22, <1>23, <3>2, <4>1
    <3> QED
      BY <3>1, <3>2
  <2> QED
    BY <1>1, <1>2, <2>2, <2>3, <2>4, <2>5, <2>6, <2>7, LookupsStill
<1>29. FrontOK(g)'
  BY <1>6, <1>7, <1>17, <1>23 DEF FrontOK
<1> QED
  BY <1>24, <1>25, <1>26, <1>27, <1>28, <1>29 DEF StoreOK

\* The index as it is still leads consumers to their blocks.
LEMMA LookupsSame ==
  ASSUME WindowsFit, ShareIInv, ClaimsOK, ClaimsStill, NEW g \in Histories, RingOK(g),
         IndexOK(g), EnqOK(g), FlagsOK(g), LookupsOK(g), headers' = headers
  PROVE  LookupsOK(g)'
<1> HIDE DEF Numbers
<1>1. Oldest(g) \in Nat /\ g.n <= g.n
  BY Shape
<1>2. \A m \in 0 .. Oldest(g) - 1 : \A n \in Within(m) : Consumed(n)
  BY DEF FlagsOK
<1>3. Len(headers) \in Nat /\ Len(headers) <= Len(headers)
  BY DEF IndexOK
<1>4. \A j, m : SlotOf(g, j, m)' = SlotOf(g, j, m) /\ (Lists(g, j, m)' <=> Lists(g, j, m))
  BY DEF SlotOf, Lists
<1> QED
  BY <1>1, <1>2, <1>3, <1>4, LookupsStill

LEMMA ConstructStep ==
  ASSUME WindowsFit, ShareIInv, ClaimsOK, NEW g \in Histories, StoreOK(g), Construct
  PROVE  StoreOK(g)'
<1> HIDE DEF Numbers
<1>1. RingOK(g) /\ IndexOK(g) /\ EnqOK(g) /\ FlagsOK(g) /\ LookupsOK(g) /\ FrontOK(g)
  BY DEF StoreOK
<1>2. /\ ppc = "construct" /\ ClaimsStill
      /\ ppc' = IF ~enq.noexcept /\ BlocksPrepared
                THEN (IF enq.bulk THEN "front" ELSE "entry") ELSE "commit"
      /\ UNCHANGED <<tailIndex, freeBlocks, emptied, next, headers, tailBlock, pr, enq>>
  BY DEF Construct, ProducerGoto, ClaimsStill, claimVars, counters
<1>3. BlocksPrepared <=> g.n # Committed
  BY <1>1, <1>2, Prepares
<1>4. /\ CallOK(g) /\ g.n > 0 /\ pr.used > 0 /\ headers # << >>
      /\ Filled + enq.count <= g.n * BlockSize
      /\ g.n * BlockSize < Filled + enq.count + BlockSize
  BY <1>1, <1>2, ChosenFacts DEF ChosenPcs
<1>5. Committed' = Committed /\ Filled' = Filled
  BY <1>2, SameTail
<1>6. enq \in EnqueueRecords /\ enq.noexcept \in BOOLEAN /\ enq.bulk \in BOOLEAN
      /\ g.n \in Nat /\ Committed \in Nat
      /\ (enq.noexcept => g.n # Committed)
      /\ (Unlisted(g) => enq.base = BaseOf(Committed))
  BY <1>1, <1>2, Shape DEF EnqOK
<1>7. /\ Unlisted(g)' <=> Unlisted(g)
      /\ Lone(g)' <=> Lone(g)
      /\ Lone(g) => ppc' # "front"
  BY <1>2, <1>3, <1>5, <1>6 DEF Unlisted, Lone
<1>8. Written(g)' = Written(g) /\ Fronted(g)' = Fronted(g)
  BY <1>2, <1>7 DEF Written, Fronted
<1>9. EnqOK(g)'
  <2>1. CallOK(g)'
    BY <1>2, <1>4, CallStill
  <2>2. Unlisted(g)' => enq.base = BaseOf(Committed)
    BY <1>6, <1>7
  <2>3. ppc' \in {"front", "entry", "commit"} /\ (ppc' # "commit" => g.n # Committed)
        /\ (ppc' = "entry" => ~enq.bulk)
    BY <1>2, <1>3
  <2> QED
    BY <1>2, <1>4, <1>5, <1>6, <2>1, <2>2, <2>3 DEF EnqOK, ChoosePcs, ChosenPcs
<1>10. FrontOK(g)'
  <2>1. ppc' # "construct"
    BY <1>2
  <2>2. Last' = Last /\ Len(headers') = Len(headers)
        /\ SlotOf(g, Len(headers), g.n - 1)' = SlotOf(g, Len(headers), g.n - 1)
    BY <1>2 DEF Last, SlotOf
  <2>3. CASE enq.noexcept
    <3>1. Last.front = SlotOf(g, Len(headers), g.n - 1)
      BY <1>1, <1>2, <2>3 DEF FrontOK, Published
    <3> QED
      BY <2>2, <3>1 DEF FrontOK
  <2>4. CASE g.n = Committed
    <3>1. Written(g) = g.n
      BY <2>4 DEF Written, Unlisted, Lone
    <3>2. PICK T \in g.n - 1 .. g.n - 1 : Last.front = SlotOf(g, Len(headers), T)
      BY <1>1, <1>4, <2>4, <3>1 DEF IndexOK
    <3>3. T = g.n - 1
      BY <1>6, <3>2
    <3> QED
      BY <2>2, <3>2, <3>3 DEF FrontOK
  <2>5. CASE ~enq.noexcept /\ g.n # Committed
    <3>1. ppc' # "commit"
      BY <1>2, <1>3, <2>5
    <3> QED
      BY <2>1, <3>1 DEF FrontOK, Published
  <2> QED
    BY <2>3, <2>4, <2>5
<1>11. ppc' \in ChoosePcs \cup {"reset"} <=> ppc \in ChoosePcs \cup {"reset"}
  BY <1>2 DEF ChoosePcs
<1> QED
  BY <1>2, <1>8, <1>9, <1>10, <1>11, ControlStep

\* Nothing beyond the tail has been consumed.
LEMMA UsedNone ==
  ASSUME WindowsFit, ShareIInv, NEW m \in Nat, Committed <= m
  PROVE  Used(m) = {}
<1> HIDE DEF Numbers
<1>1. /\ Filled \in Nat /\ Emptied \in Nat /\ Emptied <= Filled /\ BlockSize \in Nat \ {0}
      /\ Committed \in Nat /\ Filled <= Committed * BlockSize /\ Committed * BlockSize \in Nat
  BY Basics, CommittedValue
<1>2. Committed * BlockSize <= m * BlockSize /\ m * BlockSize \in Nat
  <2>1. CASE Committed < m
    <3>1. Committed * BlockSize + BlockSize <= m * BlockSize /\ m * BlockSize \in Int
      BY <1>1, <2>1, Multiples
    <3>2. PICK x \in Nat, y \in Int : x = Committed * BlockSize /\ y = m * BlockSize
      BY <1>1, <3>1
    <3> QED
      BY <1>1, <3>1, <3>2
  <2>2. CASE Committed = m
    BY <1>1, <2>2
  <2> QED
    BY <1>1, <2>1, <2>2
<1>3. ASSUME NEW n \in Within(m) PROVE ~Consumed(n)
  <2>1. PICK x \in Nat, y \in Nat : x = Committed * BlockSize /\ y = m * BlockSize
    BY <1>1, <1>2
  <2>2. y <= n /\ n \in Nat
    BY <2>1, WithinValue
  <2>3. ~(n < Emptied)
    BY <1>1, <1>2, <2>1, <2>2
  <2> QED
    BY <2>3 DEF Consumed
<1> QED
  BY <1>3 DEF Used

LEMMA CommitStep ==
  ASSUME WindowsFit, ShareIInv, ClaimsOK, NEW g \in Histories, StoreOK(g), Commit
  PROVE  StoreOK(g)' /\ Filled' = Filled + enq.count
<1> HIDE DEF Numbers
<1>1. RingOK(g) /\ IndexOK(g) /\ EnqOK(g) /\ FlagsOK(g) /\ LookupsOK(g) /\ FrontOK(g)
  BY DEF StoreOK
<1>2. /\ ppc = "commit" /\ ppc' = "idle" /\ enq' = NoEnqueue /\ ClaimsStill
      /\ tailIndex' = Plus(tailIndex, enq.count)
      /\ UNCHANGED <<freeBlocks, emptied, next, headers, tailBlock, pr>>
  BY DEF Commit, EndCall, ProducerGoto, ClaimsStill, claimVars, counters, storage
<1>3. /\ CallOK(g) /\ g.n > 0 /\ pr.used > 0 /\ headers # << >>
      /\ Filled + enq.count <= g.n * BlockSize
      /\ g.n * BlockSize < Filled + enq.count + BlockSize
  BY <1>1, <1>2, ChosenFacts DEF ChosenPcs
<1>4. /\ Committed \in Nat /\ g.n \in Nat /\ pr.used \in Nat /\ Committed <= g.n
      /\ Oldest(g) \in Nat /\ Oldest(g) = g.n - pr.used /\ enq.count \in Nat
      /\ Oldest(g) <= Committed
  BY <1>1, Shape
<1>5. /\ Filled \in Nat /\ BlockSize \in Nat \ {0, 1} /\ tailIndex \in Index
      /\ MaxEnqueued \in Nat /\ MaxEnqueued + BlockSize <= Numbers /\ Numbers \in Nat
      /\ Filled + enq.count <= MaxEnqueued
  <2>1. Filled + enq.count <= MaxEnqueued
    BY <1>2 DEF ShareIInv, EnqueueFits
  <2> QED
    BY <2>1, Basics
<1>6. Filled' = Filled + enq.count
  <2>1. Filled = Number(tailIndex) /\ Filled' = Number(tailIndex')
    BY DEF Filled, Number
  <2>2. Filled + enq.count < Numbers /\ Filled + enq.count \in Index
    BY <1>4, <1>5 DEF Index
  <2>3. tailIndex' = Element(Filled + enq.count)
    BY <1>2, <1>4, <1>5, <2>1, <2>2, PlusElement
  <2> QED
    BY <2>1, <2>2, <2>3, ElementValue
<1>7. Committed' = g.n
  <2>1. PICK a \in Int : a = Filled' + BlockSize - 1
    BY <1>4, <1>5, <1>6
  <2>2. PICK x \in Int : x = g.n * BlockSize
    BY <1>4, <1>5
  <2>3. a \in x .. x + BlockSize - 1
    <3>1. Filled + enq.count <= x /\ x < Filled + enq.count + BlockSize
      BY <1>3, <2>2
    <3> QED
      BY <1>4, <1>5, <1>6, <2>1, <3>1
  <2>4. BlockSize \in Nat \ {0} /\ g.n \in Int
    BY <1>4, <1>5
  <2>5. a \in g.n * BlockSize .. g.n * BlockSize + BlockSize - 1
    BY <2>2, <2>3
  <2>6. a \div BlockSize = g.n
    BY <2>4, <2>5, Quotient
  <2> QED
    BY <2>1, <2>6 DEF Committed
<1>8. Oldest(g)' = Oldest(g)
  BY <1>2 DEF Oldest
<1>9. ~Unlisted(g) /\ Written(g) = g.n /\ Fronted(g) = g.n
  BY <1>2 DEF Unlisted, Written, Fronted
<1>10. ~Unlisted(g)' /\ Written(g)' = g.n /\ Fronted(g)' = g.n
  BY <1>2 DEF Unlisted, Written, Fronted
<1>11. RingOK(g)'
  <2>1. Oldest(g)' <= Committed' /\ Committed' <= g.n
    BY <1>4, <1>7, <1>8
  <2> QED
    BY <1>1, <1>2, <1>8, <2>1 DEF RingOK
<1>12. IndexOK(g)'
  <2>1. Last' = Last /\ Len(headers') = Len(headers)
        /\ \A m : /\ SlotOf(g, Len(headers), m)' = SlotOf(g, Len(headers), m)
                  /\ Lists(g, Len(headers), m)' <=> Lists(g, Len(headers), m)
    BY <1>2 DEF Last, SlotOf, Lists
  <2>2. Capacity(Last)' = Capacity(Last)
    BY <2>1 DEF Capacity
  <2>3. Last.front = SlotOf(g, Len(headers), g.n - 1)
    BY <1>1, <1>2 DEF FrontOK, Published
  <2>4. g.n - 1 \in g.n - 1 .. g.n - 1
    BY <1>4
  <2> QED
    BY <1>1, <1>2, <1>3, <1>7, <1>8, <1>9, <1>10, <2>1, <2>2, <2>3, <2>4 DEF IndexOK
<1>13. EnqOK(g)'
  <2>1. enq' \in EnqueueRecords
    BY <1>2 DEF NoEnqueue, EnqueueRecords
  <2> QED
    BY <1>2, <1>7, <1>10, <2>1 DEF EnqOK, ChoosePcs, ChosenPcs
<1>14. FlagsOK(g)'
  <2>1. /\ \A n : Consumed(n)' <=> Consumed(n)
        /\ \A m : Used(m)' = Used(m)
    BY <1>2, SameClaims
  <2>2. ASSUME NEW m \in Oldest(g) .. g.n - 1 PROVE emptied[g.home[m]] = Used(m)
    <3>1. CASE m < Committed
      <4>1. m \in Oldest(g) .. Committed - 1
        BY <1>4, <3>1
      <4> QED
        BY <1>1, <4>1 DEF FlagsOK
    <3>2. CASE ~(m < Committed)
      <4>1. m \in Committed .. g.n - 1 /\ m \in Nat /\ Committed <= m
        BY <1>4, <3>2
      <4>2. ppc \notin ChoosePcs \cup {"reset"}
        BY <1>2 DEF ChoosePcs
      <4>3. emptied[g.home[m]] = {}
        BY <1>1, <4>1, <4>2 DEF FlagsOK
      <4> QED
        BY <4>1, <4>3, UsedNone
    <3> QED
      BY <3>1, <3>2
  <2>3. \A m \in g.n .. g.n - 1 : FALSE
    BY <1>4
  <2> QED
    BY <1>1, <1>2, <1>7, <1>8, <2>1, <2>2, <2>3 DEF FlagsOK
<1>15. LookupsOK(g)'
  BY <1>1, <1>2, LookupsSame
<1>16. FrontOK(g)'
  BY <1>2 DEF FrontOK, Published
<1> QED
  BY <1>6, <1>11, <1>12, <1>13, <1>14, <1>15, <1>16 DEF StoreOK

------------------------------------------------------------------------------
(* Walks along the ring.                                                   *)

\* Every nonempty set of natural numbers has a least element.
LEMMA LeastElement ==
  ASSUME NEW T, T \subseteq Nat, T # {}
  PROVE  \E m \in T : \A n \in T : m <= n
<1>1. IsWellFoundedOn(OpToRel(<, Nat), Nat)
  BY NatLessThanWellFounded
<1>2. PICK R : R = OpToRel(<, Nat)
  OBVIOUS
<1>3. \A x, y \in Nat : x < y => <<x, y>> \in R
  BY <1>2 DEF OpToRel
<1>4. PICK m \in T : \A n \in T : ~(<<n, m>> \in R)
  BY <1>1, <1>2, WFMin
<1>5. \A n \in T : m <= n
  <2>1. ASSUME NEW n \in T PROVE m <= n
    <3>1. m \in Nat /\ n \in Nat /\ ~(n < m)
      BY <1>3, <1>4
    <3> QED
      BY <3>1
  <2> QED
    BY <2>1
<1> QED
  BY <1>5

\* Induction, for a set.
LEMMA SetInduction ==
  ASSUME NEW T, NEW n \in Nat, 0 \in T, \A k \in 1 .. n : k - 1 \in T => k \in T
  PROVE  \A k \in 0 .. n : k \in T
<1> SUFFICES ASSUME NEW j \in 0 .. n, j \notin T PROVE FALSE
  OBVIOUS
<1>1. PICK U : U = {k \in 0 .. n : k \notin T}
  OBVIOUS
<1>2. U \subseteq Nat /\ U # {}
  BY <1>1
<1>3. PICK m \in U : \A k \in U : m <= k
  BY <1>2, LeastElement
<1>4. m \in Nat /\ m <= n /\ m \notin T
  BY <1>1, <1>2
<1>5. m # 0
  BY <1>4
<1>6. m \in 1 .. n /\ m - 1 \in 0 .. n /\ ~(m <= m - 1)
  BY <1>4, <1>5
<1>7. m - 1 \notin U
  BY <1>3, <1>6
<1>8. m - 1 \in T
  BY <1>1, <1>6, <1>7
<1> QED
  BY <1>4, <1>6, <1>8

\* The recursive function that After is defined by.
LEMMA AfterExists ==
  ASSUME NEW b, NEW n \in Nat, NEW h, h = [k \in 0 .. n |-> h[k]],
         h[0] = b, \A k \in 1 .. n : h[k] = next[h[k - 1]]
  PROVE  After(b, n) = h[n]
<1> DEFINE Def(f) == [k \in 0 .. n |-> IF k = 0 THEN b ELSE next[f[k - 1]]]
<1>1. h = Def(h)
  <2>1. ASSUME NEW k \in 0 .. n PROVE h[k] = IF k = 0 THEN b ELSE next[h[k - 1]]
    <3>1. k # 0 => k \in 1 .. n
      OBVIOUS
    <3> QED
      BY <3>1
  <2> QED
    BY <2>1
<1>2. PICK at : at = CHOOSE f : f = Def(f)
  OBVIOUS
<1>3. After(b, n) = at[n]
  BY <1>2 DEF After
<1> HIDE DEF Def
<1>4. at = Def(at)
  BY <1>1, <1>2
<1>5. \A k \in 0 .. n : at[k] = h[k]
  <2>1. PICK T : T = {k \in 0 .. n : at[k] = h[k]}
    OBVIOUS
  <2>2. at[0] = b
    BY <1>4 DEF Def
  <2>3. 0 \in T
    BY <2>1, <2>2
  <2>4. ASSUME NEW k \in 1 .. n, k - 1 \in T PROVE k \in T
    <3>1. at[k] = next[at[k - 1]]
      BY <1>4 DEF Def
    <3>2. at[k - 1] = h[k - 1]
      BY <2>1, <2>4
    <3>3. h[k] = next[h[k - 1]]
      OBVIOUS
    <3>4. k \in 0 .. n
      OBVIOUS
    <3> QED
      BY <2>1, <3>1, <3>2, <3>3, <3>4
  <2>5. \A k \in 0 .. n : k \in T
    BY <2>3, <2>4, SetInduction
  <2> QED
    BY <2>1, <2>5
<1> QED
  BY <1>3, <1>5

\* Along the blocks of the history.
LEMMA RingWalk ==
  ASSUME NEW g \in Histories, RingOK(g), NEW m \in Int, NEW k \in Nat,
         Oldest(g) <= m, m + k <= g.n - 1
  PROVE  After(g.home[m], k) = g.home[m + k]
<1>1. g.n \in Nat /\ Oldest(g) \in Int
  BY DEF Histories, RingOK, Oldest
<1>2. PICK h : h = [i \in 0 .. k |-> g.home[m + i]]
  OBVIOUS
<1>3. h = [i \in 0 .. k |-> h[i]] /\ h[0] = g.home[m] /\ h[k] = g.home[m + k]
  BY <1>2
<1>4. \A i \in 1 .. k : h[i] = next[h[i - 1]]
  <2> TAKE i \in 1 .. k
  <2>1. PICK q \in Int : q = m + (i - 1)
    OBVIOUS
  <2>2. q \in Oldest(g) .. g.n - 2 /\ q + 1 = m + i
    BY <1>1, <2>1
  <2>3. next[g.home[q]] = g.home[q + 1]
    BY <2>2 DEF RingOK
  <2> QED
    BY <1>2, <2>1, <2>2, <2>3
<1>5. PICK b : b = g.home[m]
  OBVIOUS
<1>6. h[0] = b
  BY <1>3, <1>5
<1>7. After(b, k) = h[k]
  BY <1>3, <1>4, <1>6, AfterExists
<1> QED
  BY <1>3, <1>5, <1>7

\* Once round, from the tail block.
LEMMA RingRound ==
  ASSUME NEW g \in Histories, RingOK(g), NEW k \in Nat \ {0}, k <= pr.used
  PROVE  After(tailBlock, k) = g.home[Oldest(g) + (k - 1)]
<1>1. g.n \in Nat /\ pr.used \in Nat /\ Oldest(g) = g.n - pr.used /\ pr.used <= g.n
  BY DEF Histories, RingOK, Oldest
<1>2. g.n # 0 /\ g.n > 0
  BY <1>1
<1>3. tailBlock = g.home[g.n - 1] /\ next[tailBlock] = g.home[Oldest(g)]
  BY <1>2 DEF RingOK
<1>4. PICK h : h = [i \in 0 .. k |-> IF i = 0 THEN tailBlock ELSE g.home[Oldest(g) + (i - 1)]]
  OBVIOUS
<1>5. h = [i \in 0 .. k |-> h[i]] /\ h[0] = tailBlock /\ h[k] = g.home[Oldest(g) + (k - 1)]
  BY <1>4
<1>6. \A i \in 1 .. k : h[i] = next[h[i - 1]]
  <2> TAKE i \in 1 .. k
  <2>1. h[i] = g.home[Oldest(g) + (i - 1)]
    BY <1>4
  <2>2. CASE i = 1
    <3>1. h[1] = g.home[Oldest(g)]
      BY <1>1, <2>1, <2>2
    <3> QED
      BY <1>3, <1>5, <2>2, <3>1
  <2>3. CASE i # 1
    <3>1. PICK q \in Int : q = Oldest(g) + (i - 2)
      BY <1>1
    <3>2. q \in Oldest(g) .. g.n - 2 /\ q + 1 = Oldest(g) + (i - 1)
      BY <1>1, <2>3, <3>1
    <3>3. next[g.home[q]] = g.home[q + 1]
      BY <3>2 DEF RingOK
    <3>4. h[i - 1] = g.home[q]
      <4>1. i - 1 \in 0 .. k /\ i - 1 # 0 /\ (i - 1) - 1 = i - 2
        BY <2>3
      <4> QED
        BY <1>4, <3>1, <4>1
    <3> QED
      BY <2>1, <3>2, <3>3, <3>4
  <2> QED
    BY <2>2, <2>3
<1> QED
  BY <1>5, <1>6, AfterExists

------------------------------------------------------------------------------
(* A batch has all its blocks.                                             *)

\* They are those that the call has chosen.
LEMMA PreparedBlocks ==
  ASSUME WindowsFit, ShareIInv, NEW g \in Histories, RingOK(g), IndexOK(g), EnqOK(g),
         ppc \in ChosenPcs, enq.bulk, g.n # Committed
  PROVE  /\ Prepared = {g.home[m] : m \in Committed .. g.n - 1}
         /\ enq.first = g.home[Committed]
<1> HIDE DEF Numbers
<1>1. /\ Committed \in Nat /\ g.n \in Nat /\ Committed <= g.n /\ enq.count \in Nat
      /\ Oldest(g) \in Nat /\ Oldest(g) <= Committed
  BY Shape
<1>2. /\ CallOK(g) /\ Filled + enq.count <= g.n * BlockSize
      /\ g.n * BlockSize < Filled + enq.count + BlockSize
  BY ChosenFacts
<1>3. /\ Filled \in Nat /\ BlockSize \in Nat \ {0, 1} /\ tailIndex \in Index
      /\ MaxEnqueued \in Nat /\ MaxEnqueued + BlockSize <= Numbers /\ Numbers \in Nat \ {0}
      /\ Filled + enq.count <= MaxEnqueued
  <2>1. Filled + enq.count <= MaxEnqueued
    BY DEF ShareIInv, EnqueueFits
  <2> QED
    BY <2>1, Basics
<1>4. enq.count \in Nat \ {0}
  BY <1>1, <1>2 DEF CallOK
<1>5. PICK d \in Nat : /\ d * BlockSize < Filled + enq.count
                       /\ Filled + enq.count <= d * BlockSize + BlockSize
                       /\ Base(Plus(tailIndex, enq.count - 1)) = BaseOf(d)
  BY <1>3, <1>4, BatchEnd
<1>6. PICK x \in Nat, y \in Nat : x = g.n * BlockSize /\ y = d * BlockSize
  BY <1>1, <1>3, WithinValue
<1>7. /\ y < Filled + enq.count /\ Filled + enq.count <= y + BlockSize
      /\ Filled + enq.count <= x /\ x < Filled + enq.count + BlockSize
  BY <1>2, <1>5, <1>6
<1>8. g.n = d + 1
  <2>1. (d + 1) * BlockSize = y + BlockSize
    BY <1>5, <1>6, WithinValue
  <2>2. PICK q \in Nat : q = d + 1
    OBVIOUS
  <2>3. ASSUME g.n < q PROVE FALSE
    <3>1. g.n * BlockSize + BlockSize <= q * BlockSize
      BY <1>1, <1>3, <2>3, Multiples
    <3> QED
      BY <1>3, <1>4, <1>6, <1>7, <2>1, <2>2, <3>1
  <2>4. ASSUME q < g.n PROVE FALSE
    <3>1. q * BlockSize + BlockSize <= g.n * BlockSize
      BY <1>1, <1>3, <2>4, Multiples
    <3> QED
      BY <1>3, <1>4, <1>6, <1>7, <2>1, <2>2, <3>1
  <2> QED
    BY <1>1, <2>2, <2>3, <2>4
<1>9. PICK X \in Int : X = Base(Minus(tailIndex, 1))
  BY TailBase
<1>10. PICK s \in Nat : s = g.n - Committed /\ s # 0
  BY <1>1
<1>11. PICK Y \in Nat, Z \in Int : Y = s * BlockSize /\ Z = (s - 1) * BlockSize /\ Y = Z + BlockSize
  <2>1. PICK q \in Nat : q = s - 1
    BY <1>10
  <2>2. q * BlockSize \in Nat /\ (q + 1) * BlockSize = q * BlockSize + BlockSize /\ q + 1 = s
    BY <1>10, <2>1, WithinValue
  <2>3. s * BlockSize \in Nat
    BY <1>3
  <2> QED
    BY <2>1, <2>2, <2>3
<1>12. Y <= x
  <2>1. g.n * BlockSize = Committed * BlockSize + s * BlockSize
    <3>1. Committed + s = g.n
      BY <1>1, <1>10
    <3>2. (Committed + s) * BlockSize = Committed * BlockSize + s * BlockSize
      BY <1>1, <1>3, Distribute
    <3> QED
      BY <3>1, <3>2
  <2>2. PICK c \in Nat : c = Committed * BlockSize
    BY CommittedValue
  <2> QED
    BY <1>6, <1>11, <2>1, <2>2
<1>13. Y \in 0 .. Numbers - 1
  BY <1>1, <1>3, <1>7, <1>12
<1>14. BaseOf(d) = (X + Y) % Numbers
  <2>1. (BaseOf(Committed) + (s - 1) * BlockSize) % Numbers = BaseOf(Committed + (s - 1))
    <3>1. Committed \in Int /\ s - 1 \in Int
      BY <1>1
    <3> QED
      BY <3>1, BaseNext
  <2>2. Committed + (s - 1) = d
    BY <1>1, <1>8, <1>10
  <2>3. BaseOf(Committed) = (X + BlockSize) % Numbers
    BY <1>9, TailBase DEF Plus
  <2>4. (((X + BlockSize) % Numbers) + Z) % Numbers = ((X + BlockSize) + Z) % Numbers
    <3>1. X + BlockSize \in Int
      BY <1>3
    <3> QED
      BY <1>3, <3>1, RingShift
  <2>5. (X + BlockSize) + Z = X + Y
    BY <1>3, <1>11
  <2> QED
    BY <1>11, <2>1, <2>2, <2>3, <2>4, <2>5
<1>15. Minus(BaseOf(d), X) = Y
  <2>1. PICK w \in Int : w = X + Y
    OBVIOUS
  <2>2. ((w % Numbers) + (-X)) % Numbers = (w + (-X)) % Numbers
    <3>1. -X \in Int
      OBVIOUS
    <3> QED
      BY <1>3, <3>1, RingShift
  <2>3. w + (-X) = Y
    BY <2>1
  <2>4. Y % Numbers = Y
    <3>1. Y \in Int
      OBVIOUS
    <3> QED
      BY <1>3, <1>13, <3>1, RingWrap
  <2>5. w % Numbers \in Int
    BY <1>3
  <2>6. (w % Numbers) - X = (w % Numbers) + (-X)
    BY <2>5
  <2> QED
    BY <1>14, <2>1, <2>2, <2>3, <2>4, <2>6 DEF Minus
<1>16. Y \div BlockSize = s
  <2>1. Y \in s * BlockSize .. s * BlockSize + BlockSize - 1
    <3>1. Y \in Y .. Y + BlockSize - 1
      BY <1>3
    <3> QED
      BY <1>11, <3>1
  <2>2. BlockSize \in Nat \ {0} /\ s \in Int /\ Y \in Int
    BY <1>3
  <2> QED
    BY <2>1, <2>2, Quotient
<1>17. Minus(Base(Plus(tailIndex, enq.count - 1)), Base(Minus(tailIndex, 1))) = Y
  BY <1>5, <1>9, <1>15
<1>18. Prepared = {After(enq.first, k) : k \in 0 .. s - 1}
  BY <1>16, <1>17 DEF Prepared
<1>19. enq.first = g.home[Committed]
  BY <1>2 DEF CallOK
<1>20. \A k \in 0 .. s - 1 : After(g.home[Committed], k) = g.home[Committed + k]
  <2> TAKE k \in 0 .. s - 1
  <2>1. k \in Nat /\ Committed \in Int /\ Committed + k <= g.n - 1
    BY <1>1, <1>10
  <2> QED
    BY <1>1, <2>1, RingWalk
<1>21. \A k \in 0 .. s - 1 : Committed + k \in Committed .. g.n - 1
  BY <1>1, <1>10
<1>22. \A m \in Committed .. g.n - 1 : m - Committed \in 0 .. s - 1 /\ Committed + (m - Committed) = m
  BY <1>1, <1>10
<1>23. Prepared \subseteq {g.home[m] : m \in Committed .. g.n - 1}
  BY <1>18, <1>19, <1>20, <1>21
<1>24. {g.home[m] : m \in Committed .. g.n - 1} \subseteq Prepared
  <2> SUFFICES ASSUME NEW m \in Committed .. g.n - 1 PROVE g.home[m] \in Prepared
    OBVIOUS
  <2>1. PICK k \in 0 .. s - 1 : k = m - Committed /\ Committed + k = m
    BY <1>22
  <2> QED
    BY <1>18, <1>19, <1>20, <2>1
<1> QED
  BY <1>19, <1>23, <1>24

LEMMA ResetBlocksStep ==
  ASSUME WindowsFit, ShareIInv, ClaimsOK, NEW g \in Histories, StoreOK(g), ResetBlocks
  PROVE  StoreOK(g)'
<1> HIDE DEF Numbers
<1>1. RingOK(g) /\ IndexOK(g) /\ EnqOK(g) /\ FlagsOK(g) /\ LookupsOK(g)
  BY DEF StoreOK
<1>2. /\ ppc = "reset" /\ ClaimsStill
      /\ emptied' = [b \in Blocks |-> IF b \in Prepared THEN {} ELSE emptied[b]]
      /\ UNCHANGED <<tailIndex, freeBlocks, next, headers, tailBlock, pr>>
  BY DEF ResetBlocks, ClaimsStill, claimVars, counters
<1>3. PICK noexcept \in BOOLEAN : /\ enq' = [enq EXCEPT !.noexcept = noexcept]
                                 /\ ppc' = IF noexcept THEN "front" ELSE "construct"
  BY DEF ResetBlocks, ConstructOrPublish, ProducerGoto
<1>4. enq.bulk /\ g.n # Committed
  BY <1>1, <1>2 DEF EnqOK
<1>5. /\ CallOK(g) /\ g.n > 0 /\ pr.used > 0 /\ headers # << >>
      /\ Filled + enq.count <= g.n * BlockSize
      /\ g.n * BlockSize < Filled + enq.count + BlockSize
  BY <1>1, <1>2, ChosenFacts DEF ChosenPcs
<1>6. Prepared = {g.home[m] : m \in Committed .. g.n - 1}
  BY <1>1, <1>2, <1>4, PreparedBlocks DEF ChosenPcs
<1>7. /\ Committed \in Nat /\ g.n \in Nat /\ Committed <= g.n
      /\ Oldest(g) \in Nat /\ Oldest(g) <= Committed
  BY <1>1, Shape
<1>8. Committed' = Committed /\ Filled' = Filled
  BY <1>2, SameTail
<1>9. /\ enq' \in EnqueueRecords /\ enq'.count = enq.count /\ enq'.bulk = enq.bulk
      /\ enq'.start = enq.start /\ enq'.used = enq.used /\ enq'.first = enq.first
      /\ enq'.base = enq.base /\ enq'.noexcept = noexcept /\ enq'.front = enq.front
  BY <1>1, <1>3 DEF EnqOK, EnqueueRecords
<1>10. CallOK(g)'
  BY <1>2, <1>5, <1>8, <1>9 DEF CallOK
<1>11. ~Lone(g) /\ ~Lone(g)' /\ ~Unlisted(g) /\ ~Unlisted(g)'
  BY <1>4, <1>9 DEF Lone, Unlisted
<1>12. EnqOK(g)'
  <2>1. ppc' \in {"front", "construct"}
    BY <1>3
  <2> QED
    BY <1>4, <1>5, <1>8, <1>9, <1>10, <1>11, <2>1 DEF EnqOK, ChoosePcs, ChosenPcs
<1>13. RingOK(g)'
  BY <1>1, <1>2, RingStill
<1>14. IndexOK(g)'
  <2>1. Written(g)' = Written(g) /\ Fronted(g)' = Fronted(g)
    BY <1>11 DEF Written, Fronted
  <2> QED
    BY <1>1, <1>2, <2>1, IndexStill
<1>15. LookupsOK(g)'
  BY <1>1, <1>2, LookupsSame
<1>16. FrontOK(g)'
  BY <1>3, <1>9 DEF FrontOK, Published
<1>17. FlagsOK(g)'
  <2>1. /\ \A n : Consumed(n)' <=> Consumed(n)
        /\ \A m : Used(m)' = Used(m)
    BY <1>2, SameClaims
  <2>2. Oldest(g)' = Oldest(g)
    BY <1>2 DEF Oldest
  <2>3. ppc' \notin ChoosePcs \cup {"reset"}
    BY <1>3 DEF ChoosePcs
  <2>4. DOMAIN emptied' = Blocks
    BY <1>2
  <2>5. \A m \in Oldest(g) .. g.n - 1 : g.home[m] \in Blocks
    BY <1>1 DEF RingOK
  <2>6. ASSUME NEW m \in Oldest(g) .. Committed - 1 PROVE emptied'[g.home[m]] = Used(m)'
    <3>1. m \in Oldest(g) .. g.n - 1 /\ \A q \in Committed .. g.n - 1 : q \in Oldest(g) .. g.n - 1 /\ q # m
      BY <1>7
    <3>2. g.home[m] \notin Prepared
      BY <1>1, <1>6, <3>1 DEF RingOK
    <3>3. emptied'[g.home[m]] = emptied[g.home[m]]
      BY <1>2, <2>5, <3>1, <3>2
    <3> QED
      BY <1>1, <2>1, <3>3 DEF FlagsOK
  <2>7. ASSUME NEW m \in Committed .. g.n - 1 PROVE emptied'[g.home[m]] = {}
    <3>1. g.home[m] \in Blocks
      <4>1. m \in Oldest(g) .. g.n - 1
        BY <1>7
      <4> QED
        BY <2>5, <4>1
    <3> QED
      BY <1>2, <1>6, <3>1
  <2> QED
    BY <1>1, <1>8, <2>1, <2>2, <2>3, <2>4, <2>6, <2>7 DEF FlagsOK
<1> QED
  BY <1>12, <1>13, <1>14, <1>15, <1>16, <1>17 DEF StoreOK

------------------------------------------------------------------------------
(* The steps of the consumers.                                             *)

\* Only the call of consumer c goes on.
ConsumerStep(c) ==
  UNCHANGED <<tailIndex, headers, next, freeBlocks, producerVars>> /\ OnlyCaller(c)

LEMMA FrameFacts ==
  ASSUME NEW c \in Consumers, ConsumerStep(c)
  PROVE  /\ Filled' = Filled /\ Committed' = Committed /\ headers' = headers
         /\ enq' = enq /\ ppc' = ppc /\ pr' = pr /\ tailBlock' = tailBlock
         /\ \A d \in Consumers \ {c} :
              /\ cpc'[d] = cpc[d] /\ call'[d] = call[d]
              /\ At(d)' = At(d) /\ First(d)' = First(d) /\ Until(d)' = Until(d)
              /\ Here(d)' = Here(d) /\ LastBlock(d)' = LastBlock(d)
              /\ Open(d)' = Open(d) /\ Taken(d)' = Taken(d)
<1>1. /\ tailIndex' = tailIndex /\ headers' = headers /\ enq' = enq /\ ppc' = ppc /\ pr' = pr
      /\ tailBlock' = tailBlock
  BY DEF ConsumerStep, producerVars
<1>2. Filled' = Filled /\ Committed' = Committed
  BY <1>1, SameTail
<1>3. ASSUME NEW d \in Consumers \ {c}
      PROVE  /\ cpc'[d] = cpc[d] /\ call'[d] = call[d]
             /\ At(d)' = At(d) /\ First(d)' = First(d) /\ Until(d)' = Until(d)
             /\ Here(d)' = Here(d) /\ LastBlock(d)' = LastBlock(d)
             /\ Open(d)' = Open(d) /\ Taken(d)' = Taken(d)
  <2>1. cpc'[d] = cpc[d] /\ call'[d] = call[d]
    BY DEF ConsumerStep, OnlyCaller
  <2> QED
    BY <2>1 DEF At, First, Until, Here, LastBlock, Open, Taken
<1> QED
  BY <1>1, <1>2, <1>3

\* The claims of the other consumers stay what they are.
LEMMA ClaimsKept ==
  ASSUME ClaimsOK, NEW c \in Consumers, ConsumerStep(c), ppc # "destroyed",
         Emptied \in Nat, Emptied' \in Nat, Emptied <= Emptied',
         \A d \in Consumers : cpc[d] \in ClaimedPcs => Until(d) \in Nat,
         ClaimOK(c)', \A d \in Consumers \ {c} : Taken(c)' \cap Taken(d) = {}
  PROVE  ClaimsOK'
<1>1. ASSUME NEW d \in Consumers \ {c} PROVE ClaimOK(d)'
  <2>1. ClaimOK(d)
    BY DEF ClaimsOK
  <2>2. /\ cpc'[d] = cpc[d] /\ call'[d] = call[d]
        /\ At(d)' = At(d) /\ First(d)' = First(d) /\ Until(d)' = Until(d) /\ Here(d)' = Here(d)
    BY FrameFacts
  <2>3. PICK a \in Nat, b \in Nat : a = Emptied /\ b = Emptied'
    OBVIOUS
  <2>4. cpc[d] \in ClaimedPcs => Until(d) <= Emptied'
    <3>1. ASSUME cpc[d] \in ClaimedPcs PROVE Until(d) <= b
      <4>1. Until(d) \in Nat /\ Until(d) <= a /\ a <= b
        BY <2>1, <2>3, <3>1 DEF ClaimOK
      <4> QED
        BY <4>1
    <3> QED
      BY <2>3, <3>1
  <2> QED
    BY <2>1, <2>2, <2>4 DEF ClaimOK
<1>2. \A d \in Consumers : ClaimOK(d)'
  BY <1>1
<1>3. \A d, e \in Consumers : d # e => Taken(d)' \cap Taken(e)' = {}
  <2>1. \A d \in Consumers \ {c} : Taken(d)' = Taken(d)
    BY FrameFacts
  <2> QED
    BY <2>1 DEF ClaimsOK
<1>5. ppc' # "destroyed"
  BY FrameFacts
<1> QED
  BY <1>2, <1>3, <1>5 DEF ClaimsOK

\* What another consumer has looked up is still right.
LEMMA FramedLookup ==
  ASSUME NEW g \in Histories, NEW c \in Consumers, ConsumerStep(c),
         NEW d \in Consumers \ {c}, LookupOK(g, d)
  PROVE  LookupOK(g, d)'
<1>1. /\ headers' = headers /\ cpc'[d] = cpc[d] /\ call'[d] = call[d]
      /\ Here(d)' = Here(d) /\ LastBlock(d)' = LastBlock(d)
  BY FrameFacts
<1>2. \A j, m : SlotOf(g, j, m)' = SlotOf(g, j, m) /\ (Lists(g, j, m)' <=> Lists(g, j, m))
  BY <1>1 DEF SlotOf, Lists
<1>3. \A j, t : Leads(g, d, j, t)' <=> Leads(g, d, j, t)
  BY <1>1 DEF Leads, Lists, SlotOf
<1>4. PICK j : j = call[d].header
  OBVIOUS
<1>5. call'[d].header = j
  BY <1>1, <1>4
<1>6. \A m \in Here(d)' .. LastBlock(d)' : Lists(g, j, m)'
  BY <1>1, <1>2, <1>4 DEF LookupOK
<1>7. cpc'[d] = "front" => Leads(g, d, j, headers[j].front)'
  <2>1. PICK t : t = headers[j].front
    OBVIOUS
  <2>2. cpc[d] = "front" => Leads(g, d, j, t)'
    BY <1>3, <1>4, <2>1 DEF LookupOK
  <2> QED
    BY <1>1, <2>1, <2>2 DEF Leads
<1>8. cpc'[d] = "base" => Leads(g, d, j, call[d].slot)'
  <2>1. PICK t : t = call[d].slot
    OBVIOUS
  <2>2. cpc[d] = "base" => Leads(g, d, j, t)'
    BY <1>3, <1>4, <2>1 DEF LookupOK
  <2> QED
    BY <1>1, <2>1, <2>2 DEF Leads
<1>9. cpc'[d] \in {"entry", "empty"} => call'[d].slot = SlotOf(g, j, Here(d))'
  <2>1. cpc[d] \in {"entry", "empty"} => call[d].slot = SlotOf(g, j, Here(d))
    BY <1>4 DEF LookupOK
  <2>2. SlotOf(g, j, Here(d))' = SlotOf(g, j, Here(d))
    BY <1>1 DEF SlotOf
  <2> QED
    BY <1>1, <2>1, <2>2
<1>10. cpc'[d] = "empty" => call'[d].block = g.home[Here(d)']
  BY <1>1 DEF LookupOK
<1>11. j \in 1 .. Len(headers')
  BY <1>1, <1>4 DEF LookupOK
<1> HIDE DEF Leads, Lists, SlotOf, Here, LastBlock
<1> QED
  BY <1>5, <1>6, <1>7, <1>8, <1>9, <1>10, <1>11 DEF LookupOK

\* The blocks and the index are the producer's.
LEMMA FramedStore ==
  ASSUME NEW g \in Histories, StoreOK(g), NEW c \in Consumers, ConsumerStep(c),
         cpc'[c] \in LookupPcs => LookupOK(g, c)'
  PROVE  RingOK(g)' /\ IndexOK(g)' /\ EnqOK(g)' /\ FrontOK(g)' /\ LookupsOK(g)'
         /\ Oldest(g)' = Oldest(g) /\ ppc # "destroyed"
<1>1. UNCHANGED <<tailIndex, headers, next, freeBlocks, tailBlock, pr, ppc, enq>>
  BY DEF ConsumerStep, producerVars
<1>2. Filled' = Filled /\ Committed' = Committed /\ Oldest(g)' = Oldest(g) /\ Last' = Last
  BY <1>1, SameTail DEF Oldest, Last
<1>3. Written(g)' = Written(g) /\ Fronted(g)' = Fronted(g) /\ (Unlisted(g)' <=> Unlisted(g))
  BY <1>1, <1>2 DEF Written, Fronted, Unlisted, Lone
<1>4. RingOK(g)' /\ IndexOK(g)'
  BY <1>1, <1>3, RingStill, IndexStill DEF StoreOK
<1>5. EnqOK(g)'
  <2>1. CallOK(g)' <=> CallOK(g)
    BY <1>1, <1>2 DEF CallOK
  <2>2. \A m : BaseOf(m)' = BaseOf(m)
    BY DEF BaseOf
  <2>3. Capacity(Last)' = Capacity(Last) /\ (Last' = Last)
    BY <1>2 DEF Capacity
  <2>4. BaseOf(Committed)' = BaseOf(Committed)
    BY <1>2 DEF BaseOf
  <2>5. EnqOK(g)
    BY DEF StoreOK
  <2> HIDE DEF BaseOf, Capacity, CallOK, Last, Committed, Filled
  <2> QED
    BY <1>1, <1>2, <1>3, <2>1, <2>2, <2>3, <2>4, <2>5 DEF EnqOK
<1>6. FrontOK(g)'
  BY <1>1, <1>2 DEF StoreOK, FrontOK, Published, SlotOf, Last, Capacity
<1>7. LookupsOK(g)'
  <2>1. ASSUME NEW d \in Consumers, cpc'[d] \in LookupPcs PROVE LookupOK(g, d)'
    <3>1. CASE d = c
      BY <2>1, <3>1
    <3>2. CASE d # c
      <4>1. d \in Consumers \ {c} /\ cpc'[d] = cpc[d]
        BY <3>2, FrameFacts
      <4>2. LookupOK(g, d)
        BY <2>1, <4>1 DEF StoreOK, LookupsOK
      <4> QED
        BY <4>1, <4>2, FramedLookup
    <3> QED
      BY <3>1, <3>2
  <2> QED
    BY <2>1 DEF LookupsOK
<1>8. ppc # "destroyed"
  BY DEF StoreOK, EnqOK, ChoosePcs, ChosenPcs
<1> QED
  BY <1>2, <1>4, <1>5, <1>6, <1>7, <1>8

\* A consumer that sets no flags.
LEMMA QuietStep ==
  ASSUME WindowsFit, ShareIInv, ClaimsOK, NEW g \in Histories, StoreOK(g),
         NEW c \in Consumers, ConsumerStep(c), emptied' = emptied,
         Emptied' \in Nat, Emptied <= Emptied', \A n \in Nat : Consumed(n)' <=> Consumed(n),
         ClaimOK(c)', \A d \in Consumers \ {c} : Taken(c)' \cap Taken(d) = {},
         cpc'[c] \in LookupPcs => LookupOK(g, c)'
  PROVE  ClaimsOK' /\ StoreOK(g)'
<1> HIDE DEF Numbers
<1>1. RingOK(g)' /\ IndexOK(g)' /\ EnqOK(g)' /\ FrontOK(g)' /\ LookupsOK(g)'
      /\ Oldest(g)' = Oldest(g) /\ ppc # "destroyed"
  BY FramedStore
<1>2. ClaimsOK'
  <2>1. Emptied \in Nat
    BY Basics
  <2>2. \A d \in Consumers : cpc[d] \in ClaimedPcs => Until(d) \in Nat
    BY ClaimFacts DEF ClaimsOK
  <2> QED
    BY <1>1, <2>1, <2>2, ClaimsKept
<1>3. FlagsOK(g)'
  <2>1. Oldest(g) \in Nat /\ Committed \in Nat
    BY Shape DEF StoreOK
  <2>2. \A m \in Nat : Within(m) \subseteq Nat /\ Within(m)' = Within(m)
    BY WithinValue DEF Within
  <2>3. \A m \in Nat : Used(m)' = Used(m)
    <3>1. ASSUME NEW m \in Nat PROVE Used(m)' = Used(m)
      <4>1. {k \in Within(m)' : Consumed(k)'} = {k \in Within(m) : Consumed(k)}
        BY <2>2
      <4> QED
        BY <4>1 DEF Used
    <3> QED
      BY <3>1
  <2>4. \A m \in Oldest(g) .. Committed - 1 : m \in Nat /\ emptied'[g.home[m]] = Used(m)'
    BY <2>1, <2>3 DEF StoreOK, FlagsOK
  <2>5. \A m \in 0 .. Oldest(g) - 1 : \A n \in Within(m) : Consumed(n)'
    <3>1. ASSUME NEW m \in 0 .. Oldest(g) - 1, NEW n \in Within(m) PROVE Consumed(n)'
      <4>1. m \in Nat /\ n \in Nat /\ Consumed(n)
        BY <2>2, <3>1 DEF StoreOK, FlagsOK
      <4> QED
        BY <4>1
    <3> QED
      BY <3>1
  <2>6. ppc' = ppc /\ enq' = enq /\ Committed' = Committed
    BY FrameFacts
  <2>7. \A m \in 0 .. Oldest(g) - 1 : Within(m)' = Within(m)
    BY DEF Within
  <2> HIDE DEF Used, Consumed, Within
  <2> QED
    BY <1>1, <2>4, <2>5, <2>6, <2>7 DEF StoreOK, FlagsOK, Slots
<1> QED
  BY <1>1, <1>2, <1>3 DEF StoreOK

LEMMA OutsideClaims ==
  ASSUME WindowsFit, ShareIInv, ClaimsOK, NEW g \in Histories, StoreOK(g),
         NEW c \in Consumers, ConsumerStep(c), emptied' = emptied, headIndex' = headIndex,
         cpc[c] \notin ClaimedPcs, cpc'[c] \notin ClaimedPcs
  PROVE  ClaimsOK' /\ StoreOK(g)'
<1>1. Emptied' = Emptied /\ Emptied \in Nat
  BY Basics DEF Emptied
<1>2. Open(c)' = {} /\ Open(c) = {} /\ Taken(c)' = {}
  BY DEF Open, Taken
<1>3. \A n : Consumed(n)' <=> Consumed(n)
  <2>1. \A d \in Consumers : Open(d)' = Open(d)
    BY <1>2, FrameFacts
  <2> QED
    BY <1>1, <2>1 DEF Consumed
<1>4. cpc'[c] \notin LookupPcs
  BY DEF ClaimedPcs, LookupPcs
<1>5. ClaimOK(c)'
  BY DEF ClaimOK
<1>6. Emptied' \in Nat /\ Emptied <= Emptied'
  BY <1>1
<1> QED
  BY <1>2, <1>3, <1>4, <1>5, <1>6, QuietStep

LEMMA ClaimFromHead ==
  ASSUME WindowsFit, ShareIInv, ClaimsOK, NEW g \in Histories, StoreOK(g),
         NEW c \in Consumers, Claim(c), ConsumerStep(c), emptied' = emptied
  PROVE  /\ ClaimsOK' /\ StoreOK(g)'
         /\ call[c].count \in Nat /\ Emptied' = Emptied + call[c].count
         /\ At(c)' = Emptied /\ Until(c)' = Emptied + call[c].count /\ cpc'[c] = "claimed"
         /\ \A m \in Nat : Consumed(m)' <=> Consumed(m)
<1> HIDE DEF Numbers
<1>1. /\ cpc[c] = "claim" /\ cpc'[c] = "claimed" /\ headIndex' = Plus(headIndex, call[c].count)
      /\ call'[c].count = call[c].count /\ call'[c].index = headIndex
  BY Basics DEF Claim, ConsumerGoto, NoCall
<1>2. PICK n \in Nat \ {0} : n = call[c].count
  <2>1. call[c] \in Calls /\ call[c].count \in 1 .. call[c].desired
    BY <1>1 DEF ShareIInv, ShareInv, ShareTyped, Unsettled
  <2>2. call[c].desired \in Nat
    BY <2>1, HalfRange DEF Calls
  <2> QED
    BY <2>1, <2>2
<1>3. PICK a \in Nat : a = Emptied
  BY Basics
<1>4. a + n <= Filled
  <2>1. Emptied + Before(c) + n <= Filled
    BY <1>1, <1>2 DEF ShareIInv, ShareInv, Covers, Cover
  <2>2. Before(c) \in Nat
    BY ShareTypes DEF ShareIInv, ShareInv, ShareFacts
  <2>3. Filled \in Nat
    BY Basics
  <2> QED
    BY <1>2, <1>3, <2>1, <2>2, <2>3
<1>5. Emptied' = a + n
  <2>1. a + n < Numbers
    BY <1>2, <1>3, <1>4, Basics
  <2>2. headIndex \in Index /\ StartIndex \in Index /\ Minus(headIndex, StartIndex) = a
    BY <1>3, Basics, HalfRange DEF Emptied
  <2> QED
    BY <1>1, <1>2, <1>3, <2>1, <2>2, Advanced DEF Emptied
<1>6. At(c)' = a /\ First(c)' = a /\ Until(c)' = a + n
  <2>1. At(c)' = a
    BY <1>1, <1>3 DEF At, Number, Emptied
  <2>2. First(c)' = a
    BY <1>1, <2>1 DEF First
  <2> QED
    BY <1>1, <1>2, <2>1, <2>2 DEF Until
<1>7. Open(c) = {} /\ Open(c)' = a .. a + n - 1 /\ Taken(c)' = a .. a + n - 1
  BY <1>1, <1>6 DEF Open, Taken, ClaimedPcs, LookupPcs
<1>8. \A m \in Nat : Consumed(m)' <=> Consumed(m)
  <2> SUFFICES ASSUME NEW m \in Nat PROVE Consumed(m)' <=> Consumed(m)
    OBVIOUS
  <2>1. \A d \in Consumers \ {c} : Open(d)' = Open(d)
    BY FrameFacts
  <2>2. \A d \in Consumers : m \in Open(d) => m < a
    <3>1. ASSUME NEW d \in Consumers, m \in Open(d) PROVE m < a
      <4>1. cpc[d] \in ClaimedPcs /\ m \in At(d) .. Until(d) - 1
        BY <3>1 DEF Open
      <4>2. At(d) \in Nat /\ Until(d) \in Nat /\ Until(d) <= a
        BY <1>3, <4>1, ClaimFacts DEF ClaimsOK
      <4> QED
        BY <1>3, <4>1, <4>2
    <3> QED
      BY <3>1
  <2>3. m < a + n /\ m \notin a .. a + n - 1 <=> m < a
    BY <1>2
  <2> QED
    BY <1>3, <1>5, <1>7, <2>1, <2>2, <2>3 DEF Consumed
<1>9. \A d \in Consumers \ {c} : Taken(c)' \cap Taken(d) = {}
  <2>1. ASSUME NEW d \in Consumers, NEW m \in Taken(d) PROVE m \notin a .. a + n - 1
    <3>1. cpc[d] \in ClaimedPcs /\ m \in First(d) .. Until(d) - 1
      BY <2>1 DEF Taken
    <3>2. First(d) \in Nat /\ Until(d) \in Nat /\ Until(d) <= a
      BY <1>3, <3>1, ClaimFacts DEF ClaimsOK
    <3> QED
      BY <1>3, <3>1, <3>2
  <2> QED
    BY <1>7, <2>1
<1>10. ClaimOK(c)'
  <2>1. call'[c].index \in Index /\ call'[c].count \in Nat
    BY <1>1, <1>2, Basics
  <2>2. PICK e \in Nat, f \in Nat : e = Until(c)' /\ f = Emptied'
    BY <1>5, <1>6
  <2>3. e <= f /\ a \in a .. e - 1
    BY <1>5, <1>6, <2>2
  <2> QED
    BY <1>1, <1>6, <2>1, <2>2, <2>3 DEF ClaimOK, LookupPcs
<1>11. Emptied' \in Nat /\ Emptied <= Emptied'
  BY <1>3, <1>5
<1>12. cpc'[c] \notin LookupPcs
  BY <1>1 DEF LookupPcs
<1>13. ClaimsOK' /\ StoreOK(g)'
  BY <1>8, <1>9, <1>10, <1>11, <1>12, QuietStep
<1> QED
  BY <1>1, <1>2, <1>3, <1>5, <1>6, <1>8, <1>13

\* A call begins, and shares out the elements with the others.
LEMMA ShareOutStep ==
  ASSUME WindowsFit, ShareIInv, ClaimsOK, NEW g \in Histories, StoreOK(g),
         NEW c \in Consumers, Begin(c) \/ Share(c)
  PROVE  ClaimsOK' /\ StoreOK(g)'
<1> HIDE DEF Numbers
<1>1. DOMAIN cpc = Consumers /\ DOMAIN call = Consumers
  BY Basics
<1>2. UNCHANGED <<tailIndex, headers, next, freeBlocks, producerVars, emptied>>
  BY DEF Begin, Share, BeginDequeue, Sharing, LoadOvercommit, Examine, Promise, Reload, GiveBack,
     Claim, storage, producerVars
<1>3. OnlyCaller(c)
  <2>1. CASE Begin(c)
    BY <1>1, <2>1 DEF Begin, BeginDequeue, ConsumerGoto, OnlyCaller
  <2>2. CASE Share(c)
    BY <1>1, <2>2 DEF Share, Sharing, LoadOvercommit, Examine, Promise, Reload, GiveBack, Claim,
       ConsumerGoto, ReturnFrom, OnlyCaller
  <2> QED
    BY <2>1, <2>2
<1>4. ConsumerStep(c)
  BY <1>2, <1>3 DEF ConsumerStep
<1>5. CASE Begin(c)
  <2>1. cpc[c] = "idle" /\ cpc'[c] = "overcommit" /\ headIndex' = headIndex
    BY <1>1, <1>5 DEF Begin, BeginDequeue, ConsumerGoto, counters
  <2>2. cpc[c] \notin ClaimedPcs /\ cpc'[c] \notin ClaimedPcs
    BY <2>1 DEF ClaimedPcs, LookupPcs
  <2> QED
    BY <1>2, <1>4, <2>1, <2>2, OutsideClaims
<1>6. CASE Share(c) /\ ~Claim(c)
  <2>1. /\ cpc[c] \in {"overcommit", "examine", "promise", "reload", "giveBack"}
        /\ cpc'[c] \in {"examine", "promise", "reload", "giveBack", "claim", "idle"}
        /\ headIndex' = headIndex
    BY <1>1, <1>6 DEF Share, Sharing, LoadOvercommit, Examine, Promise, Reload, GiveBack,
       ConsumerGoto, ReturnFrom, counters
  <2>2. cpc[c] \notin ClaimedPcs /\ cpc'[c] \notin ClaimedPcs
    BY <2>1 DEF ClaimedPcs, LookupPcs
  <2> QED
    BY <1>2, <1>4, <2>1, <2>2, OutsideClaims
<1>7. CASE Claim(c)
  BY <1>2, <1>4, <1>7, ClaimFromHead
<1> QED
  BY <1>5, <1>6, <1>7

\* A consumer goes on within the block that it is at.
LEMMA LookingStep ==
  ASSUME WindowsFit, ShareIInv, ClaimsOK, NEW g \in Histories, StoreOK(g),
         NEW c \in Consumers, ConsumerStep(c), emptied' = emptied, headIndex' = headIndex,
         cpc[c] \in ClaimedPcs, cpc'[c] \in LookupPcs,
         call'[c].index = call[c].index, call'[c].count = call[c].count,
         call'[c].first = IF cpc[c] = "claimed" THEN call[c].index ELSE call[c].first,
         DOMAIN call'[c] = CallFields,
         Here(c)' = Here(c) /\ LastBlock(c)' = LastBlock(c) => LookupOK(g, c)'
  PROVE  ClaimsOK' /\ StoreOK(g)' /\ Here(c)' = Here(c) /\ LastBlock(c)' = LastBlock(c)
<1> HIDE DEF Numbers
<1>1. Emptied' = Emptied /\ Emptied \in Nat
  BY Basics DEF Emptied
<1>2. cpc[c] \in ClaimedPcs /\ cpc'[c] \in ClaimedPcs /\ cpc'[c] # "claimed"
  BY DEF ClaimedPcs, LookupPcs
<1>3. At(c)' = At(c) /\ Here(c)' = Here(c)
  BY DEF At, Here, Number, BlockNo
<1>4. First(c)' = First(c) /\ Until(c)' = Until(c)
  <2>1. First(c)' = First(c)
    BY <1>2, <1>3 DEF First, At, Number
  <2> QED
    BY <2>1 DEF Until
<1>5. LastBlock(c)' = LastBlock(c)
  BY <1>4 DEF LastBlock
<1>6. Open(c)' = Open(c) /\ Taken(c)' = Taken(c)
  BY <1>2, <1>3, <1>4 DEF Open, Taken
<1>7. \A n \in Nat : Consumed(n)' <=> Consumed(n)
  <2>1. \A d \in Consumers : Open(d)' = Open(d)
    BY <1>6, FrameFacts
  <2> QED
    BY <1>1, <2>1 DEF Consumed
<1>8. ClaimOK(c)'
  <2>1. ClaimOK(c)
    BY DEF ClaimsOK
  <2>2. call'[c].first \in Index
    BY <1>2, <2>1 DEF ClaimOK, ClaimedPcs
  <2> QED
    BY <1>1, <1>2, <1>3, <1>4, <2>1, <2>2 DEF ClaimOK
<1>9. \A d \in Consumers \ {c} : Taken(c)' \cap Taken(d) = {}
  BY <1>6 DEF ClaimsOK
<1>10. Emptied' \in Nat /\ Emptied <= Emptied'
  BY <1>1
<1> QED
  BY <1>3, <1>5, <1>7, <1>8, <1>9, <1>10, QuietStep

LEMMA LoadHeaderStep ==
  ASSUME WindowsFit, ShareIInv, ClaimsOK, NEW g \in Histories, StoreOK(g),
         NEW c \in Consumers, LoadHeader(c)
  PROVE  ClaimsOK' /\ StoreOK(g)'
<1> HIDE DEF Numbers
<1>1. DOMAIN cpc = Consumers /\ DOMAIN call = Consumers
  BY Basics
<1>2. /\ cpc[c] = "claimed" /\ cpc'[c] = "front"
      /\ call'[c] = [count |-> call[c].count, index |-> call[c].index, header |-> Len(headers),
                     slot |-> 0, first |-> call[c].index, block |-> NoBlock, got |-> << >>]
      /\ UNCHANGED <<tailIndex, headers, next, freeBlocks, producerVars, emptied, headIndex>>
      /\ OnlyCaller(c)
  BY <1>1 DEF LoadHeader, ConsumerGoto, counters, storage, OnlyCaller
<1>3. ConsumerStep(c)
  BY <1>2 DEF ConsumerStep
<1>4. cpc[c] \in ClaimedPcs /\ cpc'[c] \in LookupPcs
  BY <1>2 DEF ClaimedPcs, LookupPcs
<1>5. RingOK(g) /\ IndexOK(g) /\ EnqOK(g) /\ FlagsOK(g)
  BY DEF StoreOK
<1>6. /\ Oldest(g) <= Here(c) /\ Here(c) \in Nat /\ LastBlock(c) \in Nat
      /\ Here(c) <= LastBlock(c) /\ LastBlock(c) < Committed /\ Committed <= g.n
      /\ Committed \in Nat /\ g.n \in Nat /\ Oldest(g) \in Nat
  <2>1. PICK o \in Nat : o = Oldest(g)
    BY <1>5, Shape
  <2>2. \A m \in 0 .. o - 1 : \A n \in Within(m) : Consumed(n)
    BY <1>5, <2>1 DEF FlagsOK
  <2>3. ClaimOK(c)
    BY DEF ClaimsOK
  <2> QED
    BY <1>4, <1>5, <2>1, <2>2, <2>3, InRing
<1>7. headers \in Seq(Headers) /\ headers # << >>
  <2>1. pr.used # 0
    BY <1>5, <1>6, Shape
  <2> QED
    BY <1>5, <2>1 DEF IndexOK
<1>8. Len(headers) \in 1 .. Len(headers) /\ Last = headers[Len(headers)]
  BY <1>7, LastFacts
<1>9. Written(g) \in Int /\ Committed <= Written(g) /\ Written(g) <= g.n
  BY <1>6 DEF Written, Unlisted, Lone
<1>10. \A m \in Here(c) .. LastBlock(c) : Lists(g, Len(headers), m)
  <2>1. \A m \in Here(c) .. LastBlock(c) : m \in Oldest(g) .. Written(g) - 1
    BY <1>6, <1>9
  <2> QED
    BY <1>5, <1>7, <2>1 DEF IndexOK
<1>11. Leads(g, c, Len(headers), Last.front)
  <2>1. PICK T \in Committed - 1 .. Written(g) - 1 : Last.front = SlotOf(g, Len(headers), T)
    BY <1>5, <1>6, <1>7 DEF IndexOK
  <2>2. T \in LastBlock(c) .. g.n - 1 /\ T \in Oldest(g) .. Written(g) - 1
    BY <1>6, <1>9, <2>1
  <2>3. Lists(g, Len(headers), T)
    BY <1>5, <1>7, <2>2 DEF IndexOK
  <2> QED
    BY <2>1, <2>2, <2>3 DEF Leads
<1>12. ASSUME Here(c)' = Here(c), LastBlock(c)' = LastBlock(c) PROVE LookupOK(g, c)'
  <2>1. PICK j : j = Len(headers)
    OBVIOUS
  <2>2. headers' = headers /\ call'[c].header = j /\ j \in 1 .. Len(headers')
    BY <1>2, <1>8, <2>1
  <2>3. \A m : Lists(g, j, m)' <=> Lists(g, j, m)
    BY <2>2 DEF Lists, SlotOf
  <2>4. \A m \in Here(c)' .. LastBlock(c)' : Lists(g, j, m)'
    BY <1>10, <1>12, <2>1, <2>3
  <2>5. Leads(g, c, j, headers[j].front)'
    <3>1. PICK t : t = headers[j].front
      OBVIOUS
    <3>2. Leads(g, c, j, t)
      BY <1>8, <1>11, <2>1, <3>1
    <3>3. Leads(g, c, j, t)'
      BY <1>12, <2>2, <3>2 DEF Leads, Lists, SlotOf
    <3> QED
      BY <2>2, <3>1, <3>3 DEF Leads
  <2> HIDE DEF Leads, Lists, SlotOf, Here, LastBlock
  <2> QED
    BY <1>2, <2>2, <2>4, <2>5 DEF LookupOK
<1>13. DOMAIN call'[c] = CallFields
  BY <1>2 DEF CallFields
<1>14. /\ call'[c].index = call[c].index /\ call'[c].count = call[c].count
       /\ call'[c].first = IF cpc[c] = "claimed" THEN call[c].index ELSE call[c].first
  BY <1>2
<1> QED
  BY <1>2, <1>3, <1>4, <1>12, <1>13, <1>14, LookingStep

\* What a consumer has loaded so far.
LEMMA LookupFacts ==
  ASSUME WindowsFit, ShareIInv, ClaimsOK, NEW g \in Histories, StoreOK(g),
         NEW c \in Consumers, cpc[c] \in LookupPcs
  PROVE  /\ LookupOK(g, c) /\ ClaimOK(c) /\ DOMAIN call[c] = CallFields
         /\ headers \in Seq(Headers) /\ call[c].header \in 1 .. Len(headers)
         /\ HeaderOf(c) = headers[call[c].header] /\ HeaderOf(c) \in Headers
         /\ Oldest(g) \in Nat /\ Oldest(g) <= Here(c) /\ Here(c) \in Nat /\ LastBlock(c) \in Nat
         /\ Here(c) <= LastBlock(c) /\ LastBlock(c) < Committed /\ Committed <= g.n
         /\ Committed \in Nat /\ g.n \in Nat
<1>1. RingOK(g) /\ IndexOK(g) /\ EnqOK(g) /\ FlagsOK(g) /\ LookupOK(g, c) /\ ClaimOK(c)
      /\ cpc[c] \in ClaimedPcs
  BY DEF StoreOK, LookupsOK, ClaimsOK, ClaimedPcs
<1>2. PICK o \in Nat : o = Oldest(g)
  BY <1>1, Shape
<1>3. \A m \in 0 .. o - 1 : \A n \in Within(m) : Consumed(n)
  BY <1>1, <1>2 DEF FlagsOK
<1>4. headers \in Seq(Headers) /\ call[c].header \in 1 .. Len(headers)
  BY <1>1 DEF IndexOK, LookupOK
<1>5. HeaderOf(c) \in Headers
  BY <1>4 DEF HeaderOf
<1>6. DOMAIN call[c] = CallFields
  BY <1>1 DEF ClaimOK
<1> QED
  BY <1>1, <1>2, <1>3, <1>4, <1>5, <1>6, InRing DEF HeaderOf

LEMMA LoadFrontStep ==
  ASSUME WindowsFit, ShareIInv, ClaimsOK, NEW g \in Histories, StoreOK(g),
         NEW c \in Consumers, LoadFront(c)
  PROVE  ClaimsOK' /\ StoreOK(g)'
<1> HIDE DEF Numbers
<1>1. DOMAIN cpc = Consumers /\ DOMAIN call = Consumers
  BY Basics
<1>2. cpc[c] = "front" /\ cpc[c] \in LookupPcs /\ cpc[c] \in ClaimedPcs
  BY DEF LoadFront, LookupPcs, ClaimedPcs
<1>3. LookupOK(g, c) /\ DOMAIN call[c] = CallFields
  BY <1>2, LookupFacts
<1>4. PICK j, t : j = call[c].header /\ t = headers[j].front
  OBVIOUS
<1>5. /\ cpc'[c] = "base" /\ call'[c] = [call[c] EXCEPT !.slot = t]
      /\ UNCHANGED <<tailIndex, headers, next, freeBlocks, producerVars, emptied, headIndex>>
      /\ OnlyCaller(c)
  BY <1>1, <1>4 DEF LoadFront, HeaderOf, ConsumerGoto, counters, storage, OnlyCaller
<1>6. /\ call'[c].slot = t /\ call'[c].header = j
      /\ call'[c].index = call[c].index /\ call'[c].count = call[c].count
      /\ call'[c].first = call[c].first /\ DOMAIN call'[c] = CallFields
  BY <1>3, <1>4, <1>5 DEF CallFields
<1>7. ConsumerStep(c)
  BY <1>5 DEF ConsumerStep
<1>8. ASSUME Here(c)' = Here(c), LastBlock(c)' = LastBlock(c) PROVE LookupOK(g, c)'
  <2>1. headers' = headers /\ j \in 1 .. Len(headers')
    BY <1>3, <1>4, <1>5 DEF LookupOK
  <2>2. \A m \in Here(c)' .. LastBlock(c)' : Lists(g, j, m)'
    BY <1>3, <1>4, <1>8, <2>1 DEF LookupOK, Lists, SlotOf
  <2>3. Leads(g, c, j, t)
    BY <1>2, <1>3, <1>4 DEF LookupOK
  <2>4. Leads(g, c, j, t)'
    BY <1>8, <2>1, <2>3 DEF Leads, Lists, SlotOf
  <2>5. Leads(g, c, j, call[c].slot)'
    BY <1>6, <2>4 DEF Leads
  <2> HIDE DEF Leads, Lists, SlotOf, Here, LastBlock
  <2> QED
    BY <1>5, <1>6, <2>1, <2>2, <2>5 DEF LookupOK
<1>9. /\ cpc'[c] \in LookupPcs
      /\ call'[c].first = IF cpc[c] = "claimed" THEN call[c].index ELSE call[c].first
  BY <1>2, <1>5, <1>6 DEF LookupPcs
<1> QED
  BY <1>2, <1>5, <1>6, <1>7, <1>8, <1>9, LookingStep

\* The slot that a consumer computes is that of the block it looks for.
LEMMA BaseFound ==
  ASSUME WindowsFit, ShareIInv, ClaimsOK, NEW g \in Histories, StoreOK(g),
         NEW c \in Consumers, cpc[c] = "base"
  PROVE  LET h == HeaderOf(c)
             t == call[c].slot
         IN /\ t \in DOMAIN h.entries /\ h.entries[t].base # -1
            /\ SlotFor(h, t, h.entries[t].base, call[c].index)
                 = SlotOf(g, call[c].header, Here(c))
<1> HIDE DEF Numbers
<1>1. cpc[c] \in LookupPcs /\ cpc[c] \in ClaimedPcs
  BY DEF LookupPcs, ClaimedPcs
<1>2. PICK j, h, t : j = call[c].header /\ h = HeaderOf(c) /\ t = call[c].slot
  OBVIOUS
<1>3. /\ LookupOK(g, c) /\ ClaimOK(c) /\ headers \in Seq(Headers) /\ j \in 1 .. Len(headers)
      /\ h = headers[j] /\ h \in Headers /\ Here(c) \in Nat /\ LastBlock(c) \in Nat /\ g.n \in Nat
  BY <1>1, <1>2, LookupFacts
<1>4. PICK T \in LastBlock(c) .. g.n - 1 : Lists(g, j, T) /\ t = SlotOf(g, j, T)
  BY <1>2, <1>3 DEF LookupOK, Leads
<1>5. T \in Nat /\ T \in Int /\ T < g.n /\ T <= g.n
  BY <1>3, <1>4
<1>6. h.entries[t].base = BaseOf(T)
  BY <1>3, <1>4 DEF Lists
<1>7. /\ Capacity(h) \in Nat \ {0} /\ DOMAIN h.entries = 0 .. Capacity(h) - 1
      /\ \A m \in Int : SlotOf(g, j, m) \in 0 .. Capacity(h) - 1
      /\ \A m, k \in Int : (SlotOf(g, j, m) + k) % Capacity(h) = SlotOf(g, j, m + k)
  BY <1>3, SlotFacts
<1>8. t \in 0 .. Capacity(h) - 1
  BY <1>4, <1>5, <1>7
<1>9. /\ T * BlockSize < Numbers \div 2 /\ BaseOf(T) \in Index
  <2>1. RingOK(g) /\ EnqOK(g)
    BY DEF StoreOK
  <2> QED
    BY <1>5, <2>1, BlockInRange
<1>10. Number(call[c].index) < Numbers \div 2 /\ call[c].index \in Index
  <2>1. At(c) \in Nat /\ Until(c) \in Nat /\ At(c) < Until(c) /\ Until(c) <= Emptied
    BY <1>1, <1>3, ClaimFacts
  <2>2. Emptied \in Nat /\ Filled \in Nat /\ MaxEnqueued \in Nat /\ Emptied <= Filled
        /\ Filled <= MaxEnqueued /\ MaxEnqueued < Numbers \div 2 /\ Numbers \div 2 \in Nat
    BY Basics
  <2>3. At(c) = Number(call[c].index) /\ call[c].index \in Index
    BY <1>1, <1>3 DEF At, ClaimOK
  <2> QED
    BY <2>1, <2>2, <2>3
<1>11. BlockOffset(BaseOf(T), call[c].index) = Here(c) - T
  <2>1. BlockOffset(BaseOf(T), call[c].index) = BlockNo(call[c].index) - T
    BY <1>5, <1>9, <1>10, OffsetValue
  <2> QED
    BY <2>1 DEF Here
<1>12. SlotFor(h, t, BaseOf(T), call[c].index) = SlotOf(g, j, Here(c))
  <2>1. Here(c) - T \in Int /\ T \in Int /\ T + (Here(c) - T) = Here(c)
    BY <1>3, <1>5
  <2>2. (SlotOf(g, j, T) + (Here(c) - T)) % Capacity(h) = SlotOf(g, j, T + (Here(c) - T))
    BY <1>7, <2>1
  <2> QED
    BY <1>4, <1>11, <2>1, <2>2 DEF SlotFor
<1>13. BaseOf(T) # -1
  BY <1>9 DEF Index
<1> QED
  BY <1>2, <1>6, <1>7, <1>8, <1>12, <1>13

LEMMA LoadBaseStep ==
  ASSUME WindowsFit, ShareIInv, ClaimsOK, NEW g \in Histories, StoreOK(g),
         NEW c \in Consumers, LoadBase(c)
  PROVE  ClaimsOK' /\ StoreOK(g)'
<1> HIDE DEF Numbers
<1>1. DOMAIN cpc = Consumers /\ DOMAIN call = Consumers
  BY Basics
<1>2. cpc[c] = "base" /\ cpc[c] \in LookupPcs /\ cpc[c] \in ClaimedPcs
  BY DEF LoadBase, LookupPcs, ClaimedPcs
<1>3. LookupOK(g, c) /\ DOMAIN call[c] = CallFields
  BY <1>2, LookupFacts
<1>4. PICK s : s = SlotFor(HeaderOf(c), call[c].slot, HeaderOf(c).entries[call[c].slot].base,
                           call[c].index)
  OBVIOUS
<1>5. /\ cpc'[c] = "entry" /\ call'[c] = [call[c] EXCEPT !.slot = s]
      /\ UNCHANGED <<tailIndex, headers, next, freeBlocks, producerVars, emptied, headIndex>>
      /\ OnlyCaller(c)
  BY <1>1, <1>4 DEF LoadBase, ConsumerGoto, counters, storage, OnlyCaller
<1>6. /\ call'[c].slot = s /\ call'[c].header = call[c].header
      /\ call'[c].index = call[c].index /\ call'[c].count = call[c].count
      /\ call'[c].first = call[c].first /\ DOMAIN call'[c] = CallFields
  BY <1>3, <1>5 DEF CallFields
<1>7. ConsumerStep(c)
  BY <1>5 DEF ConsumerStep
<1>8. ASSUME Here(c)' = Here(c), LastBlock(c)' = LastBlock(c) PROVE LookupOK(g, c)'
  <2>0. PICK j : j = call[c].header
    OBVIOUS
  <2>1. headers' = headers /\ j \in 1 .. Len(headers') /\ call'[c].header = j
    BY <1>3, <1>5, <1>6, <2>0 DEF LookupOK
  <2>2. \A m \in Here(c)' .. LastBlock(c)' : Lists(g, j, m)'
    BY <1>3, <1>8, <2>0, <2>1 DEF LookupOK, Lists, SlotOf
  <2>3. s = SlotOf(g, j, Here(c))
    BY <1>2, <1>4, <2>0, BaseFound
  <2>4. s = SlotOf(g, j, Here(c))'
    BY <1>8, <2>1, <2>3 DEF SlotOf
  <2> HIDE DEF Leads, Lists, SlotOf, Here, LastBlock
  <2> QED
    BY <1>5, <1>6, <2>1, <2>2, <2>4 DEF LookupOK
<1>9. /\ cpc'[c] \in LookupPcs
      /\ call'[c].first = IF cpc[c] = "claimed" THEN call[c].index ELSE call[c].first
  BY <1>2, <1>5, <1>6 DEF LookupPcs
<1> QED
  BY <1>2, <1>5, <1>6, <1>7, <1>8, <1>9, LookingStep

\* What a consumer has found.
LEMMA EntryFound ==
  ASSUME WindowsFit, ShareIInv, ClaimsOK, NEW g \in Histories, StoreOK(g),
         NEW c \in Consumers, cpc[c] \in {"entry", "empty"}
  PROVE  /\ EntryOf(c) = [base |-> BaseOf(Here(c)), block |-> g.home[Here(c)]]
         /\ BaseOf(Here(c)) = Base(call[c].index)
         /\ g.home[Here(c)] \in Blocks /\ g.home[Here(c)] # NoBlock
         /\ Here(c) \in Oldest(g) .. Committed - 1
<1> HIDE DEF Numbers
<1>1. cpc[c] \in LookupPcs /\ RingOK(g) /\ EnqOK(g)
  BY DEF LookupPcs, StoreOK
<1>2. /\ LookupOK(g, c) /\ ClaimOK(c) /\ HeaderOf(c) = headers[call[c].header]
      /\ Oldest(g) \in Nat /\ Oldest(g) <= Here(c) /\ Here(c) \in Nat /\ LastBlock(c) \in Nat
      /\ Here(c) <= LastBlock(c) /\ LastBlock(c) < Committed /\ Committed <= g.n
      /\ Committed \in Nat /\ g.n \in Nat
  BY <1>1, LookupFacts
<1>3. Here(c) \in Here(c) .. LastBlock(c) /\ Here(c) \in Oldest(g) .. Committed - 1
      /\ Here(c) \in Int /\ Here(c) < g.n
  BY <1>2
<1>4. Lists(g, call[c].header, Here(c)) /\ call[c].slot = SlotOf(g, call[c].header, Here(c))
  BY <1>2, <1>3 DEF LookupOK
<1>5. EntryOf(c) = [base |-> BaseOf(Here(c)), block |-> g.home[Here(c)]]
  BY <1>2, <1>4 DEF EntryOf, Lists
<1>6. BaseOf(Here(c)) = Base(call[c].index)
  <2>1. call[c].index \in Index
    BY <1>1, <1>2 DEF ClaimOK, ClaimedPcs
  <2> QED
    BY <2>1, BlockNoValue DEF Here
<1>7. g.home[Here(c)] \in Blocks /\ g.home[Here(c)] # NoBlock
  BY <1>1, <1>2, <1>3, HomeFacts
<1> QED
  BY <1>3, <1>5, <1>6, <1>7

LEMMA MoveStep ==
  ASSUME WindowsFit, ShareIInv, ClaimsOK, NEW g \in Histories, StoreOK(g),
         NEW c \in Consumers, Move(c)
  PROVE  ClaimsOK' /\ StoreOK(g)' /\ ConsumerStep(c)
<1> HIDE DEF Numbers
<1>1. DOMAIN cpc = Consumers /\ DOMAIN call = Consumers
  BY Basics
<1>2. cpc[c] = "entry" /\ cpc[c] \in LookupPcs /\ cpc[c] \in ClaimedPcs
  BY DEF Move, LookupPcs, ClaimedPcs
<1>3. LookupOK(g, c) /\ DOMAIN call[c] = CallFields
  BY <1>2, LookupFacts
<1>4. PICK b : b = EntryOf(c).block
  OBVIOUS
<1>5. /\ cpc'[c] = "empty"
      /\ \E got : call'[c] = [call[c] EXCEPT !.block = b, !.got = got]
      /\ UNCHANGED <<tailIndex, headers, next, freeBlocks, producerVars, emptied, headIndex>>
      /\ OnlyCaller(c)
  BY <1>1, <1>4 DEF Move, ConsumerGoto, counters, OnlyCaller
<1>6. /\ call'[c].slot = call[c].slot /\ call'[c].header = call[c].header /\ call'[c].block = b
      /\ call'[c].index = call[c].index /\ call'[c].count = call[c].count
      /\ call'[c].first = call[c].first /\ DOMAIN call'[c] = CallFields
  BY <1>3, <1>5 DEF CallFields
<1>7. ConsumerStep(c)
  BY <1>5 DEF ConsumerStep
<1>8. ASSUME Here(c)' = Here(c), LastBlock(c)' = LastBlock(c) PROVE LookupOK(g, c)'
  <2>0. PICK j : j = call[c].header
    OBVIOUS
  <2>1. headers' = headers /\ j \in 1 .. Len(headers') /\ call'[c].header = j
    BY <1>3, <1>5, <1>6, <2>0 DEF LookupOK
  <2>2. \A m \in Here(c)' .. LastBlock(c)' : Lists(g, j, m)'
    BY <1>3, <1>8, <2>0, <2>1 DEF LookupOK, Lists, SlotOf
  <2>3. call[c].slot = SlotOf(g, j, Here(c))
    BY <1>2, <1>3, <2>0 DEF LookupOK
  <2>4. call[c].slot = SlotOf(g, j, Here(c))'
    BY <1>8, <2>1, <2>3 DEF SlotOf
  <2>5. b = g.home[Here(c)']
    BY <1>2, <1>4, <1>8, EntryFound
  <2> HIDE DEF Leads, Lists, SlotOf, Here, LastBlock
  <2> QED
    BY <1>5, <1>6, <2>1, <2>2, <2>4, <2>5 DEF LookupOK
<1>9. /\ cpc'[c] \in LookupPcs
      /\ call'[c].first = IF cpc[c] = "claimed" THEN call[c].index ELSE call[c].first
  BY <1>2, <1>5, <1>6 DEF LookupPcs
<1> QED
  BY <1>2, <1>5, <1>6, <1>7, <1>8, <1>9, LookingStep

\* Where the elements end that a consumer takes from the block that it is at.
Stop(c) == IF Until(c) < (Here(c) + 1) * BlockSize THEN Until(c) ELSE (Here(c) + 1) * BlockSize

LEMMA StopFacts ==
  ASSUME WindowsFit, ShareIInv, NEW c \in Consumers, ClaimOK(c), cpc[c] \in ClaimedPcs
  PROVE  /\ Stop(c) \in Nat /\ At(c) < Stop(c) /\ Stop(c) <= Until(c)
         /\ Stop(c) <= (Here(c) + 1) * BlockSize /\ (Here(c) + 1) * BlockSize \in Nat
         /\ (Here(c) + 1) * BlockSize = Here(c) * BlockSize + BlockSize
         /\ Stop(c) = Until(c) \/ Stop(c) = (Here(c) + 1) * BlockSize
         /\ At(c) .. Stop(c) - 1 \subseteq Within(Here(c))
<1> HIDE DEF Numbers
<1>1. /\ At(c) \in Nat /\ Until(c) \in Nat /\ At(c) < Until(c) /\ Here(c) \in Nat
      /\ At(c) \in Within(Here(c))
  BY ClaimFacts
<1>2. PICK h \in Nat, g \in Nat : h = Here(c) * BlockSize /\ g = (Here(c) + 1) * BlockSize
  <2>1. Here(c) + 1 \in Nat
    BY <1>1
  <2> QED
    BY <1>1, <2>1, WithinValue
<1>3. g = h + BlockSize /\ h <= At(c) /\ At(c) < h + BlockSize /\ BlockSize \in Nat
  BY <1>1, <1>2, WithinValue, BlockFacts
<1>4. Stop(c) = IF Until(c) < g THEN Until(c) ELSE g
  BY <1>2 DEF Stop
<1>5. At(c) .. Stop(c) - 1 \subseteq h .. h + BlockSize - 1
  BY <1>1, <1>2, <1>3, <1>4
<1>6. Within(Here(c)) = h .. h + BlockSize - 1
  BY <1>2 DEF Within
<1> QED
  BY <1>1, <1>2, <1>3, <1>4, <1>5, <1>6

\* What a consumer takes from a block.
LEMMA InBlockElements ==
  ASSUME WindowsFit, ShareIInv, NEW c \in Consumers, ClaimOK(c), cpc[c] \in LookupPcs
  PROVE  /\ InBlock(c) = {Element(n) : n \in At(c) .. Stop(c) - 1}
         /\ \A n \in At(c) .. Stop(c) - 1 : n \in Index
         /\ \A k \in 0 .. call[c].count - 1 : Plus(call[c].first, k) = Element(First(c) + k)
<1> HIDE DEF Numbers
<1>1. cpc[c] \in ClaimedPcs /\ cpc[c] # "claimed"
  BY DEF ClaimedPcs, LookupPcs
<1>2. PICK a \in Nat, f \in Nat, u \in Nat, s \in Nat :
        a = At(c) /\ f = First(c) /\ u = Until(c) /\ s = Stop(c)
  BY <1>1, ClaimFacts, StopFacts
<1>3. f <= a /\ a < u /\ u <= Emptied /\ a < s /\ s <= u
  BY <1>1, <1>2, ClaimFacts, StopFacts
<1>4. PICK m \in Nat, g \in Nat : m = Here(c) /\ g = (Here(c) + 1) * BlockSize
  BY <1>1, ClaimFacts, StopFacts
<1>5. u < Numbers /\ \A n \in 0 .. u : n \in Index
  <2>1. u < Numbers /\ Numbers \in Nat
    BY <1>2, <1>3, Basics
  <2> QED
    BY <2>1 DEF Index
<1>6. /\ call[c].index \in Index /\ call[c].first \in Index /\ f = Number(call[c].first)
      /\ a = Number(call[c].index) /\ u = f + call[c].count /\ call[c].count \in Nat
      /\ a = f \/ a = m * BlockSize
  BY <1>1, <1>2, <1>4 DEF ClaimOK, At, First, Until
<1>7. Base(call[c].index) = BaseOf(m)
  BY <1>4, <1>6, BlockNoValue DEF Here
<1>8. \A k \in 0 .. call[c].count - 1 : Plus(call[c].first, k) = Element(f + k) /\ f + k \in Index
  <2>1. ASSUME NEW k \in 0 .. call[c].count - 1
        PROVE  Plus(call[c].first, k) = Element(f + k) /\ f + k \in Index
    <3>1. f + k \in 0 .. u /\ f + k < Numbers /\ k \in Nat
      <4>1. PICK n \in Nat : n = call[c].count
        BY <1>6
      <4>2. k \in 0 .. n - 1 /\ u = f + n
        BY <1>6, <2>1, <4>1
      <4> QED
        BY <1>5, <4>2, Basics
    <3>2. Minus(call[c].first, StartIndex) + k < Numbers /\ StartIndex \in Index
      BY <1>6, <3>1, HalfRange DEF Number
    <3>3. /\ Plus(call[c].first, k) \in Index
          /\ Minus(Plus(call[c].first, k), StartIndex) = Minus(call[c].first, StartIndex) + k
      BY <1>6, <3>1, <3>2, Advanced
    <3>4. Number(Plus(call[c].first, k)) = f + k
      BY <1>6, <3>3 DEF Number
    <3>5. Element(Number(Plus(call[c].first, k))) = Plus(call[c].first, k)
      BY <3>3, NumberValue
    <3> QED
      BY <1>5, <3>1, <3>4, <3>5
  <2> QED
    BY <2>1
<1>9. \A n \in a .. s - 1 : Element(n) \in InBlock(c)
  <2>1. ASSUME NEW n \in a .. s - 1 PROVE Element(n) \in InBlock(c)
    <3>1. n - f \in 0 .. call[c].count - 1 /\ f + (n - f) = n /\ n \in 0 .. u
      BY <1>2, <1>3, <1>6
    <3>2. Element(n) = Plus(call[c].first, n - f)
      BY <1>8, <3>1
    <3>3. n \in Index /\ n \in Within(m)
      BY <1>1, <1>2, <1>4, <1>5, <3>1, StopFacts
    <3>4. Base(Element(n)) = BaseOf(m)
      BY <1>4, <3>3, ElementBase
    <3> QED
      BY <1>7, <3>1, <3>2, <3>4 DEF InBlock, Claimed
  <2> QED
    BY <2>1
<1>10. \A i \in InBlock(c) : Number(i) \in a .. s - 1 /\ i \in Index
  <2>1. ASSUME NEW i \in InBlock(c) PROVE Number(i) \in a .. s - 1 /\ i \in Index
    <3>1. PICK k \in 0 .. call[c].count - 1 : i = Plus(call[c].first, k)
      BY DEF InBlock, Claimed
    <3>2. PICK n \in Index : n = f + k
      BY <1>8, <3>1
    <3>3. i = Element(n) /\ i \in Index /\ Number(i) = n
      BY <1>8, <3>1, <3>2, ElementValue
    <3>4. BaseOf(BlockNo(i)) = BaseOf(m)
      BY <1>7, <3>3, BlockNoValue DEF InBlock
    <3>5. BlockNo(i) = m
      <4>1. BlockNo(i) \in Nat /\ BlockNo(i) * BlockSize \in Index
        BY <3>3, BlockNoValue
      <4>2. m * BlockSize \in Index
        BY <1>4, <1>6, BlockNoValue DEF Here
      <4> QED
        BY <1>4, <3>4, <4>1, <4>2, BaseSame
    <3>6. n \in Within(m)
      BY <3>3, <3>5, BlockNoValue
    <3>7. m * BlockSize \in Nat /\ m * BlockSize <= n /\ n < m * BlockSize + BlockSize
          /\ g = m * BlockSize + BlockSize
      BY <1>4, <3>6, WithinValue
    <3>8. s = u \/ s = g
      BY <1>1, <1>2, <1>4, StopFacts
    <3>9. f <= n /\ n < u /\ n \in Nat
      BY <1>6, <3>1, <3>2, HalfRange DEF Index
    <3>10. a <= n /\ n < s
      BY <1>6, <3>7, <3>8, <3>9
    <3> QED
      BY <3>3, <3>9, <3>10
  <2> QED
    BY <2>1
<1>11. InBlock(c) = {Element(n) : n \in a .. s - 1}
  <2>1. \A i \in InBlock(c) : \E n \in a .. s - 1 : i = Element(n)
    BY <1>10, NumberValue
  <2> QED
    BY <1>9, <2>1
<1>12. \A n \in a .. s - 1 : n \in Index
  <2>1. \A n \in a .. s - 1 : n \in 0 .. u
    BY <1>3
  <2> QED
    BY <1>5, <2>1
<1> QED
  BY <1>2, <1>8, <1>11, <1>12

\* A consumer takes as many elements from a block as it has claimed there.
LEMMA InBlockCount ==
  ASSUME WindowsFit, ShareIInv, NEW c \in Consumers, ClaimOK(c), cpc[c] \in LookupPcs
  PROVE  Cardinality(InBlock(c)) = Stop(c) - At(c)
<1> HIDE DEF Numbers
<1>1. cpc[c] \in ClaimedPcs
  BY DEF ClaimedPcs
<1>2. PICK a \in Nat, s \in Nat : a = At(c) /\ s = Stop(c) /\ a < s
  BY <1>1, ClaimFacts, StopFacts
<1>3. InBlock(c) = {Element(n) : n \in a .. s - 1} /\ \A n \in a .. s - 1 : n \in Index
  BY <1>2, InBlockElements
<1>4. [n \in a .. s - 1 |-> Element(n)] \in Bijection(a .. s - 1, InBlock(c))
  <2>1. \A n \in a .. s - 1 : Number(Element(n)) = n
    BY <1>3, ElementValue
  <2>2. \A i \in InBlock(c) : \E n \in a .. s - 1 : Element(n) = i
    BY <1>3
  <2> QED
    BY <1>3, <2>1, <2>2, Fun_IsBij
<1>5. ExistsBijection(a .. s - 1, InBlock(c))
  BY <1>4, Fun_ExistsBij
<1>6. Cardinality(a .. s - 1) = s - a /\ IsFiniteSet(a .. s - 1)
  <2>1. a \in Int /\ s - 1 \in Int /\ ~(a > s - 1)
    BY <1>2
  <2>2. Cardinality(a .. s - 1) = s - 1 - a + 1 /\ IsFiniteSet(a .. s - 1)
    BY <2>1, FS_Interval
  <2> QED
    BY <1>2, <2>2
<1> QED
  BY <1>2, <1>5, <1>6, FS_Bijection

\* What a consumer takes out of a block, it alone had yet to take.
LEMMA ElementsLeft ==
  ASSUME WindowsFit, ShareIInv, ClaimsOK, NEW c \in Consumers, cpc[c] \in ClaimedPcs
  PROVE  /\ \A n \in At(c) .. Stop(c) - 1 :
              /\ n \in Nat /\ n < Emptied /\ n \in Open(c) /\ ~Consumed(n)
              /\ \A d \in Consumers \ {c} : n \notin Open(d)
         /\ Open(c) = At(c) .. Until(c) - 1
<1> HIDE DEF Numbers
<1>1. PICK a \in Nat, u \in Nat, s \in Nat, f \in Nat :
        a = At(c) /\ u = Until(c) /\ s = Stop(c) /\ f = First(c)
  BY ClaimFacts, StopFacts DEF ClaimsOK
<1>2. f <= a /\ a < s /\ s <= u /\ u <= Emptied /\ Emptied \in Nat
  BY <1>1, ClaimFacts, StopFacts, Basics DEF ClaimsOK
<1>3. Open(c) = a .. u - 1 /\ Taken(c) = f .. u - 1
  BY <1>1 DEF Open, Taken
<1>4. \A d \in Consumers : Open(d) \subseteq Taken(d)
  <2>1. ASSUME NEW d \in Consumers, cpc[d] \in ClaimedPcs PROVE Open(d) \subseteq Taken(d)
    <3>1. First(d) \in Nat /\ Until(d) \in Nat /\ First(d) <= At(d) /\ At(d) \in Nat
      BY <2>1, ClaimFacts DEF ClaimsOK
    <3> QED
      BY <2>1, <3>1 DEF Open, Taken
  <2> QED
    BY <2>1 DEF Open
<1>5. ASSUME NEW n \in a .. s - 1
      PROVE  /\ n \in Nat /\ n < Emptied /\ n \in Open(c) /\ ~Consumed(n)
             /\ \A d \in Consumers \ {c} : n \notin Open(d)
  <2>1. n \in a .. u - 1 /\ n \in f .. u - 1 /\ n \in Nat /\ n < Emptied
    BY <1>2
  <2>2. \A d \in Consumers \ {c} : n \notin Open(d)
    BY <1>3, <1>4, <2>1 DEF ClaimsOK
  <2> QED
    BY <1>3, <2>1, <2>2 DEF Consumed
<1> QED
  BY <1>1, <1>3, <1>5

\* A consumer that is done with a block returns, or goes on to the next block and its entry.
LEMMA NextBlockStep ==
  ASSUME WindowsFit, ShareIInv, ClaimsOK, NEW g \in Histories, StoreOK(g),
         NEW c \in Consumers, SetEmpty(c), ConsumerStep(c)
  PROVE  /\ cpc'[c] \in {"idle", "entry"} /\ Open(c)' = Stop(c) .. Until(c) - 1
         /\ Taken(c)' \subseteq Taken(c) /\ ClaimOK(c)'
         /\ cpc'[c] = "entry" =>
              /\ LookupOK(g, c)' /\ call'[c].got = call[c].got /\ call'[c].first = call[c].first
              /\ At(c)' = Stop(c) /\ First(c)' = First(c) /\ Until(c)' = Until(c)
         /\ cpc'[c] = "idle" => Stop(c) = Until(c)
<1> HIDE DEF Numbers
<1>0. DOMAIN cpc = Consumers /\ DOMAIN call = Consumers
  BY Basics
<1>20. cpc[c] = "empty" /\ headIndex' = headIndex
  BY DEF SetEmpty, counters
<1>1. cpc[c] \in LookupPcs /\ cpc[c] \in ClaimedPcs /\ cpc[c] # "claimed" /\ ClaimOK(c)
  BY <1>20 DEF ClaimedPcs, LookupPcs, ClaimsOK
<1>2. PICK a \in Nat, f \in Nat, u \in Nat, s \in Nat :
        a = At(c) /\ f = First(c) /\ u = Until(c) /\ s = Stop(c)
  BY <1>1, ClaimFacts, StopFacts
<1>3. f <= a /\ a < u /\ u <= Emptied /\ a < s /\ s <= u /\ u < Numbers /\ s < Numbers
  <2>1. f <= a /\ a < u /\ u <= Emptied /\ a < s /\ s <= u
    BY <1>1, <1>2, ClaimFacts, StopFacts
  <2> QED
    BY <1>2, <2>1, Basics
<1>4. PICK m \in Nat : m = Here(c)
  BY <1>1, ClaimFacts
<1>13. PICK i, e : /\ i = Plus(call[c].index, Cardinality(InBlock(c)))
                   /\ e = Plus(call[c].first, call[c].count)
  OBVIOUS
<1>5. PICK n \in Nat : /\ n = Cardinality(InBlock(c)) /\ i = Plus(call[c].index, n)
                       /\ e = Plus(call[c].first, call[c].count)
  <2>1. Cardinality(InBlock(c)) = Stop(c) - At(c)
    BY <1>1, InBlockCount
  <2>2. s - a \in Nat
    BY <1>3
  <2> QED
    BY <1>2, <1>13, <2>1, <2>2
<1>6. /\ call[c].index \in Index /\ call[c].first \in Index /\ f = Number(call[c].first)
      /\ a = Number(call[c].index) /\ u = f + call[c].count /\ call[c].count \in Nat
      /\ n = s - a /\ DOMAIN call[c] = CallFields
  <2>1. n = s - a
    BY <1>1, <1>2, <1>5, InBlockCount
  <2> QED
    BY <1>1, <1>2, <2>1 DEF ClaimOK, At, First, Until
<1>7. i \in Index /\ Number(i) = s
  <2>1. Minus(call[c].index, StartIndex) + n = s
    BY <1>3, <1>6 DEF Number
  <2>2. StartIndex \in Index /\ Minus(call[c].index, StartIndex) + n < Numbers
    BY <1>3, <2>1, HalfRange
  <2> QED
    BY <1>5, <1>6, <2>1, <2>2, Advanced DEF Number
<1>8. e \in Index /\ Number(e) = u
  <2>1. Minus(call[c].first, StartIndex) + call[c].count = u
    BY <1>6 DEF Number
  <2>2. StartIndex \in Index /\ Minus(call[c].first, StartIndex) + call[c].count < Numbers
    BY <1>3, <2>1, HalfRange
  <2> QED
    BY <1>5, <1>6, <2>1, <2>2, Advanced DEF Number
<1>9. i = e <=> s = u
  BY <1>7, <1>8, NumberValue
<1>10. Taken(c) = f .. u - 1
  BY <1>1, <1>2 DEF Taken
<1>11. CASE s = u
  <2>1. ReturnFrom(c)
    BY <1>5, <1>9, <1>11 DEF SetEmpty
  <2>2. cpc'[c] = "idle"
    BY <1>0, <2>1 DEF ReturnFrom, ConsumerGoto
  <2>3. Open(c)' = {} /\ Taken(c)' = {} /\ ClaimOK(c)'
    BY <2>2 DEF Open, Taken, ClaimOK, ClaimedPcs, LookupPcs
  <2>4. Stop(c) .. Until(c) - 1 = {}
    BY <1>2, <1>11
  <2> QED
    BY <1>2, <1>11, <2>2, <2>3, <2>4
<1>12. CASE s # u
  <2>1. PICK j, h : j = call[c].header /\ h = HeaderOf(c)
    OBVIOUS
  <2>20. /\ LookupOK(g, c) /\ headers \in Seq(Headers) /\ j \in 1 .. Len(headers) /\ h = headers[j]
         /\ h \in Headers /\ LastBlock(c) \in Nat
    BY <1>1, <2>1, LookupFacts
  <2>2. /\ cpc'[c] = "entry"
        /\ call'[c] = [call[c] EXCEPT !.index = i, !.block = NoBlock,
                                      !.slot = (@ + 1) % Capacity(h)]
    BY <1>0, <1>5, <1>9, <1>12, <2>1 DEF SetEmpty, ConsumerGoto
  <2>3. /\ call'[c].index = i /\ call'[c].first = call[c].first
        /\ call'[c].count = call[c].count /\ call'[c].header = call[c].header
        /\ call'[c].slot = (call[c].slot + 1) % Capacity(h) /\ DOMAIN call'[c] = CallFields
        /\ call'[c].got = call[c].got
    BY <1>6, <2>2 DEF CallFields
  <2>4. At(c)' = s /\ First(c)' = f /\ Until(c)' = u
    <3>1. At(c)' = s
      BY <1>7, <2>3 DEF At, Number
    <3>2. First(c)' = f
      BY <1>6, <2>2, <2>3 DEF First, Number
    <3> QED
      BY <1>6, <2>3, <3>1, <3>2 DEF Until
  <2>5. s \in Within(m + 1) /\ s = (m + 1) * BlockSize
    <3>1. s = (m + 1) * BlockSize /\ m + 1 \in Nat
      BY <1>1, <1>2, <1>4, <1>12, StopFacts
    <3> QED
      BY <3>1, WithinValue
  <2>6. Here(c)' = m + 1
    <3>1. BlockNo(i) \in Nat /\ s \in Within(BlockNo(i)) /\ m + 1 \in Nat
      BY <1>7, BlockNoValue
    <3>2. BlockNo(i) = m + 1
      BY <2>5, <3>1, WithinUnique
    <3> QED
      BY <2>3, <3>2 DEF Here, BlockNo, Number
  <2>7. LastBlock(c)' = LastBlock(c)
    BY <1>2, <2>4 DEF LastBlock
  <2>8. Open(c)' = s .. u - 1 /\ Taken(c)' = f .. u - 1
    BY <2>2, <2>4 DEF Open, Taken, ClaimedPcs, LookupPcs
  <2>9. ClaimOK(c)'
    <3>1. Emptied' = Emptied
      BY <1>20 DEF Emptied
    <3>3. Here(c)' * BlockSize = s
      BY <2>5, <2>6
    <3>4. s \in f .. u - 1
      BY <1>3, <1>12
    <3> QED
      BY <1>3, <1>6, <1>7, <2>2, <2>3, <2>4, <3>1, <3>3, <3>4 DEF ClaimOK
  <2>10. LookupOK(g, c)'
    <3>1. headers' = headers /\ call'[c].header = j /\ j \in 1 .. Len(headers')
      BY <2>1, <2>3, <2>20, FrameFacts
    <3>2. \A q \in Here(c)' .. LastBlock(c)' : Lists(g, j, q)'
      <4>1. ASSUME NEW q \in m + 1 .. LastBlock(c) PROVE Lists(g, j, q)'
        <5>1. q \in Here(c) .. LastBlock(c)
          BY <1>4, <2>20, <4>1
        <5>2. Lists(g, j, q)
          BY <2>1, <2>20, <5>1 DEF LookupOK
        <5> QED
          BY <3>1, <5>2 DEF Lists, SlotOf
      <4> QED
        BY <2>6, <2>7, <4>1
    <3>3. call'[c].slot = SlotOf(g, j, m + 1)
      <4>1. call[c].slot = SlotOf(g, j, m)
        BY <1>4, <1>20, <2>1, <2>20 DEF LookupOK
      <4>2. m \in Int /\ 1 \in Int
        OBVIOUS
      <4>3. (SlotOf(g, j, m) + 1) % Capacity(h) = SlotOf(g, j, m + 1)
        BY <2>20, <4>2, SlotFacts
      <4> QED
        BY <2>3, <4>1, <4>3
    <3>4. call'[c].slot = SlotOf(g, j, Here(c))'
      BY <2>6, <3>1, <3>3 DEF SlotOf
    <3> HIDE DEF Leads, Lists, SlotOf, Here, LastBlock
    <3> QED
      BY <2>2, <3>1, <3>2, <3>4 DEF LookupOK
  <2> QED
    BY <1>2, <1>10, <2>2, <2>3, <2>4, <2>8, <2>9, <2>10
<1> QED
  BY <1>11, <1>12

\* What has been consumed when a consumer has set the flags of a block.
LEMMA TakenOut ==
  ASSUME WindowsFit, ShareIInv, ClaimsOK, NEW c \in Consumers, cpc[c] = "empty",
         ConsumerStep(c), headIndex' = headIndex, Open(c)' = Stop(c) .. Until(c) - 1
  PROVE  /\ \A n \in Nat : Consumed(n)' <=> Consumed(n) \/ n \in At(c) .. Stop(c) - 1
         /\ \A q \in Nat : q # Here(c) => Used(q)' = Used(q)
         /\ {n % BlockSize : n \in {k \in Within(Here(c)) : Consumed(k)'}}
              = Used(Here(c)) \cup {Slot(i) : i \in InBlock(c)}
<1> HIDE DEF Numbers
<1>1. cpc[c] \in ClaimedPcs /\ cpc[c] \in LookupPcs /\ ClaimOK(c)
  BY DEF ClaimedPcs, LookupPcs, ClaimsOK
<1>2. PICK a \in Nat, u \in Nat, s \in Nat, m \in Nat :
        a = At(c) /\ u = Until(c) /\ s = Stop(c) /\ m = Here(c)
  BY <1>1, ClaimFacts, StopFacts
<1>3. a < s /\ s <= u /\ Open(c) = a .. u - 1 /\ a .. s - 1 \subseteq Within(m)
  BY <1>1, <1>2, ClaimFacts, StopFacts, ElementsLeft
<1>4. \A n \in a .. s - 1 : /\ n \in Nat /\ n < Emptied /\ ~Consumed(n)
                            /\ \A d \in Consumers \ {c} : n \notin Open(d)
  BY <1>1, <1>2, ElementsLeft
<1>5. Emptied' = Emptied /\ Open(c)' = s .. u - 1
  BY <1>2 DEF Emptied
<1>6. ASSUME NEW n \in Nat PROVE Consumed(n)' <=> Consumed(n) \/ n \in a .. s - 1
  <2>1. \A d \in Consumers \ {c} : Open(d)' = Open(d)
    BY FrameFacts
  <2>2. n \in Open(c)' <=> n \in Open(c) /\ n \notin a .. s - 1
    BY <1>2, <1>3, <1>5
  <2>3. CASE n \in a .. s - 1
    BY <1>4, <1>5, <2>1, <2>2, <2>3 DEF Consumed
  <2>4. CASE n \notin a .. s - 1
    BY <1>5, <2>1, <2>2, <2>4 DEF Consumed
  <2> QED
    BY <2>3, <2>4
<1>7. \A q \in Nat : Within(q) \subseteq Nat /\ Within(q)' = Within(q)
  BY WithinValue DEF Within
<1>8. ASSUME NEW q \in Nat, q # m PROVE Used(q)' = Used(q)
  <2>1. ASSUME NEW n \in Within(q) PROVE Consumed(n)' <=> Consumed(n)
    <3>1. n \in Nat
      BY <1>7, <2>1
    <3>2. n \notin a .. s - 1
      BY <1>3, <1>8, <2>1, WithinUnique
    <3> QED
      BY <1>6, <3>1, <3>2
  <2>2. {k \in Within(q)' : Consumed(k)'} = {k \in Within(q) : Consumed(k)}
    BY <1>7, <2>1
  <2> QED
    BY <2>2 DEF Used
<1>9. {Slot(i) : i \in InBlock(c)} = {n % BlockSize : n \in a .. s - 1}
  <2>1. InBlock(c) = {Element(n) : n \in a .. s - 1} /\ \A n \in a .. s - 1 : n \in Index
    BY <1>1, <1>2, InBlockElements
  <2>2. \A n \in a .. s - 1 : Slot(Element(n)) = n % BlockSize
    BY <2>1, ElementValue, BlockNoValue
  <2> QED
    BY <2>1, <2>2
<1>10. {n % BlockSize : n \in {k \in Within(m) : Consumed(k)'}}
         = Used(m) \cup {n % BlockSize : n \in a .. s - 1}
  <2>1. {k \in Within(m) : Consumed(k)'} = {k \in Within(m) : Consumed(k)} \cup (a .. s - 1)
    BY <1>3, <1>6, <1>7
  <2> QED
    BY <2>1 DEF Used
<1> QED
  BY <1>2, <1>6, <1>8, <1>9, <1>10

LEMMA SetEmptyStep ==
  ASSUME WindowsFit, ShareIInv, ClaimsOK, NEW g \in Histories, StoreOK(g),
         NEW c \in Consumers, SetEmpty(c)
  PROVE  ClaimsOK' /\ StoreOK(g)' /\ ConsumerStep(c)
<1> HIDE DEF Numbers
<1>0. DOMAIN cpc = Consumers /\ DOMAIN call = Consumers
  BY Basics
<1>1. cpc[c] = "empty" /\ cpc[c] \in ClaimedPcs /\ cpc[c] \in LookupPcs /\ headIndex' = headIndex
  BY DEF SetEmpty, LookupPcs, ClaimedPcs, counters
<1>2. ConsumerStep(c)
  <2>1. OnlyCaller(c)
    BY <1>0 DEF SetEmpty, ReturnFrom, ConsumerGoto, OnlyCaller
  <2> QED
    BY <2>1 DEF SetEmpty, ConsumerStep, counters
<1>3. /\ cpc'[c] \in {"idle", "entry"} /\ Open(c)' = Stop(c) .. Until(c) - 1
      /\ Taken(c)' \subseteq Taken(c) /\ ClaimOK(c)'
      /\ cpc'[c] = "entry" => LookupOK(g, c)'
  BY <1>2, NextBlockStep
<1>4. RingOK(g)' /\ IndexOK(g)' /\ EnqOK(g)' /\ FrontOK(g)' /\ LookupsOK(g)'
      /\ Oldest(g)' = Oldest(g) /\ ppc # "destroyed"
  <2>1. cpc'[c] \in LookupPcs => LookupOK(g, c)'
    BY <1>3 DEF LookupPcs
  <2> QED
    BY <1>2, <2>1, FramedStore
<1>5. ClaimsOK'
  <2>1. Emptied' = Emptied /\ Emptied \in Nat
    BY <1>1, Basics DEF Emptied
  <2>2. Emptied' \in Nat /\ Emptied <= Emptied'
    BY <2>1
  <2>3. \A d \in Consumers : cpc[d] \in ClaimedPcs => Until(d) \in Nat
    BY ClaimFacts DEF ClaimsOK
  <2>4. \A d \in Consumers \ {c} : Taken(c)' \cap Taken(d) = {}
    BY <1>3 DEF ClaimsOK
  <2> QED
    BY <1>2, <1>3, <1>4, <2>1, <2>2, <2>3, <2>4, ClaimsKept
<1>6. PICK m \in Nat, b \in Blocks : /\ m = Here(c) /\ b = call[c].block /\ b = g.home[m]
                                     /\ m \in Oldest(g) .. Committed - 1
  <2>1. LookupOK(g, c) /\ Here(c) \in Nat
    BY <1>1, LookupFacts
  <2> QED
    BY <1>1, <2>1, EntryFound DEF LookupOK
<1>7. /\ \A n \in Nat : Consumed(n) => Consumed(n)'
      /\ \A q \in Nat : q # m => Used(q)' = Used(q)
      /\ Used(m)' = Used(m) \cup {Slot(i) : i \in InBlock(c)}
  <2>1. /\ \A n \in Nat : Consumed(n)' <=> Consumed(n) \/ n \in At(c) .. Stop(c) - 1
        /\ \A q \in Nat : q # m => Used(q)' = Used(q)
        /\ {n % BlockSize : n \in {k \in Within(m) : Consumed(k)'}}
             = Used(m) \cup {Slot(i) : i \in InBlock(c)}
    BY <1>1, <1>2, <1>3, <1>6, TakenOut
  <2>2. Used(m)' = {n % BlockSize : n \in {k \in Within(m) : Consumed(k)'}}
    BY DEF Used, Within
  <2> QED
    BY <2>1, <2>2
<1>8. PICK S : S = {Slot(i) : i \in InBlock(c)}
  OBVIOUS
<1>9. emptied' = [emptied EXCEPT ![b] = @ \cup S]
  BY <1>6, <1>8 DEF SetEmpty
<1>10. FlagsOK(g)'
  <2>1. FlagsOK(g) /\ RingOK(g) /\ EnqOK(g)
    BY DEF StoreOK
  <2>2. Oldest(g) \in Nat /\ Committed \in Nat /\ g.n \in Nat /\ Committed <= g.n
    BY <2>1, Shape
  <2>3. DOMAIN emptied = Blocks /\ DOMAIN emptied' = Blocks
    BY <1>9, <2>1 DEF FlagsOK
  <2>4. ASSUME NEW q \in Oldest(g) .. g.n - 1, q # m
        PROVE  emptied'[g.home[q]] = emptied[g.home[q]] /\ q \in Nat
    <3>1. m \in Oldest(g) .. g.n - 1 /\ q \in Nat
      BY <1>6, <2>2
    <3>2. g.home[q] # b /\ g.home[q] \in Blocks
      BY <1>6, <2>1, <2>4, <3>1 DEF RingOK
    <3> QED
      BY <1>9, <2>3, <3>1, <3>2
  <2>5. ASSUME NEW q \in Oldest(g) .. Committed - 1 PROVE emptied'[g.home[q]] = Used(q)'
    <3>1. CASE q = m
      <4>1. emptied[b] = Used(m)
        BY <1>6, <2>1 DEF FlagsOK
      <4>2. emptied'[b] = emptied[b] \cup S
        BY <1>9, <2>3
      <4>3. emptied'[b] = Used(m)'
        BY <1>7, <1>8, <4>1, <4>2
      <4> QED
        BY <1>6, <3>1, <4>3
    <3>2. CASE q # m
      <4>1. q \in Oldest(g) .. g.n - 1
        BY <2>2
      <4>2. emptied'[g.home[q]] = emptied[g.home[q]] /\ q \in Nat
        BY <2>4, <3>2, <4>1
      <4>3. emptied[g.home[q]] = Used(q)
        BY <2>1 DEF FlagsOK
      <4> QED
        BY <1>7, <3>2, <4>2, <4>3
    <3> QED
      BY <3>1, <3>2
  <2>6. \A q \in 0 .. Oldest(g) - 1 : \A n \in Within(q) : Consumed(n)'
    <3>1. ASSUME NEW q \in 0 .. Oldest(g) - 1, NEW n \in Within(q) PROVE Consumed(n)'
      <4>1. q \in Nat /\ Consumed(n)
        BY <2>1, <2>2, <3>1 DEF FlagsOK
      <4>2. n \in Nat
        BY <3>1, <4>1, WithinValue
      <4> QED
        BY <1>7, <4>1, <4>2
    <3> QED
      BY <3>1
  <2>7. ASSUME NEW q \in Committed .. g.n - 1
        PROVE  emptied'[g.home[q]]
                 = IF enq.bulk /\ ppc \in ChoosePcs \cup {"reset"} THEN Slots ELSE {}
    <3>1. q \in Oldest(g) .. g.n - 1 /\ q # m
      BY <1>6, <2>1, <2>2, <2>7 DEF RingOK
    <3> QED
      BY <2>1, <2>4, <3>1 DEF FlagsOK
  <2>8. ppc' = ppc /\ enq' = enq /\ Committed' = Committed /\ \A q : Within(q)' = Within(q)
    BY <1>2, FrameFacts DEF Within
  <2> HIDE DEF Used, Consumed, Within
  <2> QED
    BY <1>4, <2>3, <2>5, <2>6, <2>7, <2>8 DEF FlagsOK, Slots
<1> QED
  BY <1>2, <1>4, <1>5, <1>10 DEF StoreOK

LEMMA StutterStep ==
  ASSUME WindowsFit, ShareIInv, ClaimsOK, NEW g \in Histories, StoreOK(g), UNCHANGED vars
  PROVE  ClaimsOK' /\ StoreOK(g)'
<1> HIDE DEF Numbers
<1>1. /\ UNCHANGED <<tailIndex, freeBlocks, emptied, next, headers, tailBlock, pr, ppc, enq>>
      /\ ClaimsStill
  BY DEF vars, claimVars, counters, storage, producerVars, ClaimsStill
<1>2. Filled' = Filled /\ Committed' = Committed /\ Oldest(g)' = Oldest(g) /\ Last' = Last
  BY <1>1, SameTail DEF Oldest, Last
<1>3. Written(g)' = Written(g) /\ Fronted(g)' = Fronted(g) /\ (Unlisted(g)' <=> Unlisted(g))
  BY <1>1, <1>2 DEF Written, Fronted, Unlisted, Lone
<1>4. EnqOK(g)'
  <2>1. CallOK(g)' <=> CallOK(g)
    BY <1>1, <1>2 DEF CallOK
  <2>2. \A m : BaseOf(m)' = BaseOf(m)
    BY DEF BaseOf
  <2>3. Capacity(Last)' = Capacity(Last) /\ Last' = Last
    BY <1>2 DEF Capacity
  <2>4. BaseOf(Committed)' = BaseOf(Committed)
    BY <1>2 DEF BaseOf
  <2>5. EnqOK(g)
    BY DEF StoreOK
  <2> HIDE DEF BaseOf, Capacity, CallOK, Last, Committed, Filled
  <2> QED
    BY <1>1, <1>2, <1>3, <2>1, <2>2, <2>3, <2>4, <2>5 DEF EnqOK
<1>5. FrontOK(g)'
  BY <1>1, <1>2 DEF StoreOK, FrontOK, Published, SlotOf, Last, Capacity
<1>6. ClaimsOK'
  <2>1. ppc' = "destroyed" => \A c \in Consumers : cpc[c] = "idle"
    BY <1>1 DEF ClaimsOK
  <2> QED
    BY <1>1, <2>1, ClaimsStillStep
<1>7. \/ g.n = Committed
      \/ /\ enq'.bulk = enq.bulk
         /\ ppc' \in ChoosePcs \cup {"reset"} <=> ppc \in ChoosePcs \cup {"reset"}
  BY <1>1
<1>8. UNCHANGED <<tailIndex, freeBlocks, emptied, next, headers, tailBlock, pr>>
  BY <1>1
<1> QED
  BY <1>1, <1>3, <1>4, <1>5, <1>6, <1>7, <1>8, ControlStep

\* The producer's steps.
LEMMA EnqueueInv ==
  ASSUME WindowsFit, ~PartialFailure, ~ThrowsLate, ShareIInv, ClaimsOK,
         NEW g \in Histories, StoreOK(g), Enqueue
  PROVE  ClaimsOK' /\ \E f \in Histories : StoreOK(f)' /\ SameHomes(g, f)
<1> HIDE DEF Numbers
<1>1. ClaimsOK'
  <2>1. ClaimsStill /\ ppc' # "destroyed"
    BY DEF Enqueue, BeginEnqueue, ReuseAhead, NothingAhead, CheckRoom, Grow, CannotGrow,
       Requisition, NoRequisition, Undo, Restore, ResetBlocks, AddIndexEntry, StoreFront,
       Construct, Throw, Commit, ConstructOrPublish, EndCall, ProducerGoto,
       ClaimsStill, claimVars, counters
  <2> QED
    BY <2>1, ClaimsStillStep
<1>2. ASSUME StoreOK(g)' PROVE \E f \in Histories : StoreOK(f)' /\ SameHomes(g, f)
  BY <1>2 DEF SameHomes
<1>3. CASE \E n \in {1, MaxBulk} : \E bulk \in BOOLEAN : BeginEnqueue(n, bulk)
  <2>1. PICK n \in {1, MaxBulk}, bulk \in BOOLEAN : BeginEnqueue(n, bulk)
    BY <1>3
  <2> QED
    BY <1>1, <1>2, <2>1, BeginEnqueueStep
<1>4. CASE NothingAhead \/ CheckRoom \/ CannotGrow \/ NoRequisition
  BY <1>1, <1>2, <1>4, WaitStep
<1>5. CASE Undo \/ Throw
  BY <1>1, <1>2, <1>5, FailStep
<1>6. CASE ReuseAhead
  BY <1>1, <1>6, ReuseAheadStep
<1>7. CASE Requisition
  BY <1>1, <1>7, RequisitionStep
<1>8. CASE Grow
  BY <1>1, <1>8, GrowStep
<1>9. CASE ResetBlocks
  BY <1>1, <1>2, <1>9, ResetBlocksStep
<1>10. CASE AddIndexEntry
  BY <1>1, <1>2, <1>10, AddIndexEntryStep
<1>11. CASE StoreFront
  BY <1>1, <1>2, <1>11, StoreFrontStep
<1>12. CASE Construct
  BY <1>1, <1>2, <1>12, ConstructStep
<1>13. CASE Commit
  BY <1>1, <1>2, <1>13, CommitStep
<1> QED
  BY <1>3, <1>4, <1>5, <1>6, <1>7, <1>8, <1>9, <1>10, <1>11, <1>12, <1>13 DEF Enqueue

\* The consumers' steps.
LEMMA DequeueInv ==
  ASSUME WindowsFit, ShareIInv, ClaimsOK, NEW g \in Histories, StoreOK(g),
         NEW c \in Consumers, Dequeue(c)
  PROVE  ClaimsOK' /\ StoreOK(g)'
<1> HIDE DEF Numbers
<1> QED
  BY ShareOutStep, LoadHeaderStep, LoadFrontStep, LoadBaseStep, MoveStep, SetEmptyStep DEF Dequeue

LEMMA DestroyStep ==
  ASSUME Destroy
  PROVE  ClaimsOK' /\ ppc = "idle" /\ ppc' = "destroyed" /\ \A c \in Consumers : cpc'[c] = "idle"
<1>1. ppc' = "destroyed" /\ ppc = "idle" /\ \A c \in Consumers : cpc'[c] = "idle"
  BY DEF Destroy, ProducerGoto, claimVars
<1>2. \A c \in Consumers : ClaimOK(c)' /\ Taken(c)' = {}
  BY <1>1 DEF ClaimOK, Taken, ClaimedPcs, LookupPcs
<1> QED
  BY <1>1, <1>2 DEF ClaimsOK

\* When everything is destroyed, nothing happens any more.
LEMMA DestroyedStep ==
  ASSUME ShareIInv, ClaimsOK, ppc = "destroyed", [Next]_vars
  PROVE  UNCHANGED vars
<1>1. ~Enqueue /\ ~Destroy
  BY DEF Enqueue, Destroy, BeginEnqueue, ReuseAhead, NothingAhead, CheckRoom, Grow, CannotGrow,
     Requisition, NoRequisition, Undo, ResetBlocks, AddIndexEntry, StoreFront, Construct,
     Throw, Commit
<1>2. ASSUME NEW c \in Consumers, Dequeue(c) PROVE FALSE
  <2>1. cpc[c] = "idle"
    BY DEF ClaimsOK
  <2> QED
    BY <1>2, <2>1 DEF Dequeue, Begin, Share, Sharing, LoadOvercommit, Examine, Promise, Reload,
       GiveBack, Claim, LoadHeader, LoadFront, LoadBase, Move, SetEmpty
<1> QED
  BY <1>1, <1>2 DEF Next

LEMMA InitIInv ==
  ASSUME Init
  PROVE  ClaimsOK /\ \E g \in Histories : StoreOK(g)
<1> HIDE DEF Numbers
<1>1. /\ ClaimInit /\ freeBlocks = Blocks /\ emptied = [b \in Blocks |-> {}]
      /\ next = [b \in Blocks |-> NoBlock] /\ tailBlock = NoBlock
      /\ pr = [front |-> 0, used |-> 0] /\ ppc = "idle" /\ enq = NoEnqueue
      /\ headers = <<Header(-1, [s \in 0 .. InitialIndexSize - 1 |-> NoEntry])>> \/ headers = << >>
  BY DEF Init
<1>2. \A c \in Consumers : cpc[c] = "idle"
  BY <1>1 DEF ClaimInit
<1>3. ClaimsOK
  <2>1. \A c \in Consumers : ClaimOK(c) /\ Taken(c) = {}
    BY <1>2 DEF ClaimOK, Taken, ClaimedPcs, LookupPcs
  <2> QED
    BY <1>2, <2>1 DEF ClaimsOK
<1>4. Filled = 0
  <2>1. StartIndex \in Index
    BY HalfRange
  <2>2. Minus(StartIndex, StartIndex) = StartIndex - StartIndex /\ StartIndex \in Int
    BY <2>1, MinusValue, HalfRange DEF Index
  <2> QED
    BY <1>1, <2>2 DEF Filled, ClaimInit
<1>5. Committed = 0
  <2>1. BlockSize \in Nat \ {0} /\ BlockSize - 1 \in Int
    BY BlockFacts
  <2>2. BlockSize - 1 \in 0 * BlockSize .. 0 * BlockSize + BlockSize - 1 /\ 0 \in Int
    BY <2>1
  <2>3. (BlockSize - 1) \div BlockSize = 0
    BY <2>1, <2>2, Quotient
  <2>4. 0 + BlockSize - 1 = BlockSize - 1
    BY <2>1
  <2> QED
    BY <1>4, <2>3, <2>4 DEF Committed
<1>6. PICK g \in Histories : /\ g.n = 0 /\ g.org = [j \in Int |-> 0]
                             /\ g.home = [m \in Int |-> NoBlock]
  <2>1. [home |-> [m \in Int |-> NoBlock], org |-> [j \in Int |-> 0], n |-> 0] \in Histories
    BY DEF Histories
  <2> QED
    BY <2>1
<1>7. Oldest(g) = 0 /\ Written(g) = 0 /\ Fronted(g) = 0 /\ ~Unlisted(g)
  BY <1>1, <1>5, <1>6 DEF Oldest, Written, Fronted, Unlisted, Lone
<1>8. RingOK(g)
  BY <1>1, <1>5, <1>6, <1>7 DEF RingOK
<1>9. IndexOK(g)
  <2>1. InitialIndexSize \in Nat \ {0} /\ NoEntry \in Entries
    BY ExplicitAssumption DEF ExplicitAssumption, NoEntry, Entries
  <2>2. PICK h : h = Header(-1, [s \in 0 .. InitialIndexSize - 1 |-> NoEntry])
    OBVIOUS
  <2>3. h \in Headers
    <3>1. h \in [front : Int, entries : [0 .. InitialIndexSize - 1 -> Entries]]
      BY <2>1, <2>2 DEF Header
    <3> QED
      BY <2>1, <3>1 DEF Headers
  <2>4. headers \in Seq(Headers)
    <3>1. <<h>> \in Seq(Headers) /\ << >> \in Seq(Headers)
      BY <2>3
    <3>2. headers = <<h>> \/ headers = << >>
      BY <1>1, <2>2
    <3> QED
      BY <3>1, <3>2
  <2>5. headers # << >> =>
          /\ pr.used <= Capacity(Last) /\ pr.front = SlotOf(g, Len(headers), Fronted(g))
    <3> SUFFICES ASSUME headers # << >>
                 PROVE  pr.used <= Capacity(Last) /\ pr.front = SlotOf(g, Len(headers), Fronted(g))
      OBVIOUS
    <3>1. Len(headers) \in Int /\ Last = headers[Len(headers)] /\ Capacity(Last) \in Nat \ {0}
      BY <2>4, LastFacts
    <3>2. g.org[Len(headers)] + 0 = 0
      BY <1>6, <3>1
    <3>3. 0 % Capacity(Last) = 0
      <4>1. 0 \in 0 .. Capacity(Last) - 1 /\ 0 \in Int
        BY <3>1
      <4> QED
        BY <3>1, <4>1, RingWrap
    <3> QED
      BY <1>1, <1>7, <3>1, <3>2, <3>3 DEF SlotOf
  <2> QED
    BY <1>1, <1>5, <1>7, <2>4, <2>5 DEF IndexOK
<1>10. EnqOK(g)
  <2>1. enq \in EnqueueRecords
    BY <1>1 DEF NoEnqueue, EnqueueRecords
  <2> QED
    BY <1>1, <1>5, <1>6, <1>7, <2>1 DEF EnqOK, ChoosePcs, ChosenPcs
<1>11. FlagsOK(g)
  BY <1>1, <1>5, <1>6, <1>7 DEF FlagsOK
<1>12. LookupsOK(g) /\ FrontOK(g)
  BY <1>1, <1>2 DEF LookupsOK, FrontOK, Published, LookupPcs
<1> QED
  BY <1>3, <1>8, <1>9, <1>10, <1>11, <1>12 DEF StoreOK

\* The inductive invariant: whichever blocks the producer has used again, however it has
\* grown the index, and whatever consumers have loaded before.
LEMMA IInvariance ==
  ASSUME WindowsFit, ~PartialFailure, ~ThrowsLate
  PROVE  Spec => []IInv
<1> HIDE DEF Numbers
<1>1. Init /\ ShareIInv => IInv
  BY InitIInv DEF IInv
<1>2. IInv /\ [Next]_vars /\ ShareIInv' => IInv'
  <2> SUFFICES ASSUME IInv, [Next]_vars, ShareIInv' PROVE IInv'
    OBVIOUS
  <2>1. ShareIInv /\ ClaimsOK
    BY DEF IInv
  <2>2. CASE ppc = "destroyed"
    <3>1. UNCHANGED vars
      BY <2>1, <2>2, DestroyedStep
    <3>2. ppc' = "destroyed" /\ ClaimsStill
      BY <2>2, <3>1 DEF vars, claimVars, counters, producerVars, ClaimsStill
    <3>3. ClaimsOK'
      BY <2>1, <2>2, <3>2, ClaimsStillStep DEF ClaimsOK
    <3> QED
      BY <3>2, <3>3 DEF IInv
  <2>3. CASE ppc # "destroyed"
    <3>1. PICK g \in Histories : StoreOK(g)
      BY <2>3 DEF IInv
    <3>2. CASE Enqueue
      BY <2>1, <3>1, <3>2, EnqueueInv DEF IInv
    <3>3. ASSUME NEW c \in Consumers, Dequeue(c) PROVE IInv'
      BY <2>1, <3>1, <3>3, DequeueInv DEF IInv
    <3>4. CASE Destroy
      BY <3>4, DestroyStep DEF IInv
    <3>5. CASE UNCHANGED vars
      BY <2>1, <3>1, <3>5, StutterStep DEF IInv
    <3> QED
      BY <3>2, <3>3, <3>4, <3>5 DEF Next
  <2> QED
    BY <2>2, <2>3
<1>3. Spec => []ShareIInv
  BY ShareInvariance
<1> QED
  BY <1>1, <1>2, <1>3, PTL DEF Spec

\* An explicit producer may fill the index, overwrite the slots of blocks that it uses
\* again and replace the index by one twice as large between any two loads of a consumer
\* (concurrentqueue.h:1925-1934): the slot that the consumer computes lists its block.
THEOREM LookupsAlwaysSound ==
  ASSUME WindowsFit, ~PartialFailure, ~ThrowsLate
  PROVE  Spec => []LookupSound
<1>1. IInv => LookupSound
  <2> HIDE DEF Numbers
  <2> SUFFICES ASSUME IInv, NEW c \in Consumers
               PROVE  /\ cpc[c] = "base" =>
                           /\ call[c].slot \in DOMAIN HeaderOf(c).entries
                           /\ HeaderOf(c).entries[call[c].slot] # NoEntry
                      /\ cpc[c] = "entry" => EntryOf(c).base = Base(call[c].index)
    BY DEF LookupSound
  <2>1. CASE cpc[c] = "base"
    <3>1. ShareIInv /\ ClaimsOK /\ ppc # "destroyed"
      BY <2>1 DEF IInv, ClaimsOK
    <3>2. PICK g \in Histories : StoreOK(g)
      BY <3>1 DEF IInv
    <3>3. /\ call[c].slot \in DOMAIN HeaderOf(c).entries
          /\ HeaderOf(c).entries[call[c].slot].base # -1
      BY <2>1, <3>1, <3>2, BaseFound
    <3> QED
      BY <2>1, <3>3 DEF NoEntry
  <2>2. CASE cpc[c] = "entry"
    <3>1. ShareIInv /\ ClaimsOK /\ ppc # "destroyed"
      BY <2>2 DEF IInv, ClaimsOK
    <3>2. PICK g \in Histories : StoreOK(g)
      BY <3>1 DEF IInv
    <3> QED
      BY <2>2, <3>1, <3>2, EntryFound
  <2> QED
    BY <2>1, <2>2
<1> QED
  BY <1>1, IInvariance, PTL

------------------------------------------------------------------------------
(* What is in the blocks.                                                  *)

\* A consumer has moved out its elements up to Moved.
Moved(c) == IF cpc[c] = "empty" THEN Stop(c) ELSE At(c)
Unmoved(c) == IF cpc[c] \in ClaimedPcs THEN Moved(c) .. Until(c) - 1 ELSE {}

\* The batch is constructed, before its blocks are published or after.
Made == ppc = "commit" \/ (ppc \in {"entry", "front"} /\ ~enq.noexcept)

\* The elements that are constructed and not yet moved out.
Constructed == IF Made THEN Filled + enq.count ELSE Filled
Stored == {n \in 0 .. Constructed - 1 : n >= Emptied \/ \E c \in Consumers : n \in Unmoved(c)}

Home(g, n) == g.home[n \div BlockSize]

\* Each is in its place, and nothing else is in any block.
CellsOK(g) ==
  /\ DOMAIN cell = Blocks /\ \A b \in Blocks : DOMAIN cell[b] = Slots
  /\ \A n \in Stored : cell[Home(g, n)][n % BlockSize] = Element(n)
  /\ \A b \in Blocks : \A s \in Slots : cell[b][s] # Vacant =>
       \E n \in Stored : Home(g, n) = b /\ n % BlockSize = s

\* What a consumer has got.
GotOK(c) ==
  cpc[c] \in LookupPcs =>
    call[c].got = [k \in 1 .. Moved(c) - First(c) |-> Plus(call[c].first, k - 1)]

CInv ==
  /\ ShareIInv /\ ClaimsOK /\ \A c \in Consumers : GotOK(c)
  /\ ppc # "destroyed" => \E g \in Histories : StoreOK(g) /\ CellsOK(g)
  /\ DestroysAll

\* What a consumer has yet to move out.
LEMMA UnmovedFacts ==
  ASSUME WindowsFit, ShareIInv, NEW c \in Consumers, ClaimOK(c), cpc[c] \in ClaimedPcs
  PROVE  /\ Moved(c) \in Nat /\ First(c) <= Moved(c) /\ Moved(c) <= Until(c)
         /\ First(c) \in Nat /\ Until(c) \in Nat /\ Until(c) <= Emptied
         /\ Unmoved(c) \subseteq Open(c) /\ Unmoved(c) \subseteq Taken(c)
         /\ Unmoved(c) = Moved(c) .. Until(c) - 1
<1> HIDE DEF Numbers
<1>1. /\ At(c) \in Nat /\ First(c) \in Nat /\ Until(c) \in Nat /\ First(c) <= At(c)
      /\ At(c) < Until(c) /\ Until(c) <= Emptied
  BY ClaimFacts
<1>2. Stop(c) \in Nat /\ At(c) < Stop(c) /\ Stop(c) <= Until(c)
  BY StopFacts
<1>3. Moved(c) \in Nat /\ At(c) <= Moved(c) /\ Moved(c) <= Until(c)
  BY <1>1, <1>2 DEF Moved
<1>4. Unmoved(c) = Moved(c) .. Until(c) - 1
  BY DEF Unmoved
<1>5. Unmoved(c) \subseteq Open(c)
  <2>1. Open(c) = At(c) .. Until(c) - 1
    BY DEF Open
  <2> QED
    BY <1>1, <1>3, <1>4, <2>1
<1>6. Unmoved(c) \subseteq Taken(c)
  <2>1. Taken(c) = First(c) .. Until(c) - 1
    BY DEF Taken
  <2> QED
    BY <1>1, <1>3, <1>4, <2>1
<1> QED
  BY <1>1, <1>3, <1>4, <1>5, <1>6

\* The constructed elements have blocks.
LEMMA ConstructedFacts ==
  ASSUME WindowsFit, ShareIInv, NEW g \in Histories, RingOK(g), EnqOK(g)
  PROVE  /\ Constructed \in Nat /\ Filled <= Constructed /\ Constructed <= MaxEnqueued
         /\ Constructed <= g.n * BlockSize /\ g.n * BlockSize \in Nat
<1> HIDE DEF Numbers
<1>1. /\ Filled \in Nat /\ Filled <= MaxEnqueued /\ MaxEnqueued \in Nat
      /\ BlockSize \in Nat \ {0}
  BY Basics
<1>2. Filled + enq.count <= MaxEnqueued /\ enq.count \in Nat
  BY DEF ShareIInv, EnqueueFits
<1>3. /\ Committed \in Nat /\ g.n \in Nat /\ Committed <= g.n /\ g.n * BlockSize \in Nat
  BY Shape
<1>4. Filled <= Committed * BlockSize /\ Committed * BlockSize \in Nat
  BY CommittedValue
<1>5. Committed * BlockSize <= g.n * BlockSize
  <2>1. CASE Committed = g.n
    BY <1>4, <2>1
  <2>2. CASE Committed < g.n
    <3>1. Committed * BlockSize + BlockSize <= g.n * BlockSize
      BY <1>1, <1>3, <2>2, Multiples
    <3> QED
      BY <1>1, <1>3, <1>4, <3>1
  <2> QED
    BY <1>3, <2>1, <2>2
<1>6. CASE Made
  <2>1. ppc \in ChosenPcs
    BY <1>6 DEF Made, ChosenPcs
  <2>2. Filled + enq.count <= g.n * BlockSize
    BY <2>1 DEF EnqOK
  <2> QED
    BY <1>1, <1>2, <1>3, <1>6, <2>2 DEF Constructed
<1>7. CASE ~Made
  BY <1>1, <1>3, <1>4, <1>5, <1>7 DEF Constructed
<1> QED
  BY <1>6, <1>7

\* The elements that are stored are in blocks of the ring.
LEMMA StoredFacts ==
  ASSUME WindowsFit, ShareIInv, ClaimsOK, NEW g \in Histories, StoreOK(g), NEW n \in Stored
  PROVE  /\ n \in Nat /\ n < MaxEnqueued /\ n \in Index /\ ~Consumed(n)
         /\ n \div BlockSize \in Oldest(g) .. g.n - 1 /\ n \div BlockSize \in Nat
         /\ n % BlockSize \in Slots
         /\ n \in Within(n \div BlockSize) /\ Home(g, n) \in Blocks \ freeBlocks
<1> HIDE DEF Numbers
<1>0. RingOK(g) /\ EnqOK(g) /\ FlagsOK(g)
  BY DEF StoreOK
<1>1. /\ Filled \in Nat /\ Emptied \in Nat /\ Emptied <= Filled /\ Filled <= MaxEnqueued
      /\ MaxEnqueued \in Nat /\ MaxEnqueued < Numbers \div 2
      /\ Numbers \div 2 < Numbers /\ Numbers \in Nat /\ Numbers \div 2 \in Nat
      /\ BlockSize \in Nat \ {0}
  BY Basics
<1>2. /\ Constructed \in Nat /\ Constructed <= MaxEnqueued
      /\ Constructed <= g.n * BlockSize /\ g.n * BlockSize \in Nat
  BY <1>0, ConstructedFacts
<1>3. n \in 0 .. Constructed - 1
  BY DEF Stored
<1>4. n \in Nat /\ n < MaxEnqueued /\ n \in Index
  BY <1>1, <1>2, <1>3 DEF Index
<1>5. ~Consumed(n)
  <2>1. CASE n >= Emptied
    BY <1>1, <1>4, <2>1 DEF Consumed
  <2>2. CASE \E c \in Consumers : n \in Unmoved(c)
    <3>1. PICK c \in Consumers : n \in Unmoved(c)
      BY <2>2
    <3>2. ClaimOK(c) /\ cpc[c] \in ClaimedPcs
      BY <3>1 DEF ClaimsOK, Unmoved
    <3>3. n \in Open(c)
      BY <3>1, <3>2, UnmovedFacts
    <3> QED
      BY <3>3 DEF Consumed
  <2> QED
    BY <2>1, <2>2 DEF Stored
<1>6. PICK m \in Nat : m = n \div BlockSize /\ n \in Within(m) /\ n % BlockSize \in Slots
  BY <1>4, QuotientWithin
<1>7. g.n \in Nat /\ Oldest(g) \in Nat
  BY <1>0, Shape
<1>8. m < g.n
  <2>1. m * BlockSize \in Nat /\ m * BlockSize <= n
    BY <1>6, WithinValue
  <2>2. m * BlockSize < g.n * BlockSize
    BY <1>2, <1>3, <1>4, <2>1
  <2>3. m \in Int /\ g.n \in Int
    BY <1>6, <1>7
  <2> QED
    BY <1>1, <2>2, <2>3, Order
<1>9. Oldest(g) <= m
  <2>1. \A k \in 0 .. Oldest(g) - 1 : \A p \in Within(k) : Consumed(p)
    BY <1>0 DEF FlagsOK
  <2>2. m \notin 0 .. Oldest(g) - 1
    BY <1>5, <1>6, <2>1
  <2> QED
    BY <1>6, <1>7, <2>2
<1>10. m \in Oldest(g) .. g.n - 1
  BY <1>6, <1>7, <1>8, <1>9
<1>11. Home(g, n) \in Blocks \ freeBlocks
  BY <1>0, <1>6, <1>10 DEF Home, RingOK
<1> QED
  BY <1>4, <1>5, <1>6, <1>10, <1>11

\* Two elements are in different places.
LEMMA HomesApart ==
  ASSUME NEW g \in Histories, RingOK(g), NEW n \in Nat, NEW p \in Nat,
         n \div BlockSize \in Oldest(g) .. g.n - 1, p \div BlockSize \in Oldest(g) .. g.n - 1,
         Home(g, n) = Home(g, p), n % BlockSize = p % BlockSize
  PROVE  n = p
<1> HIDE DEF Numbers
<1>2. n \div BlockSize = p \div BlockSize
  BY DEF Home, RingOK
<1>3. /\ n = (n \div BlockSize) * BlockSize + (n % BlockSize)
      /\ p = (p \div BlockSize) * BlockSize + (p % BlockSize)
  BY QuotientWithin
<1> QED
  BY <1>2, <1>3

LEMMA UnmovedStill ==
  ASSUME ClaimsStill
  PROVE  Emptied' = Emptied /\ \A c \in Consumers : Unmoved(c)' = Unmoved(c) /\ Moved(c)' = Moved(c)
<1>1. /\ Emptied' = Emptied
      /\ \A c \in Consumers : At(c)' = At(c) /\ Until(c)' = Until(c) /\ Here(c)' = Here(c)
  BY SameClaims
<1>2. cpc' = cpc
  BY DEF ClaimsStill
<1>3. \A c \in Consumers : Stop(c)' = Stop(c)
  BY <1>1 DEF Stop
<1> QED
  BY <1>1, <1>2, <1>3 DEF Unmoved, Moved

\* Elements and blocks that stay where they are.
LEMMA CellsStill ==
  ASSUME WindowsFit, ShareIInv, ClaimsOK, NEW g \in Histories, StoreOK(g), CellsOK(g),
         NEW f \in Histories, SameHomes(g, f), cell' = cell, Stored' = Stored
  PROVE  CellsOK(f)'
<1> HIDE DEF Numbers
<1>1. g.n \in Nat
  BY DEF Histories
<1>2. \A n \in Stored : Home(f, n)' = Home(g, n)
  <2> TAKE n \in Stored
  <2>1. n \div BlockSize \in Oldest(g) .. g.n - 1 /\ n \div BlockSize \in Nat
    BY StoredFacts
  <2>2. n \div BlockSize \in Int /\ n \div BlockSize # g.n
    BY <1>1, <2>1
  <2> QED
    BY <2>2 DEF SameHomes, Home
<1>3. \A n : Element(n)' = Element(n)
  BY DEF Element, Plus
<1>4. /\ DOMAIN cell = Blocks /\ \A b \in Blocks : DOMAIN cell[b] = Slots
      /\ \A n \in Stored : cell[Home(g, n)][n % BlockSize] = Element(n)
      /\ \A b \in Blocks : \A s \in Slots : cell[b][s] # Vacant =>
           \E n \in Stored : Home(g, n) = b /\ n % BlockSize = s
  BY DEF CellsOK
<1>5. \A n \in Stored' : cell'[Home(f, n)'][n % BlockSize] = Element(n)
  BY <1>2, <1>4
<1>6. \A b \in Blocks : \A s \in Slots : cell'[b][s] # Vacant =>
        \E n \in Stored' : Home(f, n)' = b /\ n % BlockSize = s
  <2> TAKE b \in Blocks
  <2> TAKE s \in Slots
  <2> HAVE cell'[b][s] # Vacant
  <2>1. PICK n \in Stored : Home(g, n) = b /\ n % BlockSize = s
    BY <1>4
  <2> QED
    BY <1>2, <2>1
<1> QED
  BY <1>4, <1>5, <1>6 DEF CellsOK, Home, Element, Plus

\* What is constructed once is constructed until its batch is committed.
LEMMA StoredStill ==
  ASSUME WindowsFit, ShareIInv, ClaimsOK, NEW g \in Histories, StoreOK(g), Enqueue, ~Construct
  PROVE  cell' = cell /\ Stored' = Stored
<1> HIDE DEF Numbers
<1>1. enq \in EnqueueRecords
  BY DEF StoreOK, EnqOK
<1>2. cell' = cell /\ ClaimsStill
  BY DEF Enqueue, BeginEnqueue, ReuseAhead, NothingAhead, CheckRoom, Grow, CannotGrow,
     Requisition, NoRequisition, Undo, ResetBlocks, AddIndexEntry, StoreFront,
     Throw, Commit, storage, ClaimsStill, claimVars, counters
<1>3. Constructed' = Constructed
  <2>1. CASE Commit
    <3>1. ppc = "commit" /\ ppc' = "idle" /\ Filled' = Filled + enq.count
      BY <2>1, CommitStep DEF Commit, EndCall, ProducerGoto
    <3> QED
      BY <3>1 DEF Constructed, Made
  <2>2. ASSUME tailIndex' = tailIndex, Made' <=> Made, Made => enq'.count = enq.count
        PROVE  Constructed' = Constructed
    BY <2>2, SameTail DEF Constructed
  <2>3. CASE AddIndexEntry \/ StoreFront
    BY <2>2, <2>3 DEF AddIndexEntry, StoreFront, ProducerGoto, Made
  <2>4. ASSUME ~Made, tailIndex' = tailIndex,
               ppc' \in {"idle", "construct", "ahead", "room", "grow", "requisition", "reset", "undo"}
        PROVE  Constructed' = Constructed
    <3>1. ~Made'
      BY <2>4 DEF Made
    <3> QED
      BY <2>2, <2>4, <3>1
  <2>5. ASSUME ~Made, tailIndex' = tailIndex,
               NEW publish \in {"entry", "front"}, ConstructOrPublish(publish)
        PROVE  Constructed' = Constructed
    <3>1. PICK noexcept \in BOOLEAN :
            /\ enq' = [enq EXCEPT !.noexcept = noexcept]
            /\ ppc' = IF noexcept THEN publish ELSE "construct"
      BY <2>5 DEF ConstructOrPublish, ProducerGoto
    <3>2. enq'.noexcept = noexcept
      BY <1>1, <3>1 DEF EnqueueRecords
    <3>3. ~Made'
      BY <2>5, <3>1, <3>2 DEF Made
    <3> QED
      BY <2>2, <2>5, <3>3
  <2>6. CASE \E n \in {1, MaxBulk} : \E bulk \in BOOLEAN : BeginEnqueue(n, bulk)
    <3>1. ppc = "idle" /\ tailIndex' = tailIndex /\ ppc' \in {"construct", "ahead"}
      BY <2>6 DEF BeginEnqueue, ProducerGoto
    <3> QED
      BY <2>4, <3>1 DEF Made
  <2>7. CASE NothingAhead \/ CheckRoom \/ Grow \/ CannotGrow \/ NoRequisition \/ Undo \/ Throw
    <3>1. /\ ppc \in {"ahead", "room", "grow", "requisition", "undo", "construct"}
          /\ tailIndex' = tailIndex /\ ppc' \in {"idle", "room", "grow", "requisition", "undo"}
      BY <2>7 DEF NothingAhead, CheckRoom, Grow, CannotGrow, NoRequisition, Undo, Throw,
         Restore, EndCall, ProducerGoto
    <3> QED
      BY <2>4, <3>1 DEF Made
  <2>8. CASE ReuseAhead
    <3>1. ppc = "ahead" /\ tailIndex' = tailIndex
      BY <2>8 DEF ReuseAhead
    <3>2. ppc' \in {"ahead", "reset"} \/ ConstructOrPublish("entry")
      BY <2>8 DEF ReuseAhead, ProducerGoto
    <3> QED
      BY <2>4, <2>5, <3>1, <3>2 DEF Made
  <2>9. CASE Requisition
    <3>1. ppc = "requisition" /\ tailIndex' = tailIndex
      BY <2>9 DEF Requisition
    <3>2. ppc' \in {"room", "reset"} \/ ConstructOrPublish("entry")
      BY <2>9 DEF Requisition, ProducerGoto
    <3> QED
      BY <2>4, <2>5, <3>1, <3>2 DEF Made
  <2>10. CASE ResetBlocks
    BY <2>5, <2>10 DEF ResetBlocks, Made
  <2> QED
    BY <2>1, <2>3, <2>6, <2>7, <2>8, <2>9, <2>10 DEF Enqueue
<1>4. Emptied' = Emptied /\ \A c \in Consumers : Unmoved(c)' = Unmoved(c)
  BY <1>2, UnmovedStill
<1> QED
  BY <1>2, <1>3, <1>4 DEF Stored

\* The block that the tail is in, and where the producer finds it.
TailNo == Filled \div BlockSize

LEMMA TailBlockNo ==
  ASSUME WindowsFit, ShareIInv
  PROVE  /\ TailNo \in Nat /\ TailNo * BlockSize \in Index /\ TailNo * BlockSize <= Filled
         /\ Base(tailIndex) = BaseOf(TailNo) /\ Slot(tailIndex) = Filled % BlockSize
         /\ Slot(tailIndex) \in Slots
         /\ Filled = TailNo * BlockSize + Slot(tailIndex)
         /\ Committed = IF Slot(tailIndex) = 0 THEN TailNo ELSE TailNo + 1
<1> HIDE DEF Numbers
<1>1. Filled \in Nat /\ tailIndex \in Index /\ BlockSize \in Nat \ {0}
  BY Basics
<1>2. Filled = Number(tailIndex) /\ TailNo = BlockNo(tailIndex)
  BY DEF Filled, Number, TailNo, BlockNo
<1>3. /\ TailNo \in Nat /\ TailNo * BlockSize \in Index
      /\ Base(tailIndex) = BaseOf(TailNo) /\ Slot(tailIndex) = Filled % BlockSize
  BY <1>1, <1>2, BlockNoValue
<1>4. PICK r \in Slots, p \in Nat : /\ r = Slot(tailIndex) /\ p = TailNo * BlockSize
                                    /\ Filled = p + r
  <2>1. Filled % BlockSize \in Slots /\ Filled = TailNo * BlockSize + (Filled % BlockSize)
    BY <1>1, QuotientWithin DEF TailNo
  <2>2. TailNo * BlockSize \in Nat
    BY <1>1, <1>3
  <2> QED
    BY <1>3, <2>1, <2>2
<1>5. PICK k \in Nat \ {0}, f \in Nat : k = BlockSize /\ f = Filled
  BY <1>1
<1>6. r \in Nat /\ r < k
  BY <1>4, <1>5 DEF Slots
<1>7. CASE r = 0
  <2>1. (f + k) - 1 \in TailNo * k .. TailNo * k + k - 1
    BY <1>3, <1>4, <1>5, <1>7
  <2>2. (f + k) - 1 \in Int /\ TailNo \in Int
    BY <1>3, <1>5
  <2>3. ((f + k) - 1) \div k = TailNo
    BY <1>5, <2>1, <2>2, Quotient
  <2>4. Committed = TailNo
    <3>1. Committed = (f + k - 1) \div k
      BY <1>5 DEF Committed
    <3>2. f + k - 1 = (f + k) - 1
      BY <1>5
    <3> QED
      BY <2>3, <3>1, <3>2
  <2> QED
    BY <1>3, <1>4, <1>7, <2>4
<1>8. CASE r # 0
  <2>0. (TailNo + 1) * k = TailNo * k + k /\ TailNo * k = p /\ p \in Nat
    BY <1>3, <1>4, <1>5
  <2>1. (f + k) - 1 \in (TailNo + 1) * k .. (TailNo + 1) * k + k - 1
    BY <1>4, <1>5, <1>6, <1>8, <2>0
  <2>2. (f + k) - 1 \in Int /\ TailNo + 1 \in Int
    BY <1>3, <1>5
  <2>3. ((f + k) - 1) \div k = TailNo + 1
    BY <1>5, <2>1, <2>2, Quotient
  <2>4. Committed = TailNo + 1
    <3>1. Committed = (f + k - 1) \div k
      BY <1>5 DEF Committed
    <3>2. f + k - 1 = (f + k) - 1
      BY <1>5
    <3> QED
      BY <2>3, <3>1, <3>2
  <2>5. Slot(tailIndex) # 0 /\ Slot(tailIndex) \in Slots /\ TailNo * BlockSize <= Filled
    BY <1>4, <1>6, <1>8
  <2> QED
    BY <1>3, <1>4, <2>4, <2>5
<1> QED
  BY <1>4, <1>7, <1>8

\* The block that the tail is in, if it is in one, has not been used again.
LEMMA TailInRing ==
  ASSUME WindowsFit, ShareIInv, NEW g \in Histories, StoreOK(g)
  PROVE  Oldest(g) <= TailNo
<1> HIDE DEF Numbers
<1>1. /\ Filled \in Nat /\ Emptied \in Nat /\ Emptied <= Filled
  BY Basics
<1>2. TailNo \in Nat /\ Committed = IF Slot(tailIndex) = 0 THEN TailNo ELSE TailNo + 1
  BY TailBlockNo
<1>3. RingOK(g) /\ EnqOK(g) /\ FlagsOK(g)
  BY DEF StoreOK
<1>4. Oldest(g) \in Nat /\ Oldest(g) <= Committed
  BY <1>3, Shape
<1>5. ASSUME TailNo < Oldest(g) PROVE FALSE
  <2>1. TailNo \in 0 .. Oldest(g) - 1
    BY <1>2, <1>4, <1>5
  <2>2. Filled \in Within(TailNo)
    BY <1>1, QuotientWithin DEF TailNo
  <2>3. Consumed(Filled)
    BY <1>3, <2>1, <2>2 DEF FlagsOK
  <2> QED
    BY <1>1, <2>3 DEF Consumed
<1> QED
  BY <1>2, <1>4, <1>5

LEMMA FirstTargetValue ==
  ASSUME WindowsFit, ShareIInv, NEW g \in Histories, StoreOK(g), ppc = "construct"
  PROVE  FirstTarget = g.home[TailNo] /\ TailNo < g.n
<1> HIDE DEF Numbers
<1>1. RingOK(g) /\ IndexOK(g) /\ EnqOK(g) /\ ppc \in ChosenPcs
  BY DEF StoreOK, ChosenPcs
<1>2. /\ TailNo \in Nat /\ TailNo * BlockSize <= Filled /\ Slot(tailIndex) \in Slots
      /\ Filled = TailNo * BlockSize + Slot(tailIndex)
      /\ Committed = IF Slot(tailIndex) = 0 THEN TailNo ELSE TailNo + 1
  BY TailBlockNo
<1>3. Committed \in Nat /\ g.n \in Nat /\ Committed <= g.n
  BY <1>1, Shape
<1>4. /\ CallOK(g) /\ Filled + enq.count <= g.n * BlockSize /\ tailBlock = g.home[g.n - 1]
      /\ ~enq.bulk /\ g.n # Committed => g.n = Committed + 1
  BY <1>1, ChosenFacts
<1>5. CASE Slot(tailIndex) # 0
  <2>1. Committed = TailNo + 1 /\ TailNo = Committed - 1
    BY <1>2, <1>3, <1>5
  <2>2. enq.start = g.home[Committed - 1]
    BY <1>2, <1>4, <2>1 DEF CallOK
  <2> QED
    BY <1>2, <1>3, <1>5, <2>1, <2>2 DEF FirstTarget
<1>6. CASE Slot(tailIndex) = 0
  <2>1. Committed = TailNo
    BY <1>2, <1>6
  <2>2. g.n # Committed
    <3>1. ASSUME g.n = TailNo PROVE FALSE
      <4>1. PICK p : p = TailNo * BlockSize
        OBVIOUS
      <4>2. Filled = p + 0 /\ Filled + enq.count <= p /\ enq.count > 0 /\ enq.count \in Nat
            /\ Filled \in Nat
        BY <1>1, <1>2, <1>4, <1>6, <3>1, <4>1, Basics, Shape DEF CallOK
      <4>3. p \in Nat
        BY <1>2, <4>1, BlockFacts
      <4> QED
        BY <4>2, <4>3
    <3> QED
      BY <2>1, <3>1
  <2>3. CASE enq.bulk
    <3>1. enq.first = g.home[Committed]
      BY <1>4, <2>2, <2>3 DEF CallOK
    <3> QED
      BY <1>3, <1>6, <2>1, <2>2, <2>3, <3>1 DEF FirstTarget
  <2>4. CASE ~enq.bulk
    <3>1. g.n - 1 = Committed
      BY <1>3, <1>4, <2>2, <2>4
    <3> QED
      BY <1>3, <1>4, <1>6, <2>1, <2>2, <2>4, <3>1 DEF FirstTarget
  <2> QED
    BY <2>3, <2>4
<1> QED
  BY <1>5, <1>6

\* An element of the batch is constructed where the index will find it.
LEMMA TargetOfValue ==
  ASSUME WindowsFit, ShareIInv, NEW g \in Histories, StoreOK(g), ppc = "construct",
         NEW n \in Filled .. Filled + enq.count - 1
  PROVE  /\ n \in Nat /\ n \in Index /\ n < MaxEnqueued /\ Emptied <= n
         /\ n \div BlockSize \in Oldest(g) .. g.n - 1 /\ n % BlockSize \in Slots
         /\ n \div BlockSize \in Nat /\ n \in Within(n \div BlockSize)
         /\ TargetOf(Element(n)) = Home(g, n) /\ Slot(Element(n)) = n % BlockSize
<1> HIDE DEF Numbers
<1>0. RingOK(g) /\ IndexOK(g) /\ EnqOK(g) /\ ppc \in ChosenPcs
  BY DEF StoreOK, ChosenPcs
<1>1. /\ Filled \in Nat /\ Emptied \in Nat /\ Emptied <= Filled /\ Filled + enq.count <= MaxEnqueued
      /\ enq.count \in Nat /\ MaxEnqueued \in Nat /\ MaxEnqueued < Numbers /\ Numbers \in Nat
  BY Basics DEF ShareIInv, EnqueueFits
<1>2. n \in Nat /\ n \in Index /\ n < MaxEnqueued /\ Emptied <= n
  BY <1>1 DEF Index
<1>3. PICK q \in Nat : q = n \div BlockSize /\ n \in Within(q) /\ n % BlockSize \in Slots
  BY <1>2, QuotientWithin
<1>4. /\ TailNo \in Nat /\ TailNo * BlockSize <= Filled /\ Base(tailIndex) = BaseOf(TailNo)
      /\ TailNo * BlockSize \in Index
  BY TailBlockNo
<1>5. PICK k \in Nat \ {0}, f \in Nat, t \in Nat, p \in Nat, r \in Nat :
        /\ k = BlockSize /\ f = TailNo /\ t = g.n /\ p = f * k /\ r = q * k
        /\ r <= n /\ n < r + k /\ p <= n /\ n < t * k
  <2>1. g.n \in Nat /\ g.n * BlockSize \in Nat /\ Filled + enq.count <= g.n * BlockSize
    BY <1>0, ChosenFacts, Shape
  <2>2. q * BlockSize \in Nat /\ TailNo * BlockSize \in Nat /\ q * BlockSize <= n
        /\ n < q * BlockSize + BlockSize
    BY <1>3, <1>4, WithinValue
  <2>3. BlockSize \in Nat \ {0}
    BY BlockFacts
  <2>4. TailNo * BlockSize <= n /\ n < g.n * BlockSize
    BY <1>1, <1>4, <2>1, <2>2
  <2> QED
    BY <1>4, <2>1, <2>2, <2>3, <2>4
<1>6. f <= q /\ q < t
  <2>1. (q + 1) * k = r + k /\ t * k \in Nat
    BY <1>3, <1>5
  <2>2. f * k < (q + 1) * k /\ q * k < t * k /\ q + 1 \in Int /\ f \in Int /\ q \in Int /\ t \in Int
    BY <1>3, <1>5, <2>1
  <2>3. f < q + 1 /\ q < t
    BY <1>5, <2>2, Order
  <2> QED
    BY <1>3, <1>5, <2>3
<1>7. Minus(Element(n), Base(tailIndex)) = n - p
  <2>1. /\ Element(n) \in Index /\ Minus(Element(n), StartIndex) = n
    BY <1>2, ElementValue DEF Number
  <2>2. BaseOf(f) \in Index /\ Minus(BaseOf(f), StartIndex) = p
    BY <1>4, <1>5, BaseOfValue DEF Number
  <2>3. StartIndex \in Index /\ Base(tailIndex) = BaseOf(f)
    BY <1>4, <1>5, HalfRange
  <2>4. Minus(Element(n), BaseOf(f)) = IF n >= p THEN n - p ELSE n - p + Numbers
    BY <2>1, <2>2, <2>3, SameStart
  <2> QED
    BY <1>5, <2>3, <2>4
<1>8. (n - p) \div BlockSize = q - f
  <2>1. (q - f) * k = r - p
    BY <1>3, <1>5, Distribute
  <2>2. n - p \in (q - f) * k .. (q - f) * k + k - 1 /\ n - p \in Int /\ q - f \in Int
    BY <1>2, <1>3, <1>5, <2>1
  <2> QED
    BY <1>5, <2>2, Quotient
<1>9. Oldest(g) \in Nat /\ Oldest(g) <= f
  BY <1>0, <1>5, Shape, TailInRing
<1>10. TargetOf(Element(n)) = g.home[q]
  <2>1. PICK d \in Nat : d = q - f /\ f + d = q
    BY <1>3, <1>5, <1>6
  <2>2. f \in Int /\ Oldest(g) <= f /\ f + d <= g.n - 1
    BY <1>3, <1>5, <1>6, <1>9, <2>1
  <2>3. After(g.home[f], d) = g.home[f + d]
    BY <1>0, <2>2, RingWalk
  <2>4. FirstTarget = g.home[f]
    BY <1>5, FirstTargetValue
  <2> QED
    BY <1>7, <1>8, <2>1, <2>3, <2>4 DEF TargetOf
<1>11. q \in Oldest(g) .. g.n - 1
  BY <1>3, <1>5, <1>6, <1>9
<1>12. Slot(Element(n)) = n % BlockSize
  BY <1>2, ElementValue, BlockNoValue
<1> QED
  BY <1>2, <1>3, <1>10, <1>11, <1>12 DEF Home

LEMMA BatchElements ==
  ASSUME WindowsFit, ShareIInv
  PROVE  Batch = {Element(n) : n \in Filled .. Filled + enq.count - 1}
<1> HIDE DEF Numbers
<1>1. /\ Filled \in Nat /\ enq.count \in Nat /\ Filled + enq.count <= MaxEnqueued
      /\ MaxEnqueued \in Nat /\ MaxEnqueued < Numbers /\ Numbers \in Nat /\ tailIndex \in Index
  BY Basics DEF ShareIInv, EnqueueFits
<1>2. ASSUME NEW k \in 0 .. enq.count - 1 PROVE Plus(tailIndex, k) = Element(Filled + k)
  <2>1. k \in Nat /\ Filled + k \in Index /\ Filled + k < Numbers /\ StartIndex \in Index
    BY <1>1, HalfRange DEF Index
  <2>2. Plus(tailIndex, k) \in Index /\ Number(Plus(tailIndex, k)) = Filled + k
    BY <1>1, <2>1, Advanced DEF Filled, Number
  <2> QED
    BY <2>2, NumberValue
<1>3. ASSUME NEW n \in Filled .. Filled + enq.count - 1
      PROVE  \E k \in 0 .. enq.count - 1 : n = Filled + k
  <2>1. n - Filled \in 0 .. enq.count - 1 /\ n = Filled + (n - Filled)
    BY <1>1
  <2> QED
    BY <2>1
<1>4. \A k \in 0 .. enq.count - 1 : Filled + k \in Filled .. Filled + enq.count - 1
  BY <1>1
<1> QED
  BY <1>2, <1>3, <1>4 DEF Batch

\* The elements of the batch are constructed in their places.
LEMMA ConstructCells ==
  ASSUME WindowsFit, ShareIInv, ClaimsOK, NEW g \in Histories, StoreOK(g), CellsOK(g), Construct
  PROVE  CellsOK(g)'
<1> HIDE DEF Numbers
<1>0. RingOK(g) /\ EnqOK(g)
  BY DEF StoreOK
<1>1. /\ ppc = "construct" /\ UNCHANGED <<tailIndex, enq>> /\ ClaimsStill
      /\ ppc' = IF ~enq.noexcept /\ BlocksPrepared
                THEN (IF enq.bulk THEN "front" ELSE "entry") ELSE "commit"
  BY DEF Construct, ProducerGoto, claimVars, counters, ClaimsStill
<1>2. /\ Filled \in Nat /\ Emptied \in Nat /\ Emptied <= Filled /\ enq.count \in Nat \ {0}
      /\ Filled + enq.count <= MaxEnqueued /\ MaxEnqueued \in Nat
  <2>1. enq.count > 0
    BY <1>0, <1>1 DEF EnqOK, CallOK
  <2> QED
    BY <2>1, Basics DEF ShareIInv, EnqueueFits
<1>3. Filled' = Filled
  BY <1>1, SameTail
<1> DEFINE New == Filled .. Filled + enq.count - 1
<1>4. Stored' = Stored \cup New
  <2>1. Constructed' = Filled + enq.count /\ Constructed = Filled
    BY <1>1, <1>3 DEF Constructed, Made
  <2>2. Emptied' = Emptied /\ \A c \in Consumers : Unmoved(c)' = Unmoved(c)
    BY <1>1, UnmovedStill
  <2>3. \A c \in Consumers : \A n \in Unmoved(c) : n \in 0 .. Filled - 1
    <3>1. ASSUME NEW c \in Consumers, NEW n \in Unmoved(c) PROVE n \in 0 .. Filled - 1
      <4>1. ClaimOK(c) /\ cpc[c] \in ClaimedPcs
        BY <3>1 DEF ClaimsOK, Unmoved
      <4>2. Moved(c) \in Nat /\ Until(c) \in Nat /\ Until(c) <= Emptied /\ n \in Moved(c) .. Until(c) - 1
        BY <4>1, UnmovedFacts
      <4> QED
        BY <1>2, <4>2
    <3> QED
      BY <3>1
  <2>4. 0 .. Filled + enq.count - 1 = (0 .. Filled - 1) \cup New
    BY <1>2
  <2>5. \A n \in New : n >= Emptied
    BY <1>2
  <2> HIDE DEF New
  <2>6. ASSUME NEW n
        PROVE  n \in Stored' <=> /\ n \in (0 .. Filled - 1) \cup New
                                 /\ n >= Emptied \/ \E c \in Consumers : n \in Unmoved(c)
    <3>1. PICK k : k = Filled + enq.count
      OBVIOUS
    <3>2. Constructed' = k
      BY <2>1, <3>1
    <3>3. n \in 0 .. k - 1 <=> n \in (0 .. Filled - 1) \cup New
      <4>1. k - 1 = Filled + enq.count - 1
        BY <1>2, <3>1
      <4> QED
        BY <2>4, <4>1
    <3>4. n \in Stored' <=> /\ n \in 0 .. k - 1
                            /\ n >= Emptied \/ \E c \in Consumers : n \in Unmoved(c)
      BY <2>2, <3>2 DEF Stored
    <3> QED
      BY <3>3, <3>4
  <2>7. ASSUME NEW n
        PROVE  n \in Stored <=> /\ n \in 0 .. Filled - 1
                                /\ n >= Emptied \/ \E c \in Consumers : n \in Unmoved(c)
    BY <2>1 DEF Stored
  <2> QED
    BY <2>3, <2>5, <2>6, <2>7
<1>5. ASSUME NEW n \in New
      PROVE  /\ n \in Nat /\ n \div BlockSize \in Oldest(g) .. g.n - 1 /\ n % BlockSize \in Slots
             /\ TargetOf(Element(n)) = Home(g, n) /\ Slot(Element(n)) = n % BlockSize
  BY <1>1, <1>5, TargetOfValue
<1>6. ASSUME NEW n \in Stored
      PROVE  /\ n \in Nat /\ n \div BlockSize \in Oldest(g) .. g.n - 1 /\ n % BlockSize \in Slots
             /\ n \notin New
  <2>1. n \in 0 .. Filled - 1
    BY <1>1 DEF Stored, Constructed, Made
  <2>2. n \notin New
    BY <1>2, <2>1
  <2> QED
    BY <2>2, StoredFacts
<1> HIDE DEF New
<1>7. \A n \in Stored' : Home(g, n)' = Home(g, n)
  BY DEF Home
<1>8. \A n \in Stored' : Home(g, n) \in Blocks
  BY <1>0, <1>4, <1>5, <1>6 DEF Home, RingOK
<1>9. Batch = {Element(n) : n \in New}
  BY BatchElements DEF New
<1> DEFINE here(b, s) == {i \in Batch : TargetOf(i) = b /\ Slot(i) = s}
<1>10. \A b \in Blocks : \A s \in Slots : cell'[b][s] =
         IF here(b, s) = {} THEN cell[b][s] ELSE CHOOSE i \in here(b, s) : TRUE
  BY DEF Construct
<1>11. DOMAIN cell' = Blocks /\ \A b \in Blocks : DOMAIN cell'[b] = Slots
  BY DEF Construct
<1>12. ASSUME NEW b, NEW s
       PROVE  here(b, s) = {Element(n) : n \in {p \in New : Home(g, p) = b /\ p % BlockSize = s}}
  BY <1>5, <1>9
<1>13. ASSUME NEW n \in New PROVE here(Home(g, n), n % BlockSize) = {Element(n)}
  <2>1. \A p \in New : Home(g, p) = Home(g, n) /\ p % BlockSize = n % BlockSize => p = n
    BY <1>0, <1>5, <1>13, HomesApart
  <2> HIDE DEF here
  <2> QED
    BY <1>12, <1>13, <2>1
<1>14. ASSUME NEW n \in Stored PROVE here(Home(g, n), n % BlockSize) = {}
  <2>1. \A p \in New : Home(g, p) = Home(g, n) /\ p % BlockSize = n % BlockSize => p = n
    BY <1>0, <1>5, <1>6, <1>14, HomesApart
  <2>2. n \notin New
    BY <1>6, <1>14
  <2> HIDE DEF here
  <2> QED
    BY <1>12, <2>1, <2>2
<1> HIDE DEF here
<1>15. ASSUME NEW n \in Stored' PROVE cell'[Home(g, n)'][n % BlockSize] = Element(n)
  <2>1. Home(g, n)' = Home(g, n) /\ Home(g, n) \in Blocks
    BY <1>7, <1>8, <1>15
  <2>2. CASE n \in New
    <3>1. here(Home(g, n), n % BlockSize) = {Element(n)} /\ n % BlockSize \in Slots
      BY <1>5, <1>13, <2>2
    <3>2. (CHOOSE i \in {Element(n)} : TRUE) = Element(n)
      OBVIOUS
    <3> QED
      BY <1>10, <2>1, <3>1, <3>2
  <2>3. CASE n \in Stored
    <3>1. here(Home(g, n), n % BlockSize) = {} /\ n % BlockSize \in Slots
      BY <1>6, <1>14, <2>3
    <3> QED
      BY <1>10, <2>1, <2>3, <3>1 DEF CellsOK
  <2> QED
    BY <1>4, <1>15, <2>2, <2>3
<1>16. ASSUME NEW b \in Blocks, NEW s \in Slots, cell'[b][s] # Vacant
       PROVE  \E n \in Stored' : Home(g, n)' = b /\ n % BlockSize = s
  <2>1. CASE here(b, s) = {}
    <3>1. \E n \in Stored : Home(g, n) = b /\ n % BlockSize = s
      BY <1>10, <1>16, <2>1 DEF CellsOK
    <3> QED
      BY <1>4, <1>7, <3>1
  <2>2. CASE here(b, s) # {}
    <3>1. \E n \in New : Home(g, n) = b /\ n % BlockSize = s
      BY <1>12, <2>2
    <3> QED
      BY <1>4, <1>7, <3>1
  <2> QED
    BY <2>1, <2>2
<1> QED
  BY <1>11, <1>15, <1>16 DEF CellsOK, Element, Plus

\* The producer's steps.
LEMMA EnqueueCells ==
  ASSUME WindowsFit, ~PartialFailure, ~ThrowsLate, ShareIInv, ClaimsOK,
         NEW g \in Histories, StoreOK(g), CellsOK(g), Enqueue
  PROVE  \E f \in Histories : StoreOK(f)' /\ CellsOK(f)'
<1> HIDE DEF Numbers
<1>1. CASE Construct
  <2>1. StoreOK(g)' /\ CellsOK(g)'
    BY <1>1, ConstructStep, ConstructCells
  <2> QED
    BY <2>1
<1>2. CASE ~Construct
  <2>1. PICK f \in Histories : StoreOK(f)' /\ SameHomes(g, f)
    BY EnqueueInv
  <2>2. cell' = cell /\ Stored' = Stored
    BY <1>2, StoredStill
  <2>3. CellsOK(f)'
    BY <2>1, <2>2, CellsStill
  <2> QED
    BY <2>1, <2>3
<1> QED
  BY <1>1, <1>2

\* What is constructed finds room.
LEMMA RoomToConstruct ==
  ASSUME WindowsFit, ShareIInv, ClaimsOK, NEW g \in Histories, StoreOK(g), CellsOK(g)
  PROVE  ConstructsInVacant
<1> HIDE DEF Numbers
<1> SUFFICES ASSUME ppc = "construct", NEW i \in Batch
             PROVE  cell[TargetOf(i)][Slot(i)] = Vacant /\ Slot(i) \notin emptied[TargetOf(i)]
  BY DEF ConstructsInVacant
<1>0. RingOK(g) /\ EnqOK(g) /\ FlagsOK(g)
  BY DEF StoreOK
<1>1. PICK n \in Filled .. Filled + enq.count - 1 : i = Element(n)
  BY BatchElements
<1>2. PICK m \in Nat, s \in Slots :
        /\ m = n \div BlockSize /\ s = n % BlockSize /\ n \in Nat /\ Emptied <= n
        /\ m \in Oldest(g) .. g.n - 1 /\ n \in Within(m)
        /\ TargetOf(i) = Home(g, n) /\ Slot(i) = s
  BY <1>1, TargetOfValue
<1>3. Home(g, n) = g.home[m] /\ g.home[m] \in Blocks
  BY <1>0, <1>2 DEF Home, RingOK
<1>4. cell[TargetOf(i)][Slot(i)] = Vacant
  <2>1. ASSUME cell[g.home[m]][s] # Vacant PROVE FALSE
    <3>1. PICK p \in Stored : Home(g, p) = g.home[m] /\ p % BlockSize = s
      BY <1>3, <2>1 DEF CellsOK
    <3>2. p \in Nat /\ p \div BlockSize \in Oldest(g) .. g.n - 1
      BY StoredFacts
    <3>3. p = n
      BY <1>0, <1>2, <1>3, <3>1, <3>2, HomesApart
    <3>4. n \in 0 .. Filled - 1
      BY <3>3 DEF Stored, Constructed, Made
    <3>5. Filled \in Nat /\ enq.count \in Nat
      BY <1>0, Basics, Shape
    <3> QED
      BY <1>1, <3>4, <3>5
  <2> QED
    BY <1>2, <1>3, <2>1
<1>5. Slot(i) \notin emptied[TargetOf(i)]
  <2>1. Committed \in Nat /\ Oldest(g) \in Nat /\ g.n \in Nat
    BY <1>0, Shape
  <2>2. CASE m < Committed
    <3>1. m \in Oldest(g) .. Committed - 1
      BY <1>2, <2>1, <2>2
    <3>2. emptied[g.home[m]] = Used(m)
      BY <1>0, <3>1 DEF FlagsOK
    <3>3. ASSUME s \in Used(m) PROVE FALSE
      <4>1. PICK k \in Within(m) : Consumed(k) /\ s = k % BlockSize
        BY <3>3 DEF Used
      <4>2. k \in Nat /\ k \div BlockSize = m
        BY WithinQuotient
      <4>3. k = n
        <5>1. /\ k = (k \div BlockSize) * BlockSize + (k % BlockSize)
              /\ n = (n \div BlockSize) * BlockSize + (n % BlockSize)
          BY <1>2, <4>2, QuotientWithin
        <5> QED
          BY <1>2, <4>1, <4>2, <5>1
      <4>4. Emptied \in Nat /\ n < Emptied
        BY <4>1, <4>3, Basics DEF Consumed
      <4> QED
        BY <1>2, <4>4
    <3> QED
      BY <1>2, <1>3, <3>2, <3>3
  <2>3. CASE ~(m < Committed)
    <3>1. m \in Committed .. g.n - 1
      BY <1>2, <2>1, <2>3
    <3>2. emptied[g.home[m]] = {}
      BY <1>0, <3>1 DEF FlagsOK, ChoosePcs
    <3> QED
      BY <1>2, <1>3, <3>2
  <2> QED
    BY <2>2, <2>3
<1> QED
  BY <1>4, <1>5

\* The others stay where they are.
LEMMA OthersStill ==
  ASSUME NEW c \in Consumers, ConsumerStep(c), NEW d \in Consumers \ {c}
  PROVE  Unmoved(d)' = Unmoved(d) /\ Moved(d)' = Moved(d) /\ (GotOK(d) => GotOK(d)')
<1>1. /\ cpc'[d] = cpc[d] /\ call'[d] = call[d]
      /\ At(d)' = At(d) /\ First(d)' = First(d) /\ Until(d)' = Until(d) /\ Here(d)' = Here(d)
  BY FrameFacts
<1>2. Moved(d)' = Moved(d)
  BY <1>1 DEF Moved, Stop
<1>3. Unmoved(d)' = Unmoved(d)
  BY <1>1, <1>2 DEF Unmoved
<1> QED
  BY <1>1, <1>2, <1>3 DEF GotOK

\* A step that moves nothing.
LEMMA NothingMoved ==
  ASSUME WindowsFit, ShareIInv, ClaimsOK, NEW g \in Histories, StoreOK(g), CellsOK(g),
         NEW c \in Consumers, ConsumerStep(c), cell' = cell,
         headIndex' = headIndex, Unmoved(c)' = Unmoved(c)
  PROVE  CellsOK(g)'
<1>1. Emptied' = Emptied
  BY DEF Emptied
<1>2. \A d \in Consumers : Unmoved(d)' = Unmoved(d)
  BY OthersStill
<1>3. Constructed' = Constructed
  BY FrameFacts DEF Constructed, Made
<1>4. Stored' = Stored
  BY <1>1, <1>2, <1>3 DEF Stored
<1>5. SameHomes(g, g)
  BY DEF SameHomes
<1> QED
  BY <1>4, <1>5, CellsStill

\* Before it claims, a consumer has nothing to move.
LEMMA OutsideCells ==
  ASSUME WindowsFit, ShareIInv, ClaimsOK, NEW g \in Histories, StoreOK(g), CellsOK(g),
         NEW c \in Consumers, ConsumerStep(c), cell' = cell, headIndex' = headIndex,
         cpc[c] \notin ClaimedPcs, cpc'[c] \notin ClaimedPcs
  PROVE  CellsOK(g)' /\ GotOK(c)'
<1>1. Unmoved(c)' = Unmoved(c)
  BY DEF Unmoved
<1>2. GotOK(c)'
  BY DEF GotOK, ClaimedPcs
<1> QED
  BY <1>1, <1>2, NothingMoved

\* What a consumer claims is stored, as it was.
LEMMA ClaimCells ==
  ASSUME WindowsFit, ShareIInv, ClaimsOK, NEW g \in Histories, StoreOK(g), CellsOK(g),
         NEW c \in Consumers, Claim(c), ConsumerStep(c), emptied' = emptied, cell' = cell
  PROVE  CellsOK(g)' /\ GotOK(c)'
<1> HIDE DEF Numbers
<1>1. cpc[c] = "claim"
  BY DEF Claim
<1>2. PICK a \in Nat, n \in Nat :
        /\ a = Emptied /\ n = call[c].count /\ Emptied' = a + n
        /\ At(c)' = a /\ Until(c)' = a + n /\ cpc'[c] = "claimed"
  <2>1. Emptied \in Nat
    BY Basics
  <2> QED
    BY <2>1, ClaimFromHead
<1>4. Unmoved(c) = {} /\ Unmoved(c)' = a .. a + n - 1
  BY <1>1, <1>2 DEF Unmoved, Moved, ClaimedPcs, LookupPcs
<1>5. Stored' = Stored
  <2>1. \A d \in Consumers \ {c} : Unmoved(d)' = Unmoved(d)
    BY OthersStill
  <2>2. Constructed' = Constructed
    BY FrameFacts DEF Constructed, Made
  <2>3. \A x \in Nat : x >= a + n \/ x \in a .. a + n - 1 <=> x >= a
    OBVIOUS
  <2>4. \A x \in 0 .. Constructed - 1 : x \in Nat
    <3>1. Constructed \in Int
      <4>1. Filled \in Nat /\ enq.count \in Nat
        BY Basics DEF ShareIInv, EnqueueFits
      <4> QED
        BY <4>1 DEF Constructed
    <3> QED
      BY <3>1
  <2>5. ASSUME NEW x \in 0 .. Constructed - 1
        PROVE  x >= Emptied' \/ (\E d \in Consumers : x \in Unmoved(d)') <=>
               x >= Emptied \/ (\E d \in Consumers : x \in Unmoved(d))
    <3>1. x >= Emptied' \/ x \in Unmoved(c)' <=> x >= Emptied
      BY <1>2, <1>4, <2>3, <2>4
    <3>2. (\E d \in Consumers : x \in Unmoved(d)') <=>
            x \in Unmoved(c)' \/ \E d \in Consumers \ {c} : x \in Unmoved(d)
      BY <2>1
    <3>3. (\E d \in Consumers : x \in Unmoved(d)) <=> \E d \in Consumers \ {c} : x \in Unmoved(d)
      BY <1>4
    <3> QED
      BY <3>1, <3>2, <3>3
  <2> QED
    BY <2>2, <2>5 DEF Stored
<1>6. CellsOK(g)'
  <2>1. SameHomes(g, g)
    BY DEF SameHomes
  <2> QED
    BY <1>5, <2>1, CellsStill
<1>7. GotOK(c)'
  BY <1>2 DEF GotOK, LookupPcs
<1> QED
  BY <1>6, <1>7

LEMMA ShareCells ==
  ASSUME WindowsFit, ShareIInv, ClaimsOK, NEW g \in Histories, StoreOK(g), CellsOK(g),
         NEW c \in Consumers, Begin(c) \/ Share(c)
  PROVE  CellsOK(g)' /\ GotOK(c)' /\ ConsumerStep(c)
<1> HIDE DEF Numbers
<1>1. DOMAIN cpc = Consumers /\ DOMAIN call = Consumers
  BY Basics
<1>2. UNCHANGED <<tailIndex, headers, next, freeBlocks, producerVars, emptied, cell>>
  BY DEF Begin, Share, BeginDequeue, Sharing, LoadOvercommit, Examine, Promise, Reload, GiveBack,
     Claim, storage, producerVars
<1>3. OnlyCaller(c)
  <2>1. CASE Begin(c)
    BY <1>1, <2>1 DEF Begin, BeginDequeue, ConsumerGoto, OnlyCaller
  <2>2. CASE Share(c)
    BY <1>1, <2>2 DEF Share, Sharing, LoadOvercommit, Examine, Promise, Reload, GiveBack, Claim,
       ConsumerGoto, ReturnFrom, OnlyCaller
  <2> QED
    BY <2>1, <2>2
<1>4. ConsumerStep(c)
  BY <1>2, <1>3 DEF ConsumerStep
<1>5. CASE Begin(c)
  <2>1. cpc[c] = "idle" /\ cpc'[c] = "overcommit" /\ headIndex' = headIndex
    BY <1>1, <1>5 DEF Begin, BeginDequeue, ConsumerGoto, counters
  <2>2. cpc[c] \notin ClaimedPcs /\ cpc'[c] \notin ClaimedPcs
    BY <2>1 DEF ClaimedPcs, LookupPcs
  <2> QED
    BY <1>2, <1>4, <2>1, <2>2, OutsideCells
<1>6. CASE Share(c) /\ ~Claim(c)
  <2>1. /\ cpc[c] \in {"overcommit", "examine", "promise", "reload", "giveBack"}
        /\ cpc'[c] \in {"examine", "promise", "reload", "giveBack", "claim", "idle"}
        /\ headIndex' = headIndex
    BY <1>1, <1>6 DEF Share, Sharing, LoadOvercommit, Examine, Promise, Reload, GiveBack,
       ConsumerGoto, ReturnFrom, counters
  <2>2. cpc[c] \notin ClaimedPcs /\ cpc'[c] \notin ClaimedPcs
    BY <2>1 DEF ClaimedPcs, LookupPcs
  <2> QED
    BY <1>2, <1>4, <2>1, <2>2, OutsideCells
<1>7. CASE Claim(c)
  BY <1>2, <1>4, <1>7, ClaimCells
<1> QED
  BY <1>4, <1>5, <1>6, <1>7

\* A consumer that looks its block up moves nothing.
LEMMA LookingCells ==
  ASSUME WindowsFit, ShareIInv, ClaimsOK, NEW g \in Histories, StoreOK(g), CellsOK(g),
         NEW c \in Consumers, GotOK(c), LoadHeader(c) \/ LoadFront(c) \/ LoadBase(c)
  PROVE  CellsOK(g)' /\ GotOK(c)' /\ ConsumerStep(c)
<1> HIDE DEF Numbers
<1>0. DOMAIN cpc = Consumers /\ DOMAIN call = Consumers
  BY Basics
<1>1. /\ cpc[c] \in {"claimed", "front", "base"} /\ cpc'[c] \in {"front", "base", "entry"}
      /\ UNCHANGED <<tailIndex, headers, next, freeBlocks, producerVars, cell, headIndex>>
      /\ OnlyCaller(c)
  BY <1>0 DEF LoadHeader, LoadFront, LoadBase, ConsumerGoto, counters, storage, OnlyCaller
<1>2. ConsumerStep(c) /\ cpc[c] \in ClaimedPcs /\ cpc'[c] \in LookupPcs /\ cpc'[c] \in ClaimedPcs
      /\ ClaimOK(c)
  BY <1>0, <1>1 DEF ConsumerStep, ClaimedPcs, LookupPcs, ClaimsOK
<1>3. /\ call'[c].index = call[c].index /\ call'[c].count = call[c].count
      /\ call'[c].first = IF cpc[c] = "claimed" THEN call[c].index ELSE call[c].first
      /\ call'[c].got = IF cpc[c] = "claimed" THEN << >> ELSE call[c].got
  <2>1. CASE LoadHeader(c)
    BY <1>0, <2>1 DEF LoadHeader
  <2>2. CASE LoadFront(c) \/ LoadBase(c)
    <3>1. cpc[c] # "claimed" /\ cpc[c] \in LookupPcs
      BY <2>2 DEF LoadFront, LoadBase, LookupPcs
    <3>2. DOMAIN call[c] = CallFields
      BY <1>2, <3>1 DEF ClaimOK
    <3>3. \E s : call'[c] = [call[c] EXCEPT !.slot = s]
      BY <1>0, <2>2 DEF LoadFront, LoadBase
    <3> QED
      BY <3>1, <3>2, <3>3 DEF CallFields
  <2> QED
    BY <2>1, <2>2
<1>4. At(c)' = At(c) /\ First(c)' = First(c) /\ Until(c)' = Until(c)
  <2>1. At(c)' = At(c)
    BY <1>3 DEF At, Number
  <2>2. First(c)' = First(c)
    BY <1>1, <1>3, <2>1 DEF First, At, Number
  <2> QED
    BY <1>3, <2>1, <2>2 DEF Until
<1>5. Moved(c)' = Moved(c) /\ Moved(c) = At(c)
  BY <1>1, <1>4 DEF Moved
<1>6. Unmoved(c)' = Unmoved(c)
  BY <1>1, <1>2, <1>4, <1>5 DEF Unmoved
<1>8. GotOK(c)'
  <2>1. CASE cpc[c] = "claimed"
    <3>1. PICK a \in Nat : a = At(c) /\ Moved(c)' = a /\ First(c)' = a
      <4>1. At(c) \in Nat
        BY <1>0, <1>2, ClaimFacts
      <4> QED
        BY <1>4, <1>5, <2>1, <4>1 DEF First
    <3>2. 1 .. a - a = {}
      OBVIOUS
    <3>3. [k \in 1 .. a - a |-> Plus(call'[c].first, k - 1)] = << >>
      BY <3>2
    <3>4. call'[c].got = << >>
      BY <1>3, <2>1
    <3> QED
      BY <3>1, <3>3, <3>4 DEF GotOK
  <2>2. CASE cpc[c] # "claimed"
    <3>1. cpc[c] \in LookupPcs
      BY <1>2, <2>2 DEF ClaimedPcs
    <3> QED
      BY <1>3, <1>4, <1>5, <2>2, <3>1 DEF GotOK
  <2> QED
    BY <2>1, <2>2
<1> QED
  BY <1>1, <1>2, <1>6, <1>8, NothingMoved

\* A consumer that goes on to its next block, or returns, has moved what it had.
LEMMA SetEmptyCells ==
  ASSUME WindowsFit, ShareIInv, ClaimsOK, NEW g \in Histories, StoreOK(g), CellsOK(g),
         NEW c \in Consumers, GotOK(c), SetEmpty(c)
  PROVE  CellsOK(g)' /\ GotOK(c)' /\ ConsumerStep(c)
<1> HIDE DEF Numbers
<1>0. ConsumerStep(c)
  BY SetEmptyStep
<1>1. cpc[c] = "empty" /\ cell' = cell /\ headIndex' = headIndex
      /\ cpc[c] \in ClaimedPcs /\ cpc[c] \in LookupPcs /\ ClaimOK(c)
  BY DEF SetEmpty, counters, ClaimedPcs, LookupPcs, ClaimsOK
<1>2. PICK s \in Nat, u \in Nat : s = Stop(c) /\ u = Until(c)
  BY <1>1, ClaimFacts, StopFacts
<1>3. Moved(c) = s /\ Unmoved(c) = s .. u - 1
  BY <1>1, <1>2 DEF Moved, Unmoved
<1>4. CASE cpc'[c] = "entry"
  <2>1. /\ call'[c].got = call[c].got /\ call'[c].first = call[c].first
        /\ At(c)' = s /\ First(c)' = First(c) /\ Until(c)' = u
    BY <1>0, <1>2, <1>4, NextBlockStep
  <2>2. Moved(c)' = s /\ Unmoved(c)' = s .. u - 1
    BY <1>4, <2>1 DEF Moved, Unmoved, ClaimedPcs, LookupPcs
  <2>3. GotOK(c)'
    BY <1>1, <1>3, <2>1, <2>2 DEF GotOK
  <2> QED
    BY <1>0, <1>1, <1>3, <2>2, <2>3, NothingMoved
<1>5. CASE cpc'[c] = "idle"
  <2>1. s = u
    BY <1>0, <1>2, <1>5, NextBlockStep
  <2>2. Unmoved(c)' = {} /\ GotOK(c)'
    BY <1>5 DEF Unmoved, GotOK, ClaimedPcs, LookupPcs
  <2>3. s .. u - 1 = {}
    BY <2>1
  <2> QED
    BY <1>0, <1>1, <1>3, <2>2, <2>3, NothingMoved
<1> QED
  BY <1>0, <1>4, <1>5, NextBlockStep

------------------------------------------------------------------------------
(* A consumer moves elements out of a block.                               *)

\* The flags of what it has not done with yet are down.
LEMMA FlagsDown ==
  ASSUME WindowsFit, ShareIInv, ClaimsOK, NEW g \in Histories, StoreOK(g),
         NEW c \in Consumers, cpc[c] \in {"entry", "empty"}, NEW n \in At(c) .. Stop(c) - 1
  PROVE  /\ n \in Nat /\ n \in Index /\ n \in Within(Here(c)) /\ Slot(Element(n)) = n % BlockSize
         /\ n % BlockSize \in Slots /\ n % BlockSize \notin emptied[g.home[Here(c)]]
<1> HIDE DEF Numbers
<1>1. cpc[c] \in LookupPcs /\ cpc[c] \in ClaimedPcs /\ ClaimOK(c) /\ FlagsOK(g)
  BY DEF LookupPcs, ClaimedPcs, ClaimsOK, StoreOK
<1>2. PICK m \in Nat : m = Here(c) /\ m \in Oldest(g) .. Committed - 1
  BY <1>1, ClaimFacts, EntryFound
<1>3. n \in Index /\ n \in Within(m) /\ n \in Nat /\ ~Consumed(n)
  BY <1>1, <1>2, StopFacts, InBlockElements, ElementsLeft
<1>4. n \div BlockSize = m /\ n % BlockSize \in Slots /\ n = m * BlockSize + (n % BlockSize)
  BY <1>2, <1>3, WithinQuotient, QuotientWithin
<1>5. Slot(Element(n)) = n % BlockSize
  BY <1>3, ElementValue, BlockNoValue
<1>6. emptied[g.home[m]] = Used(m)
  BY <1>1, <1>2 DEF FlagsOK
<1>7. ASSUME n % BlockSize \in Used(m) PROVE FALSE
  <2>1. PICK k \in Within(m) : Consumed(k) /\ k % BlockSize = n % BlockSize
    BY <1>7 DEF Used
  <2>2. k \in Nat
    BY <1>2, WithinValue
  <2>3. k \div BlockSize = m /\ k = m * BlockSize + (k % BlockSize)
    <3>1. k \div BlockSize = m
      BY <1>2, <2>1, <2>2, WithinQuotient
    <3> QED
      BY <2>2, <3>1, QuotientWithin
  <2>4. k = n
    BY <1>4, <2>1, <2>3
  <2> QED
    BY <1>3, <2>1, <2>4
<1> QED
  BY <1>2, <1>3, <1>4, <1>5, <1>6, <1>7

\* What it moves is stored in the block that it is at, in order.
LEMMA MovedElements ==
  ASSUME WindowsFit, ShareIInv, ClaimsOK, NEW g \in Histories, StoreOK(g), CellsOK(g),
         NEW c \in Consumers, cpc[c] = "entry", NEW n \in At(c) .. Stop(c) - 1
  PROVE  /\ n \in Nat /\ n \in Index /\ n \in Stored /\ Home(g, n) = EntryOf(c).block
         /\ Slot(Element(n)) = n % BlockSize /\ n % BlockSize \in Slots
         /\ n % BlockSize = Slot(call[c].index) + (n - At(c))
         /\ cell[EntryOf(c).block][n % BlockSize] = Element(n)
<1> HIDE DEF Numbers
<1>1. cpc[c] \in LookupPcs /\ cpc[c] \in ClaimedPcs /\ ClaimOK(c)
  BY DEF LookupPcs, ClaimedPcs, ClaimsOK
<1>2. PICK a \in Nat, s \in Nat, u \in Nat, m \in Nat :
        /\ a = At(c) /\ s = Stop(c) /\ u = Until(c) /\ m = Here(c) /\ a < s /\ s <= u
        /\ u <= Emptied /\ a \in Within(m) /\ a .. s - 1 \subseteq Within(m)
  BY <1>1, ClaimFacts, StopFacts
<1>3. /\ n \in Nat /\ n \in a .. s - 1 /\ n \in Index /\ n \in Within(m)
      /\ Slot(Element(n)) = n % BlockSize
  BY <1>2, FlagsDown
<1>4. n \in Stored
  <2>1. n \in Unmoved(c)
    <3>1. n \in a .. u - 1
      BY <1>2, <1>3
    <3> QED
      BY <1>1, <1>2, <3>1 DEF Unmoved, Moved
  <2>2. n \in 0 .. Constructed - 1
    <3>1. Filled \in Nat /\ Emptied \in Nat /\ Emptied <= Filled /\ enq.count \in Nat
      BY Basics DEF ShareIInv, EnqueueFits
    <3> QED
      BY <1>2, <1>3, <3>1 DEF Constructed
  <2> QED
    BY <2>1, <2>2 DEF Stored
<1>5. n \div BlockSize = m
  BY <1>2, <1>3, WithinQuotient
<1>6. Home(g, n) = EntryOf(c).block
  <2>1. EntryOf(c).block = g.home[Here(c)]
    BY EntryFound
  <2> QED
    BY <1>2, <1>5, <2>1 DEF Home
<1>7. n % BlockSize \in Slots /\ n = m * BlockSize + (n % BlockSize)
  BY <1>3, <1>5, QuotientWithin
<1>9. n % BlockSize = Slot(call[c].index) + (n - a)
  <2>1. a \div BlockSize = m /\ a = m * BlockSize + (a % BlockSize)
    <3>1. a \div BlockSize = m
      BY <1>2, WithinQuotient
    <3> QED
      BY <1>2, <3>1, QuotientWithin
  <2>2. Slot(call[c].index) = a % BlockSize
    BY <1>1, <1>2, BlockNoValue DEF ClaimOK, At
  <2>3. PICK x \in Nat, y \in Nat, z \in Nat :
          x = m * BlockSize /\ y = n % BlockSize /\ z = a % BlockSize /\ n = x + y /\ a = x + z
    <3>1. m * BlockSize \in Nat /\ BlockSize \in Nat \ {0}
      BY <1>2, WithinValue, BlockFacts
    <3>2. a % BlockSize \in Nat
      BY <1>2, <3>1
    <3> QED
      BY <1>7, <2>1, <3>1, <3>2 DEF Slots
  <2> QED
    BY <2>2, <2>3
<1>10. cell[EntryOf(c).block][n % BlockSize] = Element(n)
  BY <1>4, <1>6 DEF CellsOK
<1> QED
  BY <1>2, <1>3, <1>4, <1>6, <1>7, <1>9, <1>10

\* A consumer gets what it has claimed, in order.
LEMMA MoveGot ==
  ASSUME WindowsFit, ShareIInv, ClaimsOK, NEW g \in Histories, StoreOK(g), CellsOK(g),
         NEW c \in Consumers, GotOK(c), Move(c)
  PROVE  GotOK(c)'
<1> HIDE DEF Numbers
<1>1. cpc[c] = "entry" /\ cpc[c] \in LookupPcs /\ cpc[c] \in ClaimedPcs /\ ClaimOK(c)
      /\ DOMAIN call[c] = CallFields
  BY DEF Move, LookupPcs, ClaimedPcs, ClaimsOK, ClaimOK
<1>2. PICK a \in Nat, f \in Nat, s \in Nat, u \in Nat :
        a = At(c) /\ f = First(c) /\ s = Stop(c) /\ u = Until(c) /\ f <= a /\ a < s /\ s <= u
  BY <1>1, ClaimFacts, StopFacts
<1>3. PICK n \in Nat : n = Cardinality(InBlock(c)) /\ n = s - a
  <2>1. s - a \in Nat
    BY <1>2
  <2> QED
    BY <1>1, <1>2, <2>1, InBlockCount
<1>4. PICK b, x, i : b = EntryOf(c).block /\ x = Slot(call[c].index) /\ i = call[c].first
  OBVIOUS
<1>5. PICK v : v = [k \in 1 .. n |-> cell[b][x + k - 1]]
  OBVIOUS
<1>6. call'[c] = [call[c] EXCEPT !.block = b, !.got = @ \o v] /\ cpc'[c] = "empty"
  BY <1>3, <1>4, <1>5, Basics DEF Move, ConsumerGoto
<1>7. call'[c].got = call[c].got \o v /\ call'[c].first = i /\ call'[c].index = call[c].index
      /\ call'[c].count = call[c].count
  BY <1>1, <1>4, <1>6 DEF CallFields
<1>8. PICK F : F = [k \in 1 .. s - f |-> Plus(i, k - 1)]
  OBVIOUS
<1>9. PICK p \in Nat : p = a - f /\ p + n = s - f
  BY <1>2, <1>3
<1>10. call[c].got = [k \in 1 .. p |-> F[k]]
  <2>1. call[c].got = [k \in 1 .. p |-> Plus(i, k - 1)]
    BY <1>1, <1>2, <1>4, <1>9 DEF GotOK, Moved
  <2>2. \A k \in 1 .. p : k \in 1 .. s - f
    BY <1>2, <1>9
  <2> QED
    BY <1>8, <2>1, <2>2
<1>11. v = [k \in 1 .. n |-> F[p + k]]
  <2>1. ASSUME NEW k \in 1 .. n PROVE cell[b][x + k - 1] = F[p + k]
    <3>1. PICK q \in Nat : q = a + (k - 1) /\ q \in a .. s - 1 /\ q = f + (p + k - 1)
      BY <1>2, <1>3, <1>9, <2>1
    <3>2. cell[b][q % BlockSize] = Element(q) /\ q % BlockSize = x + (q - a) /\ q % BlockSize \in Slots
      BY <1>1, <1>2, <1>4, <3>1, MovedElements
    <3>3. x + k - 1 = q % BlockSize
      <4>1. x \in Nat
        <5>1. PICK j : j = call[c].index
          OBVIOUS
        <5>2. Slot(j) = Number(j) % BlockSize /\ Number(j) \in Nat /\ BlockSize \in Nat \ {0}
          BY <1>1, <5>1, BlockNoValue, NumberValue, BlockFacts, HalfRange DEF ClaimOK, Index
        <5> QED
          BY <1>4, <5>1, <5>2
      <4> QED
        BY <1>2, <2>1, <3>1, <3>2, <4>1
    <3>4. p + k \in 1 .. s - f /\ p + k - 1 \in 0 .. call[c].count - 1
      <4>1. u = f + call[c].count /\ call[c].count \in Nat
        BY <1>1, <1>2 DEF Until, ClaimOK
      <4> QED
        BY <1>2, <1>3, <1>9, <2>1, <4>1
    <3>5. Plus(i, p + k - 1) = Element(q)
      BY <1>1, <1>2, <1>4, <3>1, <3>4, InBlockElements
    <3>6. F[p + k] = Plus(i, p + k - 1)
      BY <1>8, <3>4
    <3> QED
      BY <3>2, <3>3, <3>5, <3>6
  <2> QED
    BY <1>5, <2>1
<1>12. call'[c].got = F
  <2>1. call[c].got \o v = [k \in 1 .. p + n |-> F[k]]
    BY <1>10, <1>11, Joined
  <2> QED
    BY <1>7, <1>8, <1>9, <2>1
<1>13. First(c)' = f /\ Until(c)' = u /\ Here(c)' = Here(c)
  <2>1. First(c)' = f
    BY <1>1, <1>2, <1>4, <1>6, <1>7 DEF First, Number
  <2> QED
    BY <1>2, <1>7, <2>1 DEF Until, Here, BlockNo, Number
<1>14. Moved(c)' = s
  BY <1>2, <1>6, <1>13 DEF Moved, Stop
<1> QED
  BY <1>6, <1>7, <1>8, <1>12, <1>13, <1>14 DEF GotOK

\* The places of what it moves are vacant, the others are left alone.
LEMMA MoveCells ==
  ASSUME WindowsFit, ShareIInv, ClaimsOK, NEW g \in Histories, StoreOK(g), CellsOK(g),
         NEW c \in Consumers, GotOK(c), Move(c)
  PROVE  CellsOK(g)' /\ GotOK(c)' /\ ConsumerStep(c)
<1> HIDE DEF Numbers
<1>1. cpc[c] = "entry" /\ cpc[c] \in LookupPcs /\ cpc[c] \in ClaimedPcs /\ ClaimOK(c)
      /\ DOMAIN call[c] = CallFields /\ RingOK(g)
  BY DEF Move, LookupPcs, ClaimedPcs, ClaimsOK, ClaimOK, StoreOK
<1>2. PICK b : b = EntryOf(c).block
  OBVIOUS
<1>3. /\ cpc'[c] = "empty" /\ headIndex' = headIndex
      /\ \E got : call'[c] = [call[c] EXCEPT !.block = b, !.got = got]
  BY <1>2, Basics DEF Move, ConsumerGoto, counters
<1>4. cell' = [cell EXCEPT ![b] = [s \in Slots |->
                 IF \E i \in InBlock(c) : Slot(i) = s THEN Vacant ELSE @[s]]]
  BY <1>2 DEF Move
<1>5. ConsumerStep(c)
  BY MoveStep
<1>6. /\ call'[c].index = call[c].index /\ call'[c].count = call[c].count
      /\ call'[c].first = call[c].first
  BY <1>1, <1>3 DEF CallFields
<1>7. /\ At(c)' = At(c) /\ First(c)' = First(c) /\ Until(c)' = Until(c) /\ Here(c)' = Here(c)
  BY <1>1, <1>3, <1>6 DEF At, First, Until, Here, Number, BlockNo
<1>8. PICK a \in Nat, s \in Nat, u \in Nat :
        a = At(c) /\ s = Stop(c) /\ u = Until(c) /\ a < s /\ s <= u /\ u <= Emptied
  BY <1>1, ClaimFacts, StopFacts
<1>9. Unmoved(c) = a .. u - 1 /\ Unmoved(c)' = s .. u - 1
  <2>1. Moved(c)' = s
    BY <1>3, <1>7, <1>8 DEF Moved, Stop
  <2> QED
    BY <1>1, <1>3, <1>7, <1>8, <2>1 DEF Unmoved, Moved, ClaimedPcs, LookupPcs
<1>10. ASSUME NEW n \in a .. s - 1
       PROVE  /\ n \in Stored /\ Home(g, n) = b /\ Element(n) \in InBlock(c)
              /\ Slot(Element(n)) = n % BlockSize
  <2>1. InBlock(c) = {Element(p) : p \in a .. s - 1}
    BY <1>1, <1>8, InBlockElements
  <2> QED
    BY <1>1, <1>2, <1>8, <1>10, <2>1, MovedElements
<1>11. \A i \in InBlock(c) : \E n \in a .. s - 1 : i = Element(n)
  BY <1>1, <1>8, InBlockElements
<1>12. Stored' = Stored \ (a .. s - 1)
  <2>1. Constructed' = Constructed /\ Emptied' = Emptied
    BY <1>3, <1>5, FrameFacts DEF Constructed, Made, Emptied
  <2>2. \A d \in Consumers \ {c} : Unmoved(d)' = Unmoved(d)
    BY <1>5, OthersStill
  <2>3. ASSUME NEW d \in Consumers \ {c}, NEW n \in a .. s - 1 PROVE n \notin Unmoved(d)
    <3>1. n \in Taken(c)
      <4>1. n \in Unmoved(c)
        BY <1>8, <1>9, <2>3
      <4> QED
        BY <1>1, <4>1, UnmovedFacts
    <3>2. n \notin Taken(d)
      BY <3>1 DEF ClaimsOK
    <3>3. cpc[d] \in ClaimedPcs => Unmoved(d) \subseteq Taken(d)
      BY UnmovedFacts DEF ClaimsOK
    <3> QED
      BY <3>2, <3>3 DEF Unmoved
  <2>4. \A n \in a .. u - 1 : n \in s .. u - 1 <=> n \notin a .. s - 1
    BY <1>8
  <2>5. s .. u - 1 \subseteq a .. u - 1 /\ a .. s - 1 \subseteq a .. u - 1
    BY <1>8
  <2>6. \A n \in a .. s - 1 : ~(n >= Emptied)
    <3>1. Emptied \in Nat
      BY Basics
    <3> QED
      BY <1>8, <3>1
  <2>7. ASSUME NEW n PROVE n \in Stored' <=> n \in Stored /\ n \notin a .. s - 1
    <3>1. n \in Unmoved(c)' <=> n \in Unmoved(c) /\ n \notin a .. s - 1
      BY <1>9, <2>4, <2>5
    <3>2. (\E d \in Consumers : n \in Unmoved(d)') <=>
            n \in Unmoved(c)' \/ \E d \in Consumers \ {c} : n \in Unmoved(d)
      BY <2>2
    <3>3. (\E d \in Consumers : n \in Unmoved(d)) <=>
            n \in Unmoved(c) \/ \E d \in Consumers \ {c} : n \in Unmoved(d)
      OBVIOUS
    <3>4. CASE n \in a .. s - 1
      BY <2>1, <2>3, <2>6, <3>1, <3>2, <3>4 DEF Stored
    <3>5. CASE n \notin a .. s - 1
      BY <2>1, <3>1, <3>2, <3>3, <3>5 DEF Stored
    <3> QED
      BY <3>4, <3>5
  <2> QED
    BY <2>7
<1>13. \A n \in Stored : /\ n \in Nat /\ n \div BlockSize \in Oldest(g) .. g.n - 1
                         /\ Home(g, n) \in Blocks /\ n % BlockSize \in Slots
  BY StoredFacts
<1>18. \A n : Home(g, n)' = Home(g, n)
  BY DEF Home
<1>19. DOMAIN cell = Blocks /\ \A d \in Blocks : DOMAIN cell[d] = Slots
  BY DEF CellsOK
<1>20. ASSUME NEW d \in Blocks, NEW r \in Slots
       PROVE  cell'[d][r] = IF d = b /\ \E n \in a .. s - 1 : n % BlockSize = r THEN Vacant
                            ELSE cell[d][r]
  <2>1. (\E i \in InBlock(c) : Slot(i) = r) <=> \E n \in a .. s - 1 : n % BlockSize = r
    BY <1>10, <1>11
  <2> QED
    BY <1>4, <1>19, <1>20, <2>1
<1>21. DOMAIN cell' = Blocks /\ \A d \in Blocks : DOMAIN cell'[d] = Slots
  BY <1>4, <1>19
<1>22. ASSUME NEW n \in Stored' PROVE cell'[Home(g, n)'][n % BlockSize] = Element(n)
  <2>1. n \in Stored /\ n \notin a .. s - 1 /\ Home(g, n)' = Home(g, n)
    BY <1>12, <1>18, <1>22
  <2>2. /\ Home(g, n) \in Blocks /\ n % BlockSize \in Slots
        /\ cell[Home(g, n)][n % BlockSize] = Element(n)
    BY <1>13, <2>1 DEF CellsOK
  <2>3. ASSUME NEW p \in a .. s - 1, Home(g, n) = b, p % BlockSize = n % BlockSize PROVE FALSE
    <3>1. p \in Stored /\ Home(g, p) = b
      BY <1>10, <2>3
    <3>2. n = p
      BY <1>1, <1>13, <2>1, <2>3, <3>1, HomesApart
    <3> QED
      BY <2>1, <2>3, <3>2
  <2> QED
    BY <1>20, <2>1, <2>2, <2>3
<1>23. ASSUME NEW d \in Blocks, NEW r \in Slots, cell'[d][r] # Vacant
       PROVE  \E n \in Stored' : Home(g, n)' = d /\ n % BlockSize = r
  <2>1. cell[d][r] # Vacant /\ ~(d = b /\ \E n \in a .. s - 1 : n % BlockSize = r)
    BY <1>20, <1>23
  <2>2. PICK n \in Stored : Home(g, n) = d /\ n % BlockSize = r
    BY <2>1 DEF CellsOK
  <2>3. n \notin a .. s - 1
    BY <1>10, <2>1, <2>2
  <2> QED
    BY <1>12, <1>18, <2>2, <2>3
<1>24. CellsOK(g)'
  <2>1. \A n : Element(n)' = Element(n)
    BY DEF Element, Plus
  <2> QED
    BY <1>21, <1>22, <1>23, <2>1 DEF CellsOK
<1>27. GotOK(c)'
  BY MoveGot
<1> QED
  BY <1>5, <1>24, <1>27

\* A consumer finds its elements where it looks for them, with their flags down.
LEMMA ElementsThere ==
  ASSUME WindowsFit, ShareIInv, ClaimsOK, NEW g \in Histories, StoreOK(g), CellsOK(g)
  PROVE  ReadsItsElements
<1> HIDE DEF Numbers
<1>1. ASSUME NEW c \in Consumers, cpc[c] = "entry", NEW i \in InBlock(c)
      PROVE  /\ cell[EntryOf(c).block][Slot(i)] = i
             /\ Slot(i) \notin emptied[EntryOf(c).block]
  <2>1. cpc[c] \in LookupPcs /\ ClaimOK(c)
    BY <1>1 DEF LookupPcs, ClaimsOK
  <2>2. PICK n \in At(c) .. Stop(c) - 1 : i = Element(n)
    BY <1>1, <2>1, InBlockElements
  <2>3. EntryOf(c).block = g.home[Here(c)]
    BY <1>1, EntryFound
  <2>4. Slot(i) = n % BlockSize /\ n % BlockSize \notin emptied[g.home[Here(c)]]
    BY <1>1, <2>2, FlagsDown
  <2>5. cell[EntryOf(c).block][n % BlockSize] = Element(n)
    BY <1>1, <2>2, MovedElements
  <2> QED
    BY <2>2, <2>3, <2>4, <2>5
<1>2. ASSUME NEW c \in Consumers, cpc[c] = "empty", NEW i \in InBlock(c)
      PROVE  Slot(i) \notin emptied[call[c].block]
  <2>1. cpc[c] \in LookupPcs /\ ClaimOK(c)
    BY <1>2 DEF LookupPcs, ClaimsOK
  <2>2. PICK n \in At(c) .. Stop(c) - 1 : i = Element(n)
    BY <1>2, <2>1, InBlockElements
  <2>3. call[c].block = g.home[Here(c)]
    BY <1>2, <2>1, LookupFacts DEF LookupOK
  <2> QED
    BY <1>2, <2>2, <2>3, FlagsDown
<1> QED
  BY <1>1, <1>2 DEF ReadsItsElements

------------------------------------------------------------------------------
(* What the destructor finds.                                              *)

\* Every call has returned.
Quiet == ppc = "idle" /\ \A c \in Consumers : cpc[c] = "idle"

LEMMA QuietFacts ==
  ASSUME WindowsFit, ShareIInv, ClaimsOK, NEW g \in Histories, StoreOK(g), Quiet
  PROVE  /\ Stored = Emptied .. Filled - 1 /\ g.n = Committed
         /\ \A n : Consumed(n) <=> n < Emptied
<1> HIDE DEF Numbers
<1>1. Filled \in Nat /\ Emptied \in Nat /\ Emptied <= Filled
  BY Basics
<1>2. \A c \in Consumers : Unmoved(c) = {} /\ Open(c) = {}
  BY DEF Quiet, Unmoved, Open, ClaimedPcs, LookupPcs
<1>3. ppc = "idle" /\ g.n = Committed
  BY DEF Quiet, StoreOK, EnqOK
<1>4. \A n : Consumed(n) <=> n < Emptied
  BY <1>2 DEF Consumed
<1>5. Constructed = Filled
  BY <1>3 DEF Constructed, Made
<1>6. \A n : n \in Stored <=> n \in 0 .. Filled - 1 /\ n >= Emptied
  BY <1>2, <1>5 DEF Stored
<1>7. \A n : n \in 0 .. Filled - 1 /\ n >= Emptied <=> n \in Emptied .. Filled - 1
  BY <1>1
<1> QED
  BY <1>3, <1>4, <1>6, <1>7

\* Round and round, from the tail block.
LEMMA RingAll ==
  ASSUME NEW g \in Histories, RingOK(g), g.n > 0, NEW k \in Nat
  PROVE  /\ After(tailBlock, k) = g.home[Oldest(g) + (((pr.used - 1) + k) % pr.used)]
         /\ ((pr.used - 1) + k) % pr.used \in 0 .. pr.used - 1
<1>1. PICK u \in Nat \ {0}, o \in Int :
        u = pr.used /\ o = Oldest(g) /\ g.n \in Nat /\ o = g.n - u
  BY DEF Histories, RingOK, Oldest
<1>2. \A i \in Int : i % u \in 0 .. u - 1
  BY <1>1
<1>3. PICK h : h = [i \in 0 .. k |-> g.home[o + (((u - 1) + i) % u)]]
  OBVIOUS
<1>4. h = [i \in 0 .. k |-> h[i]] /\ h[k] = g.home[o + (((u - 1) + k) % u)]
  BY <1>3
<1>5. tailBlock = g.home[g.n - 1] /\ next[g.home[g.n - 1]] = g.home[o]
  BY <1>1 DEF RingOK
<1>6. h[0] = tailBlock
  <2>1. ((u - 1) + 0) % u = u - 1
    <3>1. (u - 1) + 0 = u - 1 /\ u - 1 \in 0 .. u - 1 /\ u - 1 \in Int
      BY <1>1
    <3> QED
      BY <3>1, RingWrap
  <2>2. h[0] = g.home[o + (((u - 1) + 0) % u)]
    BY <1>3
  <2>3. o + (u - 1) = g.n - 1
    BY <1>1
  <2> QED
    BY <1>5, <2>1, <2>2, <2>3
<1>7. \A i \in 1 .. k : h[i] = next[h[i - 1]]
  <2> TAKE i \in 1 .. k
  <2>1. PICK a \in Nat : a = (u - 1) + (i - 1) /\ a + 1 = (u - 1) + i
    BY <1>1
  <2>2. PICK r \in 0 .. u - 1 : r = a % u
    BY <1>2, <2>1
  <2>3. (r + 1) % u = (a + 1) % u
    <3>1. a \in Int /\ 1 \in Int /\ u \in Nat \ {0}
      BY <1>1, <2>1
    <3>2. ((a % u) + 1) % u = (a + 1) % u
      BY <3>1, RingShift
    <3> QED
      BY <2>2, <3>2
  <2>4. h[i - 1] = g.home[o + r]
    <3>1. i - 1 \in 0 .. k
      OBVIOUS
    <3> QED
      BY <1>3, <2>1, <2>2, <3>1
  <2>5. h[i] = g.home[o + ((r + 1) % u)]
    <3>1. h[i] = g.home[o + (((u - 1) + i) % u)]
      BY <1>3
    <3>2. (u - 1) + i = a + 1
      BY <2>1
    <3>3. h[i] = g.home[o + ((a + 1) % u)]
      BY <3>1, <3>2
    <3> QED
      BY <2>3, <3>3
  <2>6. CASE r = u - 1
    <3>1. (r + 1) % u = 0
      <4>1. (0 + u) % u = 0 % u /\ 0 % u = 0
        <5>1. 0 \in Int /\ 0 \in 0 .. u - 1 /\ u \in Nat \ {0}
          BY <1>1
        <5> QED
          BY <5>1, RingWrap
      <4>2. r + 1 = 0 + u
        BY <1>1, <2>6
      <4> QED
        BY <4>1, <4>2
    <3>2. o + r = g.n - 1 /\ o + 0 = o
      BY <1>1, <2>6
    <3> QED
      BY <1>5, <2>4, <2>5, <3>1, <3>2
  <2>7. CASE r # u - 1
    <3>1. r + 1 \in 0 .. u - 1 /\ r + 1 \in Int
      BY <2>2, <2>7
    <3>2. (r + 1) % u = r + 1
      BY <1>1, <3>1, RingWrap
    <3>3. PICK q \in Int : q = o + r
      BY <1>1, <2>2
    <3>4. q \in Oldest(g) .. g.n - 2 /\ q + 1 = o + (r + 1)
      BY <1>1, <2>2, <2>7, <3>3
    <3>5. next[g.home[q]] = g.home[q + 1]
      BY <3>4 DEF RingOK
    <3> QED
      BY <2>4, <2>5, <3>2, <3>3, <3>4, <3>5
  <2> QED
    BY <2>6, <2>7
<1>8. After(tailBlock, k) = h[k]
  BY <1>4, <1>6, <1>7, AfterExists
<1>9. (u - 1) + k \in Int
  BY <1>1
<1> QED
  BY <1>1, <1>2, <1>4, <1>8, <1>9

\* The ring has no more blocks than there are.
LEMMA RingFits ==
  ASSUME NEW g \in Histories, RingOK(g)
  PROVE  pr.used <= Cardinality(Blocks) /\ Cardinality(Blocks) \in Nat
<1>1. g.n \in Nat /\ pr.used \in Nat /\ Oldest(g) \in Int /\ Oldest(g) = g.n - pr.used
  BY DEF Histories, RingOK, Oldest
<1>2. PICK o \in Int, t \in Int : o = Oldest(g) /\ t = g.n - 1
  BY <1>1
<1>3. IsFiniteSet(o .. t) /\ Cardinality(o .. t) = pr.used
  <2>1. IsFiniteSet(o .. t) /\ Cardinality(o .. t) = IF o > t THEN 0 ELSE t - o + 1
    BY FS_Interval
  <2> QED
    BY <1>1, <1>2, <2>1
<1>4. IsFiniteSet(Blocks)
  BY ExplicitAssumption DEF ExplicitAssumption
<1>5. Cardinality(Blocks) \in Nat
  BY <1>4, FS_CardinalityType
<1>6. ASSUME Cardinality(Blocks) < pr.used PROVE FALSE
  <2>1. PICK f : f = [m \in o .. t |-> g.home[m]]
    OBVIOUS
  <2>2. f \in [o .. t -> Blocks]
    BY <1>2, <2>1 DEF RingOK
  <2>3. Cardinality(Blocks) < Cardinality(o .. t)
    BY <1>3, <1>6
  <2>4. \E x, y \in o .. t : x # y /\ f[x] = f[y]
    BY <1>3, <1>4, <2>2, <2>3, FS_PigeonHole
  <2> QED
    BY <1>2, <2>1, <2>4 DEF RingOK
<1> QED
  BY <1>1, <1>5, <1>6

\* It holds the blocks that are not free.
LEMMA RingBlocks ==
  ASSUME NEW g \in Histories, RingOK(g)
  PROVE  /\ Ring = {g.home[m] : m \in Oldest(g) .. g.n - 1}
         /\ Ring = Blocks \ freeBlocks
<1>1. /\ g.n \in Nat /\ pr.used \in Nat /\ pr.used <= g.n /\ Oldest(g) = g.n - pr.used
      /\ Oldest(g) \in Int /\ (g.n > 0 => pr.used > 0)
  BY DEF Histories, RingOK, Oldest
<1>2. {g.home[m] : m \in Oldest(g) .. g.n - 1} = Blocks \ freeBlocks
  BY DEF RingOK
<1>3. CASE g.n = 0
  <2>1. tailBlock = NoBlock
    BY <1>3 DEF RingOK
  <2>2. Oldest(g) .. g.n - 1 = {}
    BY <1>1, <1>3
  <2> QED
    BY <1>2, <2>1, <2>2 DEF Ring
<1>4. CASE g.n # 0
  <2>1. PICK u \in Nat \ {0}, o \in Int, k \in Nat :
          u = pr.used /\ o = Oldest(g) /\ k = Cardinality(Blocks) /\ u <= k /\ o = g.n - u
    BY <1>1, <1>4, RingFits
  <2>2. tailBlock = g.home[g.n - 1] /\ g.n > 0 /\ g.n - 1 \in o .. g.n - 1
    BY <1>1, <1>4, <2>1 DEF RingOK
  <2>3. tailBlock # NoBlock
    <3>1. tailBlock \in Blocks
      BY <2>1, <2>2 DEF RingOK
    <3> QED
      BY <3>1, ExplicitAssumption DEF ExplicitAssumption
  <2>4. Ring = {After(tailBlock, i) : i \in 0 .. k - 1}
    BY <2>1, <2>3 DEF Ring
  <2>5. ASSUME NEW i \in 0 .. k - 1
        PROVE  \E m \in o .. g.n - 1 : After(tailBlock, i) = g.home[m]
    <3>1. PICK r \in 0 .. u - 1 : After(tailBlock, i) = g.home[o + r]
      <4>1. i \in Nat
        OBVIOUS
      <4> QED
        BY <2>1, <2>2, <4>1, RingAll
    <3>2. o + r \in o .. g.n - 1
      BY <1>1, <2>1, <3>1
    <3> QED
      BY <3>1, <3>2
  <2>6. ASSUME NEW m \in o .. g.n - 1
        PROVE  \E i \in 0 .. k - 1 : After(tailBlock, i) = g.home[m]
    <3>1. CASE m = g.n - 1
      <4>1. After(tailBlock, 0) = g.home[o + (((u - 1) + 0) % u)]
        BY <2>1, <2>2, RingAll
      <4>2. ((u - 1) + 0) % u = u - 1
        <5>1. (u - 1) + 0 = u - 1 /\ u - 1 \in 0 .. u - 1 /\ u - 1 \in Int
          BY <2>1
        <5> QED
          BY <5>1, RingWrap
      <4>3. o + (u - 1) = g.n - 1 /\ 0 \in 0 .. k - 1
        BY <1>1, <2>1
      <4> QED
        BY <3>1, <4>1, <4>2, <4>3
    <3>2. CASE m # g.n - 1
      <4>1. PICK i \in Nat \ {0} : i = (m - o) + 1 /\ i <= u /\ i < u /\ m = o + (i - 1)
        BY <1>1, <2>1, <3>2
      <4>2. After(tailBlock, i) = g.home[o + (i - 1)]
        BY <2>1, <4>1, RingRound
      <4>3. i \in 0 .. k - 1
        BY <2>1, <4>1
      <4> QED
        BY <4>1, <4>2, <4>3
    <3> QED
      BY <3>1, <3>2
  <2>7. Ring = {g.home[m] : m \in o .. g.n - 1}
    BY <2>4, <2>5, <2>6
  <2> QED
    BY <1>2, <2>1, <2>7
<1> QED
  BY <1>3, <1>4

\* The block number and the slot of the head.
HeadNo == Emptied \div BlockSize

LEMMA HeadFacts ==
  ASSUME WindowsFit, ShareIInv
  PROVE  /\ HeadNo \in Nat /\ HeadNo * BlockSize \in Nat /\ Slot(headIndex) \in Slots
         /\ Emptied = HeadNo * BlockSize + Slot(headIndex)
<1> HIDE DEF Numbers
<1>1. Emptied \in Nat /\ headIndex \in Index /\ Emptied = Number(headIndex)
  BY Basics DEF Emptied, Number
<1>2. Slot(headIndex) = Emptied % BlockSize
  BY <1>1, BlockNoValue
<1>3. /\ HeadNo \in Nat /\ Emptied % BlockSize \in Slots
      /\ Emptied = HeadNo * BlockSize + (Emptied % BlockSize)
  BY <1>1, QuotientWithin DEF HeadNo
<1>4. HeadNo * BlockSize \in Nat
  BY <1>3, WithinValue
<1> QED
  BY <1>2, <1>3, <1>4

\* Two numbers, one before the other.
LEMMA LessApart ==
  ASSUME NEW a \in Index, NEW b \in Index
  PROVE  /\ Number(a) <= Number(b) /\ Number(b) - Number(a) < Numbers \div 2 /\ a # b =>
              Less(a, b)
         /\ Number(b) <= Number(a) /\ Number(a) - Number(b) <= Numbers \div 2 => ~Less(a, b)
<1> HIDE DEF Numbers
<1>1. /\ Numbers \in Nat /\ Numbers \div 2 \in Nat /\ StartIndex \in Index
      /\ Numbers = (Numbers \div 2) + (Numbers \div 2)
  BY HalfRange
<1>2. PICK x \in Nat, y \in Nat, h \in Nat, n \in Nat :
        x = Number(a) /\ y = Number(b) /\ h = Numbers \div 2 /\ n = Numbers
  <2>1. Number(a) \in Nat /\ Number(b) \in Nat
    BY <1>1, NumberValue DEF Index
  <2> QED
    BY <1>1, <2>1
<1>3. Minus(a, b) = IF x >= y THEN x - y ELSE x - y + n
  BY <1>1, <1>2, SameStart DEF Number
<1>4. a # b => x # y
  BY <1>2, NumberValue
<1>5. x < n /\ y < n /\ n = h + h
  BY <1>1, <1>2, NumberValue DEF Index
<1>6. Less(a, b) <=> Minus(a, b) > h
  BY <1>2 DEF Less
<1>7. x <= y /\ y - x < h /\ a # b => Less(a, b)
  BY <1>3, <1>4, <1>5, <1>6
<1>8. y <= x /\ x - y <= h => ~Less(a, b)
  BY <1>3, <1>5, <1>6
<1> QED
  BY <1>2, <1>7, <1>8

\* The entries of the index, oldest first.
LEMMA OldestFirst ==
  ASSUME WindowsFit, ShareIInv, ClaimsOK, NEW g \in Histories, StoreOK(g), ppc = "idle",
         NEW k \in 0 .. pr.used - 1
  PROVE  /\ Last.entries[(pr.front - pr.used + k) % Capacity(Last)]
              = [base |-> BaseOf(Oldest(g) + k), block |-> g.home[Oldest(g) + k]]
         /\ Oldest(g) + k \in Oldest(g) .. g.n - 1 /\ Oldest(g) + k \in Nat
<1> HIDE DEF Numbers
<1>1. RingOK(g) /\ IndexOK(g) /\ EnqOK(g) /\ Written(g) = g.n /\ Fronted(g) = g.n
  BY DEF StoreOK, EnqOK, Written, Fronted, Unlisted, Lone
<1>2. PICK o \in Nat, u \in Nat, n \in Nat, t \in Int :
        o = Oldest(g) /\ u = pr.used /\ n = g.n /\ t = pr.front /\ o = n - u
  BY <1>1, Shape
<1>3. PICK m \in Nat : m = o + k /\ m \in o .. n - 1 /\ n + (k - u) = m /\ (t - u) + k = t + (k - u)
  BY <1>2
<1>4. headers \in Seq(Headers) /\ headers # << >>
  BY <1>1, <1>2 DEF IndexOK
<1>5. PICK j : j = Len(headers) /\ j \in 1 .. Len(headers) /\ Last = headers[j]
  BY <1>4, LastFacts
<1>6. t = SlotOf(g, j, n)
  BY <1>1, <1>2, <1>4, <1>5 DEF IndexOK
<1>7. (t + (k - u)) % Capacity(Last) = SlotOf(g, j, m)
  <2>1. \A q, i \in Int : (SlotOf(g, j, q) + i) % Capacity(headers[j]) = SlotOf(g, j, q + i)
    BY <1>4, <1>5, SlotFacts
  <2>2. n \in Int /\ k - u \in Int
    BY <1>2
  <2>3. (SlotOf(g, j, n) + (k - u)) % Capacity(headers[j]) = SlotOf(g, j, n + (k - u))
    BY <2>1, <2>2
  <2> QED
    BY <1>3, <1>5, <1>6, <2>3
<1>8. Lists(g, j, m)
  BY <1>1, <1>2, <1>3, <1>4, <1>5 DEF IndexOK
<1>9. Last.entries[SlotOf(g, j, m)] = [base |-> BaseOf(m), block |-> g.home[m]]
  BY <1>5, <1>8 DEF Lists
<1>10. (pr.front - pr.used + k) % Capacity(Last) = SlotOf(g, j, m)
  BY <1>2, <1>3, <1>7
<1> QED
  BY <1>2, <1>3, <1>9, <1>10

\* The destructor finds the block that is half dequeued.
LEMMA HalfBlock ==
  ASSUME WindowsFit, ShareIInv, ClaimsOK, NEW g \in Histories, StoreOK(g), Quiet
  PROVE  /\ Slot(headIndex) = 0 => HalfDequeuedBlock = NoBlock
         /\ Slot(headIndex) # 0 => /\ HeadNo \in Oldest(g) .. g.n - 1
                                   /\ HalfDequeuedBlock = g.home[HeadNo]
<1> HIDE DEF Numbers
<1>1. CASE Slot(headIndex) = 0
  BY <1>1 DEF HalfDequeuedBlock
<1>2. CASE Slot(headIndex) # 0
  <2>1. RingOK(g) /\ IndexOK(g) /\ EnqOK(g) /\ FlagsOK(g) /\ g.n = Committed
    BY QuietFacts DEF StoreOK
  <2>2. /\ Filled \in Nat /\ Emptied \in Nat /\ Emptied <= Filled /\ Filled <= MaxEnqueued
        /\ MaxEnqueued \in Nat /\ MaxEnqueued < Numbers \div 2 /\ Numbers \div 2 \in Nat
        /\ BlockSize \in Nat \ {0} /\ BlockSize <= Numbers \div 2 /\ headIndex \in Index
        /\ Numbers \in Nat /\ Numbers \div 2 < Numbers
    BY Basics
  <2>3. PICK H \in Nat, p \in Nat, e \in Nat :
          /\ H = HeadNo /\ p = H * BlockSize /\ e = Slot(headIndex)
          /\ Emptied = p + e /\ e < BlockSize /\ e > 0
    BY <1>2, <2>2, HeadFacts DEF Slots
  <2>4. PICK o \in Nat, u \in Nat, n \in Nat : o = Oldest(g) /\ u = pr.used /\ n = g.n /\ o = n - u
    BY <2>1, Shape
  <2>5. H < n
    <3>1. Filled <= n * BlockSize /\ n * BlockSize \in Nat
      BY <2>1, <2>4, CommittedValue
    <3>2. H * BlockSize < n * BlockSize
      BY <2>2, <2>3, <3>1
    <3> QED
      BY <2>2, <2>3, <2>4, <3>2, Order
  <2>6. o <= H
    <3>1. Emptied \in Within(H)
      BY <2>2, <2>3, QuotientWithin DEF HeadNo
    <3>2. ~Consumed(Emptied)
      BY <2>2 DEF Consumed
    <3>3. H \notin 0 .. o - 1
      BY <2>1, <2>4, <3>1, <3>2 DEF FlagsOK
    <3> QED
      BY <2>3, <2>4, <3>3
  <2>7. ASSUME NEW m \in Nat, m < n
        PROVE  /\ (m + 1) * BlockSize \in Index /\ Plus(BaseOf(m), BlockSize) \in Index
               /\ Number(Plus(BaseOf(m), BlockSize)) = (m + 1) * BlockSize
    <3>1. m + 1 \in Nat /\ m + 1 <= g.n
      BY <2>4, <2>7
    <3>2. (m + 1) * BlockSize \in Index
      BY <2>1, <3>1, BlockInRange
    <3>3. BaseOf(m + 1) \in Index /\ Number(BaseOf(m + 1)) = (m + 1) * BlockSize
      BY <3>1, <3>2, BaseOfValue
    <3>4. Plus(BaseOf(m), BlockSize) = BaseOf(m + 1)
      <4>1. (BaseOf(m) + 1 * BlockSize) % Numbers = BaseOf(m + 1)
        BY <2>7, BaseNext
      <4>2. 1 * BlockSize = BlockSize
        BY <2>2
      <4> QED
        BY <4>1, <4>2 DEF Plus
    <3> QED
      BY <3>2, <3>3, <3>4
  <2>8. ASSUME NEW m \in Nat, m < H PROVE Less(Plus(BaseOf(m), BlockSize), headIndex)
    <3>1. PICK a \in Index : /\ a = Plus(BaseOf(m), BlockSize)
                             /\ Number(a) = (m + 1) * BlockSize /\ Number(a) \in Nat
      <4>1. m < n
        BY <2>3, <2>4, <2>5, <2>8
      <4>2. (m + 1) * BlockSize \in Nat
        BY <2>2
      <4> QED
        BY <2>7, <4>1, <4>2
    <3>2. Number(a) <= p
      <4>1. m * BlockSize + BlockSize <= H * BlockSize
        BY <2>2, <2>3, <2>8, Multiples
      <4>2. (m + 1) * BlockSize = m * BlockSize + BlockSize
        BY WithinValue
      <4> QED
        BY <2>3, <3>1, <4>1, <4>2
    <3>3. Number(headIndex) = p + e /\ p + e < Numbers \div 2
      <4>1. Number(headIndex) = Emptied
        BY DEF Number, Emptied
      <4> QED
        BY <2>2, <2>3, <4>1
    <3>4. a # headIndex
      BY <2>3, <3>1, <3>2, <3>3
    <3>5. Number(a) <= Number(headIndex) /\ Number(headIndex) - Number(a) < Numbers \div 2
      BY <2>2, <2>3, <3>1, <3>2, <3>3
    <3> QED
      BY <2>2, <3>1, <3>4, <3>5, LessApart
  <2>9. ~Less(Plus(BaseOf(H), BlockSize), headIndex)
    <3>1. PICK a \in Index : /\ a = Plus(BaseOf(H), BlockSize)
                             /\ Number(a) = (H + 1) * BlockSize
      BY <2>5, <2>7
    <3>2. Number(a) = p + BlockSize
      <4>1. (H + 1) * BlockSize = H * BlockSize + BlockSize
        BY WithinValue
      <4> QED
        BY <2>3, <3>1, <4>1
    <3>3. Number(headIndex) = p + e
      <4>1. Number(headIndex) = Emptied
        BY DEF Number, Emptied
      <4> QED
        BY <2>3, <4>1
    <3>4. Number(headIndex) <= Number(a) /\ Number(a) - Number(headIndex) <= Numbers \div 2
      BY <2>2, <2>3, <3>2, <3>3
    <3> QED
      BY <2>2, <3>1, <3>4, LessApart
  <2> DEFINE entry(k) == Last.entries[(pr.front - pr.used + k) % Capacity(Last)]
             reaches(k) == ~Less(Plus(entry(k).base, BlockSize), headIndex)
  <2>10. ASSUME NEW k \in 0 .. u - 1
         PROVE  entry(k).base = BaseOf(o + k) /\ entry(k).block = g.home[o + k] /\ o + k \in Nat
    <3>1. k \in 0 .. pr.used - 1
      BY <2>4, <2>10
    <3>2. /\ entry(k) = [base |-> BaseOf(Oldest(g) + k), block |-> g.home[Oldest(g) + k]]
          /\ Oldest(g) + k \in Nat
      BY <3>1, OldestFirst DEF Quiet
    <3> HIDE DEF entry
    <3>3. PICK x, m : x = entry(k) /\ m = o + k
      OBVIOUS
    <3>4. x = [base |-> BaseOf(m), block |-> g.home[m]] /\ m \in Nat
      BY <2>4, <3>2, <3>3
    <3>5. x.base = BaseOf(m) /\ x.block = g.home[m]
      BY <3>4
    <3> QED
      BY <3>3, <3>4, <3>5
  <2> HIDE DEF entry
  <2>11. PICK ks : ks = {k \in 0 .. pr.used - 1 : reaches(k)}
    OBVIOUS
  <2>12. PICK i \in Nat : i = H - o /\ o + i = H /\ i \in 0 .. u - 1
    BY <2>3, <2>4, <2>5, <2>6
  <2>13. i \in ks
    BY <2>4, <2>9, <2>10, <2>11, <2>12
  <2>14. \A k \in ks : i <= k
    <3>1. ASSUME NEW k \in ks, k < i PROVE FALSE
      <4>1. k \in 0 .. u - 1 /\ reaches(k)
        BY <2>4, <2>11, <3>1
      <4>2. o + k \in Nat /\ o + k < H /\ entry(k).base = BaseOf(o + k)
        BY <2>3, <2>4, <2>10, <2>12, <3>1, <4>1
      <4> QED
        BY <2>8, <4>1, <4>2
    <3>2. \A k \in ks : k \in Nat
      BY <2>4, <2>11
    <3> QED
      BY <3>1, <3>2
  <2>15. Min(ks) = i
    <3>1. \A k \in ks : (\A y \in ks : k <= y) => k = i
      <4>1. \A k \in ks : k \in Nat
        BY <2>4, <2>11
      <4> QED
        BY <2>13, <2>14, <4>1
    <3> QED
      BY <2>13, <2>14, <3>1 DEF Min
  <2>16. HalfDequeuedBlock = entry(Min(ks)).block
    <3>1. ks # {}
      BY <2>13
    <3> QED
      BY <1>2, <2>11, <3>1 DEF HalfDequeuedBlock, entry
  <2> QED
    BY <1>2, <2>3, <2>4, <2>5, <2>6, <2>10, <2>12, <2>15, <2>16
<1> QED
  BY <1>1, <1>2

\* It takes for elements what is stored, and nothing else.
LEMMA TakenStored ==
  ASSUME WindowsFit, ShareIInv, ClaimsOK, NEW g \in Histories, StoreOK(g), Quiet,
         NEW b \in Blocks, NEW s \in Slots
  PROVE  s \in TakenForElements(b) <=> \E n \in Stored : Home(g, n) = b /\ n % BlockSize = s
<1> HIDE DEF Numbers
<1>1. RingOK(g) /\ EnqOK(g) /\ FlagsOK(g) /\ g.n = Committed
  BY QuietFacts DEF StoreOK
<1>2. /\ Stored = Emptied .. Filled - 1 /\ \A n : Consumed(n) <=> n < Emptied
  BY QuietFacts
<1>3. Ring = {g.home[m] : m \in Oldest(g) .. g.n - 1} /\ Ring = Blocks \ freeBlocks
  BY <1>1, RingBlocks
<1>4. CASE b \in freeBlocks
  <2>1. s \notin TakenForElements(b)
    BY <1>3, <1>4 DEF TakenForElements
  <2>2. \A n \in Stored : Home(g, n) # b
    BY <1>4, StoredFacts
  <2> QED
    BY <2>1, <2>2
<1>5. CASE b \notin freeBlocks
  <2>1. PICK k \in Nat \ {0}, E \in Nat, F \in Nat : k = BlockSize /\ E = Emptied /\ F = Filled
    BY Basics
  <2>2. PICK o \in Nat, n \in Nat : o = Oldest(g) /\ n = g.n
    BY <1>1, Shape
  <2>3. PICK m \in Nat : m \in o .. n - 1 /\ g.home[m] = b
    BY <1>1, <1>5, <2>2 DEF RingOK
  <2>4. PICK H \in Nat, p \in Nat, e \in Nat :
          /\ H = HeadNo /\ p = H * k /\ e = Slot(headIndex) /\ E = p + e /\ e < k
    BY <2>1, HeadFacts DEF Slots
  <2>5. PICK T \in Nat, q \in Nat, t \in Nat :
          /\ T = TailNo /\ q = T * k /\ t = Slot(tailIndex) /\ F = q + t /\ t < k
          /\ n = IF t = 0 THEN T ELSE T + 1
    <3>1. TailNo * k \in Nat
      BY <2>1, TailBlockNo
    <3> QED
      BY <1>1, <2>1, <2>2, <3>1, TailBlockNo DEF Slots
  <2>6. PICK y \in Nat, x \in Nat : y = m * k /\ x = y + s /\ s \in Nat /\ s < k
    BY <2>1 DEF Slots
  <2>7. /\ m < H => y + k <= p
        /\ H < m => p + k <= y
        /\ m < T => y + k <= q
        /\ m = H => y = p
        /\ m = T => y = q
    BY <2>1, <2>3, <2>4, <2>5, <2>6, Multiples
  <2>8. ~IsEmpty(b) <=> H <= m
    <3>1. emptied[b] = Used(m)
      BY <1>1, <2>2, <2>3 DEF FlagsOK
    <3>2. Used(m) = {i % BlockSize : i \in {j \in Within(m) : j < E}}
      BY <1>2, <2>1 DEF Used
    <3>3. Within(m) = y .. y + k - 1
      BY <2>1, <2>6 DEF Within
    <3>4. CASE H <= m
      <4>1. PICK z \in Nat : z = y + (k - 1) /\ z \in Within(m) /\ E <= z
        <5>1. E <= y + (k - 1)
          BY <2>1, <2>4, <2>6, <2>7, <3>4
        <5>2. y + (k - 1) \in y .. y + k - 1
          BY <2>1, <2>6
        <5> QED
          BY <2>1, <2>6, <3>3, <5>1, <5>2
      <4>2. z % BlockSize \notin Used(m)
        <5>1. ASSUME NEW i \in Within(m), i < E, i % BlockSize = z % BlockSize PROVE FALSE
          <6>1. i \div BlockSize = m /\ z \div BlockSize = m /\ i \in Nat
            BY <4>1, <5>1, WithinQuotient
          <6>2. i = z
            BY <4>1, <5>1, <6>1, QuotientWithin
          <6> QED
            BY <2>1, <4>1, <5>1, <6>2
        <5> QED
          BY <3>2, <5>1
      <4>3. z % BlockSize \in Slots
        BY <4>1, QuotientWithin
      <4> QED
        BY <3>1, <3>4, <4>2, <4>3 DEF IsEmpty
    <3>5. CASE ~(H <= m)
      <4>1. \A i \in Within(m) : i < E
        <5>1. y + k <= p
          BY <2>3, <2>4, <2>7, <3>5
        <5> QED
          BY <2>1, <2>4, <2>6, <3>3, <5>1
      <4>2. ASSUME NEW r \in Slots PROVE r \in Used(m)
        <5>1. PICK i \in Nat : i = y + r /\ i \in Within(m)
          BY <2>1, <2>6, <3>3, <4>2 DEF Slots
        <5>2. i \div BlockSize = m /\ i = m * BlockSize + (i % BlockSize) /\ i % BlockSize \in Slots
          BY <5>1, WithinQuotient, QuotientWithin
        <5>3. i % BlockSize = r
          BY <2>1, <2>6, <4>2, <5>1, <5>2 DEF Slots
        <5>4. i < E
          BY <4>1, <5>1
        <5> QED
          BY <3>2, <5>1, <5>3, <5>4
      <4>3. Used(m) \subseteq Slots
        <5>1. \A i \in Within(m) : i % BlockSize \in Slots
          BY <2>3, WithinValue, QuotientWithin
        <5> QED
          BY <3>2, <5>1
      <4> QED
        BY <3>1, <3>5, <4>2, <4>3 DEF IsEmpty
    <3> QED
      BY <3>4, <3>5
  <2>9. b = HalfDequeuedBlock <=> e # 0 /\ m = H
    <3>1. e = 0 => HalfDequeuedBlock = NoBlock
      BY <2>4, HalfBlock
    <3>2. e # 0 => H \in o .. n - 1 /\ HalfDequeuedBlock = g.home[H]
      BY <2>2, <2>4, HalfBlock
    <3>3. b # NoBlock
      BY ExplicitAssumption DEF ExplicitAssumption
    <3>4. e # 0 => (g.home[m] = g.home[H] <=> m = H)
      BY <1>1, <2>2, <2>3, <3>2 DEF RingOK
    <3> QED
      BY <2>3, <3>1, <3>2, <3>3, <3>4
  <2>10. b = tailBlock <=> m = n - 1
    <3>1. tailBlock = g.home[n - 1] /\ n - 1 \in o .. n - 1
      BY <1>1, <2>2, <2>3 DEF RingOK
    <3> QED
      BY <1>1, <2>2, <2>3, <3>1 DEF RingOK
  <2>11. s \in TakenForElements(b) <=> E <= x /\ x < F
    <3>1. b \in Ring
      BY <1>3, <1>5
    <3>2. s \in TakenForElements(b) <=>
            H <= m /\ (e # 0 /\ m = H => s >= e) /\ (m = n - 1 /\ t # 0 => s < t)
      BY <2>4, <2>5, <2>8, <2>9, <2>10, <3>1 DEF TakenForElements
    <3>3. E <= x <=> H <= m /\ (e # 0 /\ m = H => s >= e)
      BY <2>1, <2>3, <2>4, <2>6, <2>7
    <3>4. x < F <=> (m = n - 1 /\ t # 0 => s < t)
      BY <2>1, <2>3, <2>5, <2>6, <2>7
    <3> QED
      BY <3>2, <3>3, <3>4
  <2>12. x \in Within(m) /\ x % BlockSize = s /\ x \div BlockSize = m /\ Home(g, x) = b
    <3>1. x \in Within(m)
      BY <2>1, <2>6 DEF Within
    <3>2. x \div BlockSize = m /\ x = m * BlockSize + (x % BlockSize) /\ x % BlockSize \in Slots
      BY <3>1, WithinQuotient, QuotientWithin
    <3>3. x % BlockSize = s
      BY <2>1, <2>6, <3>2 DEF Slots
    <3> QED
      BY <2>3, <3>1, <3>2, <3>3 DEF Home
  <2>13. ASSUME NEW i \in Stored, Home(g, i) = b, i % BlockSize = s PROVE i = x
    <3>1. i \in Nat /\ i \div BlockSize \in Oldest(g) .. g.n - 1
      BY <2>13, StoredFacts
    <3>2. x \div BlockSize \in Oldest(g) .. g.n - 1
      BY <2>2, <2>3, <2>12
    <3> QED
      BY <1>1, <2>6, <2>12, <2>13, <3>1, <3>2, HomesApart
  <2>14. x \in Stored <=> E <= x /\ x < F
    BY <1>2, <2>1, <2>6
  <2> QED
    BY <2>11, <2>12, <2>13, <2>14
<1> QED
  BY <1>4, <1>5

\* The destructor destroys the elements that are left, and gives all blocks back.
LEMMA DestroyCells ==
  ASSUME WindowsFit, ShareIInv, ClaimsOK, NEW g \in Histories, StoreOK(g), CellsOK(g), Destroy
  PROVE  DestroysAll'
<1> HIDE DEF Numbers
<1>1. Quiet /\ RingOK(g)
  BY DEF Destroy, Quiet, StoreOK
<1>2. freeBlocks' = Blocks
  <2>1. Ring = Blocks \ freeBlocks /\ freeBlocks \subseteq Blocks
    BY <1>1, RingBlocks DEF RingOK
  <2> QED
    BY <2>1 DEF Destroy
<1>3. ASSUME NEW b \in Blocks, NEW s \in Slots PROVE cell'[b][s] = Vacant
  <2>1. cell'[b][s] = IF s \notin TakenForElements(b) THEN cell[b][s]
                      ELSE IF cell[b][s] = Vacant THEN Wrecked ELSE Vacant
    BY <1>3 DEF Destroy
  <2>2. CASE s \notin TakenForElements(b)
    <3>1. ~\E n \in Stored : Home(g, n) = b /\ n % BlockSize = s
      BY <1>1, <1>3, <2>2, TakenStored
    <3> QED
      BY <1>3, <2>1, <2>2, <3>1 DEF CellsOK
  <2>3. CASE s \in TakenForElements(b)
    <3>1. PICK n \in Stored : Home(g, n) = b /\ n % BlockSize = s
      BY <1>1, <1>3, <2>3, TakenStored
    <3>2. cell[b][s] = Element(n) /\ n \in Index
      BY <3>1, StoredFacts DEF CellsOK
    <3>3. Element(n) # Vacant
      BY <3>2, ElementValue DEF Index, Vacant
    <3> QED
      BY <2>1, <2>3, <3>2, <3>3
  <2> QED
    BY <2>2, <2>3
<1> QED
  BY <1>2, <1>3 DEF DestroysAll, Slots

\* When the producer is idle, the index lists the ring.
LEMMA RingListed ==
  ASSUME WindowsFit, ShareIInv, ClaimsOK, NEW g \in Histories, StoreOK(g)
  PROVE  EveryBlockListed
<1> HIDE DEF Numbers
<1>1. RingOK(g) /\ EnqOK(g)
  BY DEF StoreOK
<1>2. PICK o \in Nat, u \in Nat, n \in Nat, t \in Int :
        o = Oldest(g) /\ u = pr.used /\ n = g.n /\ t = pr.front /\ o = n - u
  BY <1>1, Shape
<1>3. ASSUME ppc = "idle", NEW b \in Ring
      PROVE  \E k \in 1 .. pr.used : Last.entries[(pr.front - k) % Capacity(Last)].block = b
  <2>1. PICK m \in o .. n - 1 : g.home[m] = b
    BY <1>1, <1>2, <1>3, RingBlocks
  <2>2. PICK i \in 0 .. u - 1, k \in 1 .. u : i = m - o /\ k = n - m /\ o + i = m /\ (t - u) + i = t - k
    BY <1>2
  <2>3. Last.entries[(pr.front - pr.used + i) % Capacity(Last)]
          = [base |-> BaseOf(Oldest(g) + i), block |-> g.home[Oldest(g) + i]]
    BY <1>2, <1>3, <2>2, OldestFirst
  <2>4. pr.front - pr.used + i = pr.front - k
    BY <1>2, <2>2
  <2>5. Last.entries[(pr.front - k) % Capacity(Last)].block = g.home[m]
    BY <1>2, <2>2, <2>3, <2>4
  <2> QED
    BY <1>2, <2>1, <2>5
<1> QED
  BY <1>3 DEF EveryBlockListed

------------------------------------------------------------------------------
(* All steps.                                                              *)

\* The consumers' steps.
LEMMA DequeueCells ==
  ASSUME WindowsFit, ShareIInv, ClaimsOK, NEW g \in Histories, StoreOK(g), CellsOK(g),
         \A d \in Consumers : GotOK(d), NEW c \in Consumers, Dequeue(c)
  PROVE  CellsOK(g)' /\ \A d \in Consumers : GotOK(d)'
<1> HIDE DEF Numbers
<1>1. CellsOK(g)' /\ GotOK(c)' /\ ConsumerStep(c)
  <2>1. GotOK(c)
    OBVIOUS
  <2>2. CASE Begin(c) \/ Share(c)
    BY <2>2, ShareCells
  <2>3. CASE LoadHeader(c) \/ LoadFront(c) \/ LoadBase(c)
    BY <2>1, <2>3, LookingCells
  <2>4. CASE Move(c)
    BY <2>1, <2>4, MoveCells
  <2>5. CASE SetEmpty(c)
    BY <2>1, <2>5, SetEmptyCells
  <2> QED
    BY <2>2, <2>3, <2>4, <2>5 DEF Dequeue
<1>2. ASSUME NEW d \in Consumers PROVE GotOK(d)'
  <2>1. CASE d = c
    BY <1>1, <2>1
  <2>2. CASE d # c
    BY <1>1, <2>2, OthersStill
  <2> QED
    BY <2>1, <2>2
<1> QED
  BY <1>1, <1>2

\* Consumers that do nothing keep what they have got.
LEMMA GotStill ==
  ASSUME ClaimsStill, \A c \in Consumers : GotOK(c)
  PROVE  \A c \in Consumers : GotOK(c)'
<1> SUFFICES ASSUME NEW c \in Consumers PROVE GotOK(c)'
  OBVIOUS
<1>1. cpc' = cpc /\ call' = call
  BY DEF ClaimsStill
<1>2. Moved(c)' = Moved(c) /\ First(c)' = First(c)
  BY SameClaims, UnmovedStill
<1> QED
  BY <1>1, <1>2 DEF GotOK

\* The producer's steps leave the consumers alone.
LEMMA EnqueueClaims ==
  ASSUME Enqueue
  PROVE  ClaimsStill /\ ppc' # "destroyed"
  BY DEF Enqueue, BeginEnqueue, ReuseAhead, NothingAhead, CheckRoom, Grow, CannotGrow,
     Requisition, NoRequisition, Undo, Restore, ResetBlocks, AddIndexEntry, StoreFront,
     Construct, Throw, Commit, ConstructOrPublish, EndCall, ProducerGoto,
     ClaimsStill, claimVars, counters

\* Nothing is stored at first.
LEMMA InitCInv ==
  ASSUME WindowsFit, Init, ShareIInv
  PROVE  CInv
<1> HIDE DEF Numbers
<1>1. ClaimsOK
  BY InitIInv
<1>2. PICK g \in Histories : StoreOK(g)
  BY InitIInv
<1>3. ClaimInit /\ ppc = "idle" /\ cell = [b \in Blocks |-> [s \in Slots |-> Vacant]]
  BY DEF Init
<1>4. \A c \in Consumers : cpc[c] = "idle"
  BY <1>3 DEF ClaimInit
<1>5. Quiet
  BY <1>3, <1>4 DEF Quiet
<1>6. Filled = Emptied
  BY <1>3 DEF ClaimInit, Filled, Emptied
<1>7. Stored = {}
  <2>1. Stored = Emptied .. Filled - 1 /\ Filled \in Nat
    BY <1>1, <1>2, <1>5, QuietFacts, Basics
  <2> QED
    BY <1>6, <2>1
<1>8. CellsOK(g)
  <2>1. DOMAIN cell = Blocks /\ \A b \in Blocks : DOMAIN cell[b] = Slots
    BY <1>3
  <2>2. \A b \in Blocks : \A s \in Slots : cell[b][s] = Vacant
    BY <1>3
  <2> QED
    BY <1>7, <2>1, <2>2 DEF CellsOK
<1>9. \A c \in Consumers : GotOK(c)
  BY <1>4 DEF GotOK, LookupPcs
<1>10. DestroysAll
  BY <1>3 DEF DestroysAll
<1> QED
  BY <1>1, <1>2, <1>8, <1>9, <1>10 DEF CInv

LEMMA NextCInv ==
  ASSUME WindowsFit, ~PartialFailure, ~ThrowsLate, CInv, [Next]_vars, ShareIInv'
  PROVE  CInv'
<1> HIDE DEF Numbers
<1>1. ShareIInv /\ ClaimsOK /\ DestroysAll
  BY DEF CInv
<1>2. \A c \in Consumers : GotOK(c)
  BY DEF CInv
<1>3. ASSUME ppc' # "destroyed" PROVE DestroysAll'
  BY <1>3 DEF DestroysAll
<1>4. CASE ppc = "destroyed"
  <2>1. UNCHANGED vars
    BY <1>1, <1>4, DestroyedStep
  <2>2. /\ ppc' = "destroyed" /\ ClaimsStill
        /\ freeBlocks' = freeBlocks /\ cell' = cell
    BY <1>4, <2>1 DEF vars, claimVars, counters, storage, producerVars, ClaimsStill
  <2>3. ClaimsOK'
    BY <1>1, <1>4, <2>2, ClaimsStillStep DEF ClaimsOK
  <2>4. \A c \in Consumers : GotOK(c)'
    BY <1>2, <2>2, GotStill
  <2>5. DestroysAll'
    BY <1>1, <1>4, <2>2 DEF DestroysAll
  <2> QED
    BY <2>2, <2>3, <2>4, <2>5 DEF CInv
<1>5. CASE ppc # "destroyed"
  <2>1. PICK g \in Histories : StoreOK(g) /\ CellsOK(g)
    BY <1>5 DEF CInv
  <2>2. CASE Enqueue
    <3>1. ClaimsStill /\ ppc' # "destroyed"
      BY <2>2, EnqueueClaims
    <3>2. ClaimsOK'
      BY <1>1, <2>1, <2>2, EnqueueInv
    <3>3. \E f \in Histories : StoreOK(f)' /\ CellsOK(f)'
      BY <1>1, <2>1, <2>2, EnqueueCells
    <3>4. \A c \in Consumers : GotOK(c)'
      BY <1>2, <3>1, GotStill
    <3> QED
      BY <1>3, <3>1, <3>2, <3>3, <3>4 DEF CInv
  <2>3. ASSUME NEW c \in Consumers, Dequeue(c) PROVE CInv'
    <3>1. ClaimsOK' /\ StoreOK(g)'
      BY <1>1, <2>1, <2>3, DequeueInv
    <3>2. CellsOK(g)' /\ \A d \in Consumers : GotOK(d)'
      BY <1>1, <1>2, <2>1, <2>3, DequeueCells
    <3>3. ppc' = ppc
      BY <2>3 DEF Dequeue, Begin, Share, LoadHeader, LoadFront, LoadBase, Move, SetEmpty,
         producerVars
    <3> QED
      BY <1>3, <1>5, <3>1, <3>2, <3>3 DEF CInv
  <2>4. CASE Destroy
    <3>1. ClaimsOK' /\ ppc' = "destroyed" /\ \A c \in Consumers : cpc'[c] = "idle"
      BY <2>4, DestroyStep
    <3>2. DestroysAll'
      BY <1>1, <2>1, <2>4, DestroyCells
    <3>3. \A c \in Consumers : GotOK(c)'
      BY <3>1 DEF GotOK, LookupPcs
    <3> QED
      BY <3>1, <3>2, <3>3 DEF CInv
  <2>5. CASE UNCHANGED vars
    <3>1. ClaimsOK' /\ StoreOK(g)'
      BY <1>1, <2>1, <2>5, StutterStep
    <3>2. /\ tailIndex' = tailIndex /\ cell' = cell /\ ppc' = ppc /\ enq' = enq /\ ClaimsStill
      BY <2>5 DEF vars, claimVars, counters, storage, producerVars, ClaimsStill
    <3>3. /\ Emptied' = Emptied /\ \A c \in Consumers : Unmoved(c)' = Unmoved(c)
      BY <3>2, UnmovedStill
    <3>4. Stored' = Stored
      <4>1. Constructed' = Constructed
        BY <3>2, SameTail DEF Constructed, Made
      <4> QED
        BY <3>3, <4>1 DEF Stored
    <3>5. SameHomes(g, g)
      BY DEF SameHomes
    <3>6. CellsOK(g)'
      BY <1>1, <2>1, <3>2, <3>4, <3>5, CellsStill
    <3>7. \A c \in Consumers : GotOK(c)'
      BY <1>2, <3>2, GotStill
    <3> QED
      BY <1>3, <1>5, <3>1, <3>2, <3>6, <3>7 DEF CInv
  <2> QED
    BY <2>2, <2>3, <2>4, <2>5 DEF Next
<1> QED
  BY <1>4, <1>5

LEMMA CInvariance ==
  ASSUME WindowsFit, ~PartialFailure, ~ThrowsLate
  PROVE  Spec => []CInv
<1>1. Init /\ ShareIInv => CInv
  BY InitCInv
<1>2. CInv /\ [Next]_vars /\ ShareIInv' => CInv'
  BY NextCInv
<1>3. Spec => []ShareIInv
  BY ShareInvariance
<1> QED
  BY <1>1, <1>2, <1>3, PTL DEF Spec

\* A consumer that has claimed elements finds exactly those in the block that it has
\* looked up, and their flags down until it sets them (concurrentqueue.h:1504, :1526),
\* whatever the producer and the other consumers do meanwhile.
THEOREM ElementsAlwaysRead ==
  ASSUME WindowsFit, ~PartialFailure, ~ThrowsLate
  PROVE  Spec => []ReadsItsElements
<1>1. CInv => ReadsItsElements
  <2> SUFFICES ASSUME CInv PROVE ReadsItsElements
    OBVIOUS
  <2>1. CASE ppc = "destroyed"
    <3>1. \A c \in Consumers : cpc[c] = "idle"
      BY <2>1 DEF CInv, ClaimsOK
    <3> QED
      BY <3>1 DEF ReadsItsElements
  <2>2. CASE ppc # "destroyed"
    <3>1. PICK g \in Histories : StoreOK(g) /\ CellsOK(g)
      BY <2>2 DEF CInv
    <3> QED
      BY <3>1, ElementsThere DEF CInv
  <2> QED
    BY <2>1, <2>2
<1> QED
  BY <1>1, CInvariance, PTL

\* The producer constructs elements only where none is and whose flags are down, in the
\* rest of its tail block, in blocks that it uses again and in new ones
\* (concurrentqueue.h:2081-2105).
THEOREM VacantCellsAlwaysFilled ==
  ASSUME WindowsFit, ~PartialFailure, ~ThrowsLate
  PROVE  Spec => []ConstructsInVacant
<1>1. CInv => ConstructsInVacant
  <2> SUFFICES ASSUME CInv, ppc = "construct" PROVE ConstructsInVacant
    BY DEF ConstructsInVacant
  <2>1. PICK g \in Histories : StoreOK(g) /\ CellsOK(g)
    BY DEF CInv
  <2> QED
    BY <2>1, RoomToConstruct DEF CInv
<1> QED
  BY <1>1, CInvariance, PTL

\* The destructor destroys every element that is left, nothing twice and nothing that
\* was never constructed, and gives back every block (concurrentqueue.h:1704-1767), if no
\* batch fails halfway and no constructor throws in a call that has prepared blocks.
THEOREM AllAlwaysDestroyed ==
  ASSUME WindowsFit, ~PartialFailure, ~ThrowsLate
  PROVE  Spec => []DestroysAll
<1>1. CInv => DestroysAll
  BY DEF CInv
<1> QED
  BY <1>1, CInvariance, PTL

\* Between two calls of the producer the slots of the block index that are in use list
\* every block of the ring, so that the next entry overwrites none that is needed
\* (concurrentqueue.h:1783).
THEOREM BlocksAlwaysListed ==
  ASSUME WindowsFit, ~PartialFailure, ~ThrowsLate
  PROVE  Spec => []EveryBlockListed
<1>1. CInv => EveryBlockListed
  <2> SUFFICES ASSUME CInv, ppc = "idle" PROVE EveryBlockListed
    BY DEF EveryBlockListed
  <2>1. PICK g \in Histories : StoreOK(g) /\ CellsOK(g)
    BY DEF CInv
  <2> QED
    BY <2>1, RingListed DEF CInv
<1> QED
  BY <1>1, CInvariance, PTL

------------------------------------------------------------------------------
(* The abstract queue, in the numbers that do not wrap around.             *)

ConsumerPcs == {"idle", "overcommit", "examine", "promise", "reload", "giveBack", "claim"}
                 \cup ClaimedPcs
CallsOK == OwedOK /\ enq.count <= MaxBulk /\ \A c \in Consumers : cpc[c] \in ConsumerPcs

FInv == CInv /\ CallsOK

Queue == IF ppc = "destroyed" THEN << >>
         ELSE [k \in 1 .. Filled - Emptied |-> Element(Emptied + (k - 1))]
Holding(c) == IF cpc[c] \in ClaimedPcs
              THEN [k \in 1 .. call[c].count |-> Element(First(c) + (k - 1))] ELSE << >>

\* The block index leads to each element that is stored, from its front on.
LEMMA ElementFound ==
  ASSUME WindowsFit, ShareIInv, ClaimsOK, NEW g \in Histories, StoreOK(g), CellsOK(g),
         NEW n \in Stored, n < Filled
  PROVE  ElementAt(Element(n)) = Element(n)
<1> HIDE DEF Numbers
<1>0. RingOK(g) /\ IndexOK(g) /\ EnqOK(g)
  BY DEF StoreOK
<1>1. /\ n \in Nat /\ n \in Index /\ n < MaxEnqueued /\ n % BlockSize \in Slots
      /\ Home(g, n) \in Blocks
  BY StoredFacts
<1>2. PICK m \in Nat : /\ m = n \div BlockSize /\ m \in Oldest(g) .. g.n - 1
                       /\ n \in Within(m)
  BY StoredFacts
<1>3. /\ Filled \in Nat /\ MaxEnqueued \in Nat /\ MaxEnqueued < Numbers \div 2
      /\ Numbers \div 2 \in Nat /\ BlockSize \in Nat \ {0}
  BY Basics
<1>4. /\ Committed \in Nat /\ g.n \in Nat /\ Committed <= g.n /\ Oldest(g) \in Nat
      /\ pr.used \in Nat /\ Oldest(g) = g.n - pr.used
  BY <1>0, Shape
<1>5. m < Committed
  <2>1. PICK x \in Nat : x = m * BlockSize /\ x <= n
    <3>1. m * BlockSize \in Nat
      BY <1>2, <1>3
    <3> QED
      BY <1>2, <3>1 DEF Within
  <2>2. PICK y \in Nat : y = Committed * BlockSize /\ Filled <= y
    BY CommittedValue
  <2>3. m * BlockSize < Committed * BlockSize
    BY <1>1, <1>3, <2>1, <2>2
  <2> QED
    BY <1>2, <1>3, <1>4, <2>3, Order
<1>6. Written(g) \in Int /\ Committed <= Written(g) /\ Written(g) <= g.n
  BY <1>4 DEF Written, Unlisted, Lone
<1>7. headers \in Seq(Headers) /\ headers # << >>
  <2>1. pr.used # 0
    BY <1>2, <1>4
  <2> QED
    BY <1>0, <2>1 DEF IndexOK
<1>8. PICK j, h : j = Len(headers) /\ h = Last
  OBVIOUS
<1>9. j \in 1 .. Len(headers) /\ h = headers[j] /\ h \in Headers
  BY <1>7, <1>8, LastFacts
<1>10. Lists(g, j, m)
  <2>1. m \in Oldest(g) .. Written(g) - 1
    BY <1>2, <1>4, <1>5, <1>6
  <2> QED
    BY <1>0, <1>7, <1>8, <2>1 DEF IndexOK
<1>11. PICK T \in Committed - 1 .. Written(g) - 1 : h.front = SlotOf(g, j, T)
  BY <1>0, <1>2, <1>4, <1>5, <1>7, <1>8 DEF IndexOK
<1>12. T \in Nat /\ T \in Int /\ T < g.n /\ T <= g.n /\ Lists(g, j, T)
  <2>1. T \in Nat /\ T < g.n /\ T \in Oldest(g) .. Written(g) - 1
    BY <1>2, <1>4, <1>5, <1>6, <1>11
  <2>2. Lists(g, j, T)
    BY <1>0, <1>7, <1>8, <2>1 DEF IndexOK
  <2> QED
    BY <1>4, <2>1, <2>2
<1>13. h.entries[h.front].base = BaseOf(T)
  BY <1>9, <1>11, <1>12 DEF Lists
<1>14. T * BlockSize < Numbers \div 2
  BY <1>0, <1>12, BlockInRange
<1>15. /\ Element(n) \in Index /\ Number(Element(n)) = n /\ BlockNo(Element(n)) = m
       /\ Slot(Element(n)) = n % BlockSize
  <2>1. Element(n) \in Index /\ Number(Element(n)) = n
    BY <1>1, ElementValue
  <2>2. Slot(Element(n)) = n % BlockSize
    BY <1>1, <2>1, BlockNoValue
  <2>3. BlockNo(Element(n)) = m
    BY <1>2, <2>1 DEF BlockNo
  <2> QED
    BY <2>1, <2>2, <2>3
<1>16. BlockOffset(BaseOf(T), Element(n)) = m - T
  <2>1. Number(Element(n)) < Numbers \div 2
    BY <1>1, <1>3, <1>15
  <2> QED
    BY <1>12, <1>14, <1>15, <2>1, OffsetValue
<1>17. SlotFor(h, h.front, BaseOf(T), Element(n)) = SlotOf(g, j, m)
  <2>1. m - T \in Int /\ T \in Int /\ T + (m - T) = m
    BY <1>2, <1>12
  <2>2. (SlotOf(g, j, T) + (m - T)) % Capacity(h) = SlotOf(g, j, T + (m - T))
    BY <1>7, <1>9, <2>1, SlotFacts
  <2> QED
    BY <1>11, <1>16, <2>1, <2>2 DEF SlotFor
<1>18. BlockFor(Element(n)) = Home(g, n)
  <2>1. h.entries[SlotOf(g, j, m)].block = g.home[m]
    BY <1>9, <1>10 DEF Lists
  <2> QED
    BY <1>2, <1>8, <1>13, <1>17, <2>1 DEF BlockFor, Home
<1>19. Home(g, n) # NoBlock
  BY <1>1, ExplicitAssumption
<1>20. cell[Home(g, n)][n % BlockSize] = Element(n)
  BY DEF CellsOK
<1> QED
  BY <1>15, <1>18, <1>19, <1>20 DEF ElementAt

LEMMA ContentsValue ==
  ASSUME WindowsFit, FInv
  PROVE  Contents = Queue
<1> HIDE DEF Numbers
<1>1. CASE ppc = "destroyed"
  BY <1>1 DEF Contents, Queue
<1>2. CASE ppc # "destroyed"
  <2>0. PICK g \in Histories : StoreOK(g) /\ CellsOK(g)
    BY <1>2 DEF FInv, CInv
  <2>1. ShareIInv /\ ShareInv /\ ClaimsOK
    BY DEF FInv, CInv, ShareIInv
  <2>2. /\ Filled \in Nat /\ Emptied \in Nat /\ Emptied <= Filled /\ Filled <= MaxEnqueued
        /\ MaxEnqueued \in Nat /\ MaxEnqueued < Numbers /\ Numbers \in Nat /\ headIndex \in Index
    <3>1. /\ Filled \in Nat /\ Emptied \in Nat /\ Emptied <= Filled /\ Filled <= MaxEnqueued
          /\ MaxEnqueued \in Nat /\ MaxEnqueued < Numbers \div 2 /\ Numbers \div 2 < Numbers
          /\ Numbers \div 2 \in Nat /\ Numbers \in Nat /\ headIndex \in Index
      BY <2>1, Basics
    <3> QED
      BY <3>1
  <2>3. Minus(tailIndex, headIndex) = Filled - Emptied
    BY <2>1, SizeValue
  <2>4. ASSUME NEW k \in 1 .. Filled - Emptied
        PROVE  ElementAt(Plus(headIndex, k - 1)) = Element(Emptied + (k - 1))
    <3>1. PICK n \in Nat : n = Emptied + (k - 1) /\ n < Filled /\ n >= Emptied /\ k - 1 \in Nat
      BY <2>2
    <3>2. n \in Stored
      <4>1. enq.count \in Nat
        BY <2>1 DEF ShareIInv, EnqueueFits
      <4>2. n \in 0 .. Constructed - 1
        BY <2>2, <3>1, <4>1 DEF Constructed
      <4> QED
        BY <3>1, <4>2 DEF Stored
    <3>3. Plus(headIndex, k - 1) = Element(n)
      <4>1. Number(headIndex) = Emptied
        BY DEF Number, Emptied
      <4>2. Number(headIndex) + (k - 1) < Numbers
        BY <2>2, <3>1, <4>1
      <4> QED
        BY <2>2, <3>1, <4>1, <4>2, PlusElement
    <3> QED
      BY <2>0, <2>1, <3>1, <3>2, <3>3, ElementFound
  <2> QED
    BY <1>2, <2>3, <2>4 DEF Contents, Queue
<1> QED
  BY <1>1, <1>2

LEMMA HoldingValue ==
  ASSUME WindowsFit, FInv, NEW c \in Consumers
  PROVE  InHand[c] = Holding(c)
<1> HIDE DEF Numbers
<1>1. CASE c \in Unsettled \/ cpc[c] = "idle"
  BY <1>1 DEF InHand, Holding, Unsettled, ClaimedPcs, LookupPcs
<1>2. CASE ~(c \in Unsettled \/ cpc[c] = "idle")
  <2>1. cpc[c] \in ClaimedPcs
    BY <1>2 DEF FInv, CallsOK, ConsumerPcs, Unsettled
  <2>2. ppc # "destroyed"
    BY <2>1 DEF FInv, CInv, ClaimsOK, ClaimedPcs, LookupPcs
  <2>0. PICK g \in Histories : StoreOK(g) /\ CellsOK(g)
    BY <2>2 DEF FInv, CInv
  <2>3. ShareIInv /\ ClaimsOK /\ ClaimOK(c) /\ GotOK(c)
    BY DEF FInv, CInv, ClaimsOK
  <2>4. /\ Filled \in Nat /\ Emptied \in Nat /\ Emptied <= Filled /\ Filled <= MaxEnqueued
        /\ MaxEnqueued \in Nat /\ MaxEnqueued < Numbers /\ Numbers \in Nat
    <3>1. /\ Filled \in Nat /\ Emptied \in Nat /\ Emptied <= Filled /\ Filled <= MaxEnqueued
          /\ MaxEnqueued \in Nat /\ MaxEnqueued < Numbers \div 2 /\ Numbers \div 2 < Numbers
          /\ Numbers \div 2 \in Nat /\ Numbers \in Nat
      BY <2>3, Basics
    <3> QED
      BY <3>1
  <2>5. PICK f \in Nat, m \in Nat, u \in Nat, n \in Nat :
          /\ f = First(c) /\ m = Moved(c) /\ u = Until(c) /\ n = call[c].count
          /\ f <= m /\ m <= u /\ u <= Emptied /\ u = f + n
    <3>1. call[c].count \in Nat /\ Until(c) = First(c) + call[c].count
      BY <2>1, <2>3 DEF ClaimOK, Until
    <3> QED
      BY <2>1, <2>3, <3>1, UnmovedFacts
  <2>6. PICK i \in Index : Number(i) = f /\ (cpc[c] = "claimed" => i = call[c].index)
                           /\ (cpc[c] # "claimed" => i = call[c].first)
    <3>1. CASE cpc[c] = "claimed"
      BY <2>1, <2>3, <2>5, <3>1 DEF ClaimOK, First, At
    <3>2. CASE cpc[c] # "claimed"
      BY <2>1, <2>3, <2>5, <3>2 DEF ClaimOK, First, ClaimedPcs
    <3> QED
      BY <3>1, <3>2
  <2>7. ASSUME NEW j \in Nat, f + j < u PROVE Plus(i, j) = Element(f + j)
    <3>1. Number(i) + j < Numbers
      BY <2>4, <2>5, <2>6, <2>7
    <3> QED
      BY <2>6, <2>7, <3>1, PlusElement
  <2>8. ASSUME NEW j \in Nat, f + j < u, m <= f + j
        PROVE  ElementAt(Plus(i, j)) = Element(f + j)
    <3>1. f + j \in Moved(c) .. Until(c) - 1
      BY <2>5, <2>8
    <3>2. f + j \in Unmoved(c)
      BY <2>1, <3>1 DEF Unmoved
    <3>3. enq.count \in Nat
      BY <2>3 DEF ShareIInv, EnqueueFits
    <3>4. f + j \in 0 .. Constructed - 1
      BY <2>4, <2>5, <2>8, <3>3 DEF Constructed
    <3>5. f + j \in Stored
      BY <3>2, <3>4 DEF Stored
    <3>6. f + j < Filled
      BY <2>4, <2>5, <2>8
    <3> QED
      BY <2>0, <2>3, <2>7, <2>8, <3>5, <3>6, ElementFound
  <2>9. PICK H : H = [k \in 1 .. n |-> Element(f + (k - 1))]
    OBVIOUS
  <2>10. CASE cpc[c] = "claimed"
    <3>1. m = f
      BY <2>5, <2>10 DEF Moved, First
    <3>2. \A k \in 1 .. n : k - 1 \in Nat /\ f + (k - 1) < u /\ m <= f + (k - 1)
      BY <2>5, <3>1
    <3>3. \A k \in 1 .. n : ElementAt(Plus(i, k - 1)) = Element(f + (k - 1))
      BY <2>8, <3>2
    <3>4. InHand[c] = [k \in 1 .. n |-> ElementAt(Plus(i, k - 1))]
      BY <1>2, <2>5, <2>6, <2>10 DEF InHand
    <3>5. Holding(c) = [k \in 1 .. n |-> Element(f + (k - 1))]
      BY <2>1, <2>5 DEF Holding
    <3> QED
      BY <3>3, <3>4, <3>5
  <2>11. CASE cpc[c] # "claimed"
    <3>1. PICK p \in Nat, q \in Nat :
            p = m - f /\ q = n - p /\ p + q = n /\ f + p = m /\ m + q = u
      <4>1. f \in Nat /\ m \in Nat /\ u \in Nat /\ n \in Nat /\ f <= m /\ m <= u /\ u = f + n
        BY <2>5
      <4>2. m - f \in Nat /\ n - (m - f) \in Nat
        BY <4>1
      <4> QED
        BY <4>1, <4>2
    <3>2. call[c].got = [k \in 1 .. p |-> H[k]]
      <4>1. cpc[c] \in LookupPcs
        BY <2>1, <2>11 DEF ClaimedPcs
      <4>2. call[c].got = [k \in 1 .. p |-> Plus(i, k - 1)]
        BY <2>3, <2>5, <2>6, <2>11, <3>1, <4>1 DEF GotOK
      <4>3. \A k \in 1 .. p : k \in 1 .. n /\ k - 1 \in Nat /\ f + (k - 1) < u
        BY <2>5, <3>1
      <4>4. \A k \in 1 .. p : Plus(i, k - 1) = Element(f + (k - 1))
        BY <2>7, <4>3
      <4>5. \A k \in 1 .. p : Plus(i, k - 1) = H[k]
        BY <2>9, <4>3, <4>4
      <4> QED
        BY <4>2, <4>5
    <3>3. Len(call[c].got) = p
      BY <3>2
    <3>4. PICK v : v = [k \in 1 .. q |-> H[p + k]]
      OBVIOUS
    <3>5. ASSUME NEW k \in 1 .. q PROVE ElementAt(Plus(i, p + k - 1)) = H[p + k]
      <4>1. k \in Nat /\ 1 <= k /\ k <= q
        BY <3>1, <3>5
      <4>2. PICK j \in Nat : j = p + k - 1 /\ (p + k) - 1 = j /\ f + j = m + (k - 1)
        BY <3>1, <4>1
      <4>3. f + j < u /\ m <= f + j /\ p + k \in 1 .. n
        <5>1. m \in Nat /\ u \in Nat /\ n \in Nat
          BY <2>5
        <5> QED
          BY <3>1, <4>1, <4>2, <5>1
      <4> QED
        BY <2>8, <2>9, <4>2, <4>3
    <3>6. v = [k \in 1 .. q |-> ElementAt(Plus(i, p + k - 1))]
      BY <3>4, <3>5
    <3>7. InHand[c] = call[c].got \o v
      BY <1>2, <2>5, <2>6, <2>11, <3>1, <3>3, <3>6 DEF InHand
    <3>8. InHand[c] = [k \in 1 .. n |-> H[k]]
      BY <3>1, <3>2, <3>4, <3>7, Joined
    <3>9. Holding(c) = H
      BY <2>1, <2>5, <2>9 DEF Holding
    <3> QED
      BY <2>9, <3>8, <3>9
  <2> QED
    BY <2>10, <2>11
<1> QED
  BY <1>1, <1>2

LEMMA MappedAll ==
  WindowsFit /\ FInv => Contents = Queue /\ InHand = [c \in Consumers |-> Holding(c)]
<1> SUFFICES ASSUME WindowsFit, FInv
             PROVE  Contents = Queue /\ InHand = [c \in Consumers |-> Holding(c)]
  OBVIOUS
<1>1. \A c \in Consumers : InHand[c] = Holding(c)
  BY HoldingValue
<1>2. InHand = [c \in Consumers |-> InHand[c]]
  BY DEF InHand
<1> QED
  BY <1>1, <1>2, ContentsValue

LEMMA MappedNext ==
  WindowsFit /\ FInv' => Contents' = Queue' /\ InHand' = [c \in Consumers |-> Holding(c)']
<1> HIDE DEF Numbers
<1>1. WindowsFit' <=> WindowsFit
  BY DEF WindowsFit, Numbers
<1>2. (WindowsFit /\ FInv)' => (Contents = Queue /\ InHand = [c \in Consumers |-> Holding(c)])'
  BY MappedAll, PTL
<1> QED
  BY <1>1, <1>2

LEMMA EnqueueEffect ==
  ASSUME WindowsFit, ShareIInv, CallsOK, Enqueue \/ Destroy
  PROVE  /\ UNCHANGED claimVars /\ enq'.count <= MaxBulk
         /\ \/ Destroy
            \/ Commit
            \/ tailIndex' = tailIndex /\ ppc # "destroyed" /\ ppc' # "destroyed"
<1> HIDE DEF Numbers
<1> USE DEF CallsOK
<1>0. "count" \in DOMAIN enq /\ enq.count \in Nat /\ MaxBulk \in Nat \ {0}
  BY HalfRange DEF EnqueueFits, ShareIInv
<1>1. Enqueue => ppc # "destroyed" /\ ppc' # "destroyed"
  <2>1. Enqueue => ppc # "destroyed"
    BY DEF Enqueue, BeginEnqueue, ReuseAhead, NothingAhead, CheckRoom, Grow, CannotGrow,
       Requisition, NoRequisition, Undo, ResetBlocks, AddIndexEntry, StoreFront, Construct,
       Throw, Commit
  <2> QED
    BY <2>1, EnqueueClaims
<1>2. ASSUME NEW n \in {1, MaxBulk}, NEW bulk \in BOOLEAN, BeginEnqueue(n, bulk)
      PROVE  UNCHANGED <<tailIndex, claimVars>> /\ enq'.count <= MaxBulk
  <2>1. enq'.count = n /\ UNCHANGED <<tailIndex, claimVars>>
    BY <1>2 DEF BeginEnqueue, NoEnqueue
  <2> QED
    BY <1>0, <2>1
<1>3. ASSUME Preparing PROVE UNCHANGED <<tailIndex, claimVars>> /\ enq'.count <= MaxBulk
  <2>1. enq'.count = enq.count \/ enq'.count = 0
    BY <1>3 DEF Preparing
  <2>2. enq'.count <= MaxBulk
    BY <1>0, <2>1
  <2> QED
    BY <1>3, <2>2 DEF Preparing
<1>4. CASE ReuseAhead \/ NothingAhead \/ CheckRoom \/ Grow \/ CannotGrow
  <2>1. Preparing
    BY <1>0, <1>4 DEF ReuseAhead, NothingAhead, CheckRoom, Grow, CannotGrow, ConstructOrPublish,
       Preparing
  <2> QED
    BY <1>1, <1>3, <1>4, <2>1 DEF Enqueue
<1>5. CASE Requisition \/ NoRequisition \/ ResetBlocks
  <2>1. Preparing
    BY <1>0, <1>5 DEF Requisition, NoRequisition, ResetBlocks, ConstructOrPublish, Preparing
  <2> QED
    BY <1>1, <1>3, <1>5, <2>1 DEF Enqueue
<1>6. CASE AddIndexEntry \/ StoreFront \/ Construct
  <2>1. Preparing
    BY <1>0, <1>6 DEF AddIndexEntry, StoreFront, Construct, Preparing
  <2> QED
    BY <1>1, <1>3, <1>6, <2>1 DEF Enqueue
<1>7. CASE Undo \/ Throw
  <2>1. Preparing
    BY <1>0, <1>7 DEF Undo, Throw, Restore, EndCall, NoEnqueue, Preparing
  <2> QED
    BY <1>1, <1>3, <1>7, <2>1 DEF Enqueue
<1>8. CASE Destroy
  <2>1. Preparing
    BY <1>0, <1>8 DEF Destroy, Preparing
  <2> QED
    BY <1>3, <1>8, <2>1
<1>9. CASE Commit
  <2>1. UNCHANGED claimVars /\ enq'.count = 0
    BY <1>9 DEF Commit, EndCall, NoEnqueue
  <2> QED
    BY <1>0, <1>9, <2>1
<1>10. CASE \E n \in {1, MaxBulk} : \E bulk \in BOOLEAN : BeginEnqueue(n, bulk)
  <2>1. Enqueue
    BY <1>10 DEF Enqueue
  <2> QED
    BY <1>1, <1>2, <1>10, <2>1
<1> QED
  BY <1>4, <1>5, <1>6, <1>7, <1>8, <1>9, <1>10 DEF Enqueue

\* A consumer that has claimed goes on with the same elements, or returns.
GoesOn(c) ==
  /\ cpc[c] \in ClaimedPcs /\ UNCHANGED <<counters, owed>>
  /\ \/ cpc'[c] = "idle"
     \/ cpc'[c] \in LookupPcs /\ First(c)' = First(c) /\ call'[c].count = call[c].count

LEMMA GoesOnStep ==
  ASSUME ShareInv, ClaimsOK, NEW c \in Consumers,
         LoadHeader(c) \/ LoadFront(c) \/ LoadBase(c) \/ Move(c) \/ SetEmpty(c)
  PROVE  /\ GoesOn(c) /\ OnlyCaller(c) /\ UNCHANGED <<tailIndex, ppc, enq>>
<1> HIDE DEF Numbers
<1>0. DOMAIN cpc = Consumers /\ DOMAIN call = Consumers /\ ClaimOK(c)
  BY DEF ShareInv, ShareTyped, ClaimsOK
<1>1. /\ OnlyCaller(c) /\ UNCHANGED <<tailIndex, ppc, enq, counters, owed>>
      /\ cpc[c] \in {"claimed", "front", "base", "entry", "empty"}
  BY <1>0 DEF LoadHeader, LoadFront, LoadBase, Move, SetEmpty,
     ReturnFrom, ConsumerGoto, OnlyCaller, producerVars
<1>2. cpc[c] \in ClaimedPcs /\ (cpc[c] # "claimed" => DOMAIN call[c] = CallFields)
  BY <1>0, <1>1 DEF ClaimedPcs, LookupPcs, ClaimOK
<1>3. ASSUME cpc[c] # "claimed", cpc'[c] \in LookupPcs, call'[c].first = call[c].first,
             call'[c].count = call[c].count
      PROVE  GoesOn(c)
  BY <1>1, <1>2, <1>3 DEF GoesOn, First, LookupPcs
<1>4. CASE LoadHeader(c)
  <2>1. cpc[c] = "claimed" /\ cpc'[c] = "front" /\ call'[c].count = call[c].count
        /\ call'[c].first = call[c].index
    BY <1>0, <1>4 DEF LoadHeader, ConsumerGoto
  <2> QED
    BY <1>1, <1>2, <2>1 DEF GoesOn, First, At, LookupPcs, Number
<1>5. CASE LoadFront(c)
  <2>1. cpc[c] = "front" /\ cpc'[c] = "base" /\ call'[c].first = call[c].first
        /\ call'[c].count = call[c].count
    BY <1>0, <1>2, <1>5 DEF LoadFront, ConsumerGoto, CallFields
  <2> QED
    BY <1>1, <1>3, <2>1 DEF LookupPcs
<1>6. CASE LoadBase(c)
  <2>1. cpc[c] = "base" /\ cpc'[c] = "entry" /\ call'[c].first = call[c].first
        /\ call'[c].count = call[c].count
    BY <1>0, <1>2, <1>6 DEF LoadBase, ConsumerGoto, CallFields
  <2> QED
    BY <1>1, <1>3, <2>1 DEF LookupPcs
<1>7. CASE Move(c)
  <2>1. cpc[c] = "entry" /\ cpc'[c] = "empty" /\ call'[c].first = call[c].first
        /\ call'[c].count = call[c].count
    BY <1>0, <1>2, <1>7 DEF Move, ConsumerGoto, CallFields
  <2> QED
    BY <1>1, <1>3, <2>1 DEF LookupPcs
<1>8. CASE SetEmpty(c)
  <2>1. cpc[c] = "empty" /\ DOMAIN call[c] = CallFields
    BY <1>2, <1>8 DEF SetEmpty
  <2>2. PICK i : i = Plus(call[c].index, Cardinality(InBlock(c)))
    OBVIOUS
  <2>3. CASE i = Plus(call[c].first, call[c].count)
    <3>1. cpc'[c] = "idle"
      BY <1>0, <1>8, <2>2, <2>3 DEF SetEmpty, ReturnFrom, ConsumerGoto
    <3> QED
      BY <1>1, <1>2, <3>1 DEF GoesOn
  <2>4. CASE i # Plus(call[c].first, call[c].count)
    <3>1. /\ cpc'[c] = "entry" /\ call'[c].first = call[c].first
          /\ call'[c].count = call[c].count
      BY <1>0, <1>8, <2>1, <2>2, <2>4 DEF SetEmpty, ConsumerGoto, CallFields
    <3> QED
      BY <1>1, <1>3, <2>1, <3>1 DEF LookupPcs
  <2> QED
    BY <2>3, <2>4
<1> QED
  BY <1>1, <1>4, <1>5, <1>6, <1>7, <1>8

LEMMA DequeueEffect ==
  ASSUME WindowsFit, ShareInv, ClaimsOK, NEW c \in Consumers, Dequeue(c)
  PROVE  /\ OnlyCaller(c) /\ UNCHANGED <<tailIndex, ppc, enq>> /\ cpc'[c] \in ConsumerPcs
         /\ \/ \E max \in 1 .. MaxBulk : BeginDequeue(c, max) /\ ppc # "destroyed"
            \/ Sharing(c)
            \/ GoesOn(c)
<1> HIDE DEF Numbers
<1>0. DOMAIN cpc = Consumers /\ DOMAIN call = Consumers
  BY DEF ShareInv, ShareTyped
<1>1. CASE Begin(c)
  <2>1. PICK max \in {1, MaxBulk} : BeginDequeue(c, max)
    BY <1>1 DEF Begin
  <2>2. max \in 1 .. MaxBulk
    BY HalfRange
  <2>3. OnlyCaller(c) /\ UNCHANGED <<tailIndex, ppc, enq>> /\ cpc'[c] = "overcommit"
    BY <1>0, <1>1, <2>1 DEF Begin, BeginDequeue, ConsumerGoto, OnlyCaller, producerVars
  <2>4. ppc # "destroyed"
    BY <1>1 DEF Begin
  <2> QED
    BY <2>1, <2>2, <2>3, <2>4 DEF ConsumerPcs
<1>2. CASE Share(c)
  <2>1. Sharing(c) /\ UNCHANGED <<ppc, enq>>
    BY <1>2 DEF Share, producerVars
  <2>2. OnlyCaller(c) /\ tailIndex' = tailIndex
    BY <1>0, <2>1 DEF Sharing, LoadOvercommit, Examine, Promise, Reload, GiveBack, Claim,
       ReturnFrom, ConsumerGoto, OnlyCaller, counters
  <2>3. cpc'[c] \in {"idle", "examine", "promise", "reload", "giveBack", "claim", "claimed"}
    BY <1>0, <2>1 DEF Sharing, LoadOvercommit, Examine, Promise, Reload, GiveBack, Claim,
       ReturnFrom, ConsumerGoto
  <2> QED
    BY <2>1, <2>2, <2>3 DEF ConsumerPcs, ClaimedPcs
<1>3. CASE LoadHeader(c) \/ LoadFront(c) \/ LoadBase(c) \/ Move(c) \/ SetEmpty(c)
  <2>1. GoesOn(c) /\ OnlyCaller(c) /\ UNCHANGED <<tailIndex, ppc, enq>>
    BY <1>3, GoesOnStep
  <2> QED
    BY <2>1 DEF GoesOn, ClaimedPcs, ConsumerPcs
<1> QED
  BY <1>1, <1>2, <1>3 DEF Dequeue

LEMMA FilledBy ==
  ASSUME WindowsFit, ShareIInv, Commit
  PROVE  /\ Filled \in Nat /\ enq.count \in Nat /\ Filled + enq.count < Numbers
         /\ Filled' = Filled + enq.count
<1> HIDE DEF Numbers
<1>1. /\ Filled \in Nat /\ MaxEnqueued \in Nat /\ MaxEnqueued < Numbers \div 2
      /\ Numbers \div 2 < Numbers /\ Numbers \div 2 \in Nat /\ Numbers \in Nat
      /\ tailIndex \in Index
  BY Basics
<1>2. enq.count \in Nat /\ Filled + enq.count <= MaxEnqueued
  BY DEF ShareIInv, EnqueueFits
<1>3. Filled + enq.count < Numbers /\ StartIndex \in Index
  BY <1>1, <1>2, HalfRange
<1>4. tailIndex' = Plus(tailIndex, enq.count)
  BY DEF Commit
<1> QED
  BY <1>1, <1>2, <1>3, <1>4, Advanced DEF Filled

LEMMA CallsStep ==
  ASSUME WindowsFit, CInv, CallsOK, [Next]_vars
  PROVE  CallsOK'
<1> HIDE DEF Numbers
<1>1. ShareIInv /\ ShareInv /\ ClaimsOK
  BY DEF CInv, ShareIInv
<1>2. CASE Enqueue \/ Destroy
  <2>1. UNCHANGED claimVars /\ enq'.count <= MaxBulk
    BY <1>1, <1>2, EnqueueEffect
  <2>2. Resting /\ owed' = owed /\ cpc' = cpc
    BY <2>1 DEF claimVars, Resting
  <2>3. Filled \in Nat
    BY <1>1, Basics
  <2>4. Filled' \in Nat /\ Filled <= Filled'
    <3>1. CASE Commit
      BY <1>1, <3>1, FilledBy
    <3>2. CASE tailIndex' = tailIndex
      BY <2>3, <3>2 DEF Filled
    <3> QED
      BY <1>1, <1>2, <3>1, <3>2, EnqueueEffect DEF Destroy
  <2> QED
    BY <1>1, <2>1, <2>2, <2>4, OwedFilled DEF CallsOK
<1>3. ASSUME NEW c \in Consumers, Dequeue(c) PROVE CallsOK'
  <2>1. /\ OnlyCaller(c) /\ UNCHANGED <<tailIndex, enq>> /\ cpc'[c] \in ConsumerPcs
        /\ \/ \E max \in 1 .. MaxBulk : BeginDequeue(c, max)
           \/ Sharing(c)
           \/ GoesOn(c)
    BY <1>1, <1>3, DequeueEffect
  <2>2. OwedOK'
    <3>1. CASE GoesOn(c)
      <4>1. c \notin Unsettled /\ c \notin Unsettled' /\ UNCHANGED <<tailIndex, counters, owed>>
        BY <2>1, <3>1 DEF GoesOn, ClaimedPcs, LookupPcs, Unsettled
      <4> QED
        BY <1>1, <2>1, <4>1, OwedStill DEF CallsOK
    <3> QED
      BY <1>1, <2>1, <3>1, BeginOwed, SharingOwed DEF CallsOK
  <2>3. \A d \in Consumers : cpc'[d] \in ConsumerPcs
    BY <2>1 DEF CallsOK, OnlyCaller
  <2> QED
    BY <2>1, <2>2, <2>3 DEF CallsOK
<1>4. CASE UNCHANGED vars
  <2>1. Resting /\ owed' = owed /\ cpc' = cpc /\ enq' = enq /\ tailIndex' = tailIndex
    BY <1>4 DEF vars, claimVars, producerVars, Resting
  <2>2. Filled' = Filled /\ Filled \in Nat
    BY <1>1, <2>1, Basics DEF Filled
  <2>3. OwedOK'
    BY <1>1, <2>1, <2>2, OwedFilled DEF CallsOK
  <2> QED
    BY <2>1, <2>3 DEF CallsOK
<1> QED
  BY <1>2, <1>3, <1>4 DEF Next

LEMMA FifoInvariance ==
  ASSUME WindowsFit, ~PartialFailure, ~ThrowsLate
  PROVE  Spec => []FInv
<1> HIDE DEF Numbers
<1>1. Init => CallsOK
  BY OwedInit, HalfRange DEF Init, CallsOK, NoEnqueue, ClaimInit, ConsumerPcs
<1>2. CInv /\ CallsOK /\ [Next]_vars => CallsOK'
  BY CallsStep
<1> QED
  BY <1>1, <1>2, CInvariance, PTL DEF Spec, FInv

------------------------------------------------------------------------------
(* The refinement of FifoQueue.                                            *)

Asking(c) == IF c \in Unsettled THEN call[c].max ELSE 0

\* What a step of c does to the abstract queue's view of the consumers.
LEMMA CallerMapped ==
  ASSUME WindowsFit, FInv, FInv', NEW c \in Consumers, OnlyCaller(c), UNCHANGED <<tailIndex, ppc>>
  PROVE  /\ InHand[c] = Holding(c) /\ Wanted[c] = Asking(c)
         /\ InHand' = [InHand EXCEPT ![c] = Holding(c)']
         /\ Wanted' = [Wanted EXCEPT ![c] = Asking(c)']
         /\ headIndex' = headIndex => Contents' = Contents
<1>1. InHand = [d \in Consumers |-> Holding(d)] /\ InHand' = [d \in Consumers |-> Holding(d)']
  BY MappedAll, MappedNext
<1>2. Wanted = [d \in Consumers |-> Asking(d)] /\ Wanted' = [d \in Consumers |-> Asking(d)']
  BY DEF Wanted, Asking
<1>3. ASSUME NEW d \in Consumers \ {c} PROVE Holding(d)' = Holding(d) /\ Asking(d)' = Asking(d)
  <2>1. cpc'[d] = cpc[d] /\ call'[d] = call[d]
    BY DEF OnlyCaller
  <2> QED
    BY <2>1 DEF Holding, Asking, First, At, Number, Unsettled
<1>4. ASSUME headIndex' = headIndex PROVE Contents' = Contents
  <2>1. Queue' = Queue
    BY <1>4 DEF Queue, Filled, Emptied, Element
  <2> QED
    BY <2>1, MappedAll, MappedNext
<1>5. InHand' = [InHand EXCEPT ![c] = Holding(c)']
  BY <1>1, <1>3
<1>6. Wanted' = [Wanted EXCEPT ![c] = Asking(c)']
  BY <1>2, <1>3
<1> QED
  BY <1>1, <1>2, <1>4, <1>5, <1>6

LEMMA QueueFacts ==
  ASSUME WindowsFit, FInv
  PROVE  /\ ShareIInv /\ ShareInv /\ ClaimsOK /\ OwedOK
         /\ Filled \in Nat /\ Emptied \in Nat /\ Emptied <= Filled /\ Filled - Emptied \in Nat
         /\ Filled < Numbers
<1> HIDE DEF Numbers
<1>1. ShareIInv /\ ShareInv /\ ClaimsOK /\ OwedOK
  BY DEF FInv, CInv, CallsOK, ShareIInv
<1>2. /\ Filled \in Nat /\ Emptied \in Nat /\ Emptied <= Filled /\ Filled < Numbers
  <2>1. /\ Filled \in Nat /\ Emptied \in Nat /\ Emptied <= Filled /\ Filled <= MaxEnqueued
        /\ MaxEnqueued \in Nat /\ MaxEnqueued < Numbers \div 2 /\ Numbers \div 2 < Numbers
        /\ Numbers \div 2 \in Nat /\ Numbers \in Nat
    BY <1>1, Basics
  <2> QED
    BY <2>1
<1> QED
  BY <1>1, <1>2

\* A dequeue ends its sharing with n of the elements.
LEMMA TakeStep ==
  ASSUME WindowsFit, FInv, FInv', NEW c \in Unsettled, OnlyCaller(c),
         UNCHANGED <<tailIndex, ppc>>, c \notin Unsettled',
         NEW n \in 0 .. MaxBulk, owed[c] <= n, n <= call[c].max, n <= Filled - Emptied,
         owed' = [owed EXCEPT ![c] = 0], Emptied' = Emptied + n,
         Holding(c)' = [k \in 1 .. n |-> Element(Emptied + (k - 1))]
  PROVE  Fifo!Take(c, n)
<1> HIDE DEF Numbers
<1>1. /\ ShareInv /\ ClaimsOK /\ OwedOK
      /\ Filled \in Nat /\ Emptied \in Nat /\ Emptied <= Filled
  BY QueueFacts
<1>2. c \in Consumers /\ ppc # "destroyed" /\ ppc' # "destroyed"
  BY <1>1 DEF ClaimsOK, Unsettled
<1>3. n \in Nat /\ owed[c] \in Nat /\ call[c].max \in Nat \ {0}
  BY <1>1, <1>2, HalfRange DEF OwedOK, ShareInv, ShareTyped, Calls
<1>4. /\ InHand' = [InHand EXCEPT ![c] = Holding(c)']
      /\ Wanted' = [Wanted EXCEPT ![c] = Asking(c)']
      /\ Wanted[c] = Asking(c)
  BY <1>2, CallerMapped
<1>5. Asking(c) = call[c].max /\ Asking(c)' = 0
  BY DEF Asking
<1>6. PICK e \in Nat, f \in Nat, m \in Nat :
        e = Emptied /\ f = Filled /\ m = f - e - n /\ n + m = f - e /\ Emptied' = e + n
        /\ f - (e + n) = m
  <2>1. PICK e \in Nat, f \in Nat : e = Emptied /\ f = Filled
    BY <1>1
  <2>2. n <= f - e
    BY <2>1
  <2>3. f - e - n \in Nat /\ n + (f - e - n) = f - e /\ f - (e + n) = f - e - n
    BY <1>3, <2>2
  <2> QED
    BY <2>1, <2>3
<1>7. PICK F : F = [k \in 1 .. n + m |-> Element(e + (k - 1))]
  OBVIOUS
<1>8. Contents = [k \in 1 .. n + m |-> F[k]]
  BY <1>2, <1>6, <1>7, MappedAll DEF Queue
<1>9. Filled' = f
  BY <1>6 DEF Filled
<1>10. Contents' = [k \in 1 .. m |-> F[n + k]]
  <2>1. Contents' = [k \in 1 .. m |-> Element(e + n + (k - 1))]
    <3>1. Contents' = Queue'
      BY MappedNext
    <3>2. Queue' = [k \in 1 .. f - (e + n) |-> Element(e + n + (k - 1))]
      BY <1>2, <1>6, <1>9 DEF Queue, Element
    <3> QED
      BY <1>6, <3>1, <3>2
  <2>2. ASSUME NEW k \in 1 .. m PROVE F[n + k] = Element(e + n + (k - 1))
    <3>1. n + k \in 1 .. n + m /\ e + n + (k - 1) = e + ((n + k) - 1)
      BY <1>3, <1>6
    <3> QED
      BY <1>7, <3>1
  <2> QED
    BY <2>1, <2>2
<1>11. Holding(c)' = [k \in 1 .. n |-> F[k]]
  <2>1. \A k \in 1 .. n : k \in 1 .. n + m
    BY <1>3, <1>6
  <2>2. \A k \in 1 .. n : F[k] = Element(e + (k - 1))
    BY <1>7, <2>1
  <2> QED
    BY <1>6, <2>2
<1>12. /\ SubSeq(Contents, 1, n) = [k \in 1 .. n |-> F[k]]
       /\ SubSeq(Contents, n + 1, Len(Contents)) = [k \in 1 .. m |-> F[n + k]]
       /\ Len(Contents) = n + m
  BY <1>3, <1>8, Segments
<1> HIDE DEF Contents, Wanted, InHand
<1>13. n \in owed[c] .. Fifo!SmallerOf(Wanted[c], Len(Contents))
  <2>1. PICK a \in Nat : a = Wanted[c] /\ n <= a
    BY <1>3, <1>4, <1>5
  <2>2. n <= Len(Contents) /\ Len(Contents) \in Nat
    BY <1>3, <1>6, <1>12
  <2> QED
    BY <1>3, <2>1, <2>2 DEF Fifo!SmallerOf
<1>14. Wanted[c] > 0
  BY <1>3, <1>4, <1>5
<1> QED
  BY <1>4, <1>5, <1>10, <1>11, <1>12, <1>13, <1>14 DEF Fifo!Take

LEMMA BeginRefines ==
  ASSUME WindowsFit, FInv, FInv', NEW c \in Consumers, OnlyCaller(c), UNCHANGED <<tailIndex, ppc>>,
         ppc # "destroyed", NEW max \in 1 .. MaxBulk, BeginDequeue(c, max)
  PROVE  Fifo!Call(c, max)
<1> HIDE DEF Numbers
<1>1. /\ ShareInv /\ OwedOK
      /\ Filled \in Nat /\ Emptied \in Nat /\ Emptied <= Filled /\ Filled - Emptied \in Nat
  BY QueueFacts
<1>2. DOMAIN cpc = Consumers /\ DOMAIN call = Consumers /\ MaxBulk \in Nat
  BY <1>1, HalfRange DEF ShareInv, ShareTyped
<1>3. /\ cpc[c] = "idle" /\ cpc'[c] = "overcommit" /\ call'[c].max = max
      /\ headIndex' = headIndex
  BY <1>2 DEF BeginDequeue, ConsumerGoto, NoCall, counters
<1>4. /\ InHand[c] = Holding(c) /\ Wanted[c] = Asking(c)
      /\ InHand' = [InHand EXCEPT ![c] = Holding(c)']
      /\ Wanted' = [Wanted EXCEPT ![c] = Asking(c)']
      /\ Contents' = Contents
  BY <1>3, CallerMapped
<1>5. Holding(c) = << >> /\ Holding(c)' = << >> /\ Asking(c) = 0 /\ Asking(c)' = max
  BY <1>3 DEF Holding, Asking, Unsettled, ClaimedPcs, LookupPcs
<1>6. InHand' = InHand
  BY <1>4, <1>5 DEF InHand
<1>7. (\A d \in Consumers : Wanted[d] = 0) <=> Unsettled = {}
  <2>1. \A d \in Unsettled : call[d].max # 0
    BY <1>1, <1>2 DEF ShareInv, ShareTyped, Calls
  <2>2. \A d \in Consumers : Wanted[d] = IF d \in Unsettled THEN call[d].max ELSE 0
    BY DEF Wanted
  <2>3. Unsettled \subseteq Consumers
    BY DEF Unsettled
  <2> QED
    BY <2>1, <2>2, <2>3
<1>8. Len(Contents) = SizeApprox
  <2>1. PICK n \in Nat : n = Filled - Emptied
    BY <1>1
  <2>2. Contents = [k \in 1 .. n |-> Element(Emptied + (k - 1))]
    BY <2>1, MappedAll DEF Queue
  <2>3. Len(Contents) = n
    BY <2>2
  <2>4. SizeApprox = n
    BY <1>1, <2>1, SizeValue
  <2> QED
    BY <2>3, <2>4
<1> HIDE DEF Contents, Wanted, InHand, SizeApprox, Unsettled
<1>9. owed' = [d \in Consumers |->
                 IF d = c /\ Unsettled = {} THEN Least(max, SizeApprox) ELSE 0]
  BY DEF BeginDequeue
<1>10. owed' = [d \in Consumers |->
                  IF d = c /\ \A e \in Consumers : Wanted[e] = 0
                  THEN Fifo!SmallerOf(max, Len(Contents)) ELSE 0]
  <2>1. Fifo!SmallerOf(max, Len(Contents)) = Least(max, SizeApprox)
    BY <1>8 DEF Fifo!SmallerOf, Least
  <2> QED
    BY <1>7, <1>9, <2>1
<1> QED
  BY <1>4, <1>5, <1>6, <1>10 DEF Fifo!Call

\* What the abstract queue does not notice.
LEMMA UnseenStep ==
  ASSUME WindowsFit, FInv, FInv', NEW c \in Consumers, OnlyCaller(c), UNCHANGED <<tailIndex, ppc>>,
         headIndex' = headIndex, owed' = owed, Holding(c)' = Holding(c), Asking(c)' = Asking(c)
  PROVE  UNCHANGED Fifo!fifoVars
<1>1. /\ InHand[c] = Holding(c) /\ Wanted[c] = Asking(c)
      /\ InHand' = [InHand EXCEPT ![c] = Holding(c)']
      /\ Wanted' = [Wanted EXCEPT ![c] = Asking(c)']
      /\ Contents' = Contents
  BY CallerMapped
<1>2. InHand' = InHand
  BY <1>1 DEF InHand
<1>3. Wanted' = Wanted
  BY <1>1 DEF Wanted
<1> QED
  BY <1>1, <1>2, <1>3 DEF Fifo!fifoVars

LEMMA ReturnRefines ==
  ASSUME WindowsFit, FInv, FInv', NEW c \in Consumers, OnlyCaller(c), UNCHANGED <<tailIndex, ppc>>,
         GoesOn(c)
  PROVE  Fifo!Return(c) \/ UNCHANGED Fifo!fifoVars
<1> HIDE DEF Numbers
<1>1. ClaimsOK /\ ClaimOK(c)
  BY QueueFacts DEF ClaimsOK
<1>2. cpc[c] \in ClaimedPcs /\ UNCHANGED <<headIndex, owed>>
  BY DEF GoesOn, counters
<1>3. Asking(c) = 0
  BY <1>2 DEF Asking, ClaimedPcs, LookupPcs, Unsettled
<1>4. CASE cpc'[c] \in LookupPcs /\ First(c)' = First(c) /\ call'[c].count = call[c].count
  <2>1. Asking(c)' = 0
    BY <1>4 DEF Asking, LookupPcs, Unsettled
  <2>2. Holding(c)' = Holding(c)
    BY <1>2, <1>4 DEF Holding, ClaimedPcs, Element
  <2>3. UNCHANGED Fifo!fifoVars
    BY <1>2, <1>3, <2>1, <2>2, UnseenStep
  <2> QED
    BY <2>3
<1>5. CASE cpc'[c] = "idle"
  <2>1. Asking(c)' = 0 /\ Holding(c)' = << >>
    BY <1>5 DEF Asking, Holding, ClaimedPcs, LookupPcs, Unsettled
  <2>2. /\ InHand[c] = Holding(c) /\ Wanted[c] = Asking(c)
        /\ InHand' = [InHand EXCEPT ![c] = Holding(c)']
        /\ Wanted' = [Wanted EXCEPT ![c] = Asking(c)']
        /\ Contents' = Contents
    BY <1>2, CallerMapped
  <2>3. Wanted' = Wanted
    BY <1>3, <2>1, <2>2 DEF Wanted
  <2>4. Holding(c) # << >>
    <3>1. PICK n \in Nat \ {0} : n = call[c].count
      <4>1. call[c].count \in Nat
        BY <1>1, <1>2 DEF ClaimOK
      <4>2. call[c].count # 0
        <5>1. PICK f : f = First(c)
          OBVIOUS
        <5>2. At(c) \in f .. (f + call[c].count) - 1
          BY <1>1, <1>2, <5>1 DEF ClaimOK, Until
        <5>3. f \in Int
          <6>1. call[c].index \in Index
            BY <1>1, <1>2 DEF ClaimOK
          <6>2. cpc[c] # "claimed" => call[c].first \in Index
            BY <1>1, <1>2 DEF ClaimOK, ClaimedPcs
          <6>3. f \in Index
            BY <1>2, <5>1, <6>1, <6>2, NumberValue DEF First, At
          <6> QED
            BY <6>3, HalfRange DEF Index
        <5> QED
          BY <5>2, <5>3
      <4> QED
        BY <4>1, <4>2
    <3>2. Holding(c) = [k \in 1 .. n |-> Element(First(c) + (k - 1))]
      BY <1>2, <3>1 DEF Holding
    <3>3. 1 \in DOMAIN Holding(c)
      BY <3>1, <3>2
    <3> QED
      BY <3>3
  <2> HIDE DEF Contents, Wanted, InHand
  <2> QED
    BY <1>2, <1>3, <2>1, <2>2, <2>3, <2>4 DEF Fifo!Return
<1> QED
  BY <1>4, <1>5 DEF GoesOn

LEMMA SharingRefines ==
  ASSUME WindowsFit, FInv, FInv', NEW c \in Consumers, OnlyCaller(c), UNCHANGED <<tailIndex, ppc>>,
         Sharing(c)
  PROVE  (\E n \in 0 .. MaxBulk : Fifo!Take(c, n)) \/ UNCHANGED Fifo!fifoVars
<1> HIDE DEF Numbers
<1>1. /\ ShareInv /\ OwedOK
      /\ Filled \in Nat /\ Emptied \in Nat /\ Emptied <= Filled /\ Filled - Emptied \in Nat
      /\ Filled < Numbers
  BY QueueFacts
<1>2. /\ DOMAIN cpc = Consumers /\ DOMAIN call = Consumers /\ DOMAIN owed = Consumers
      /\ MaxBulk \in Nat
  BY <1>1, HalfRange DEF ShareInv, ShareTyped, OwedOK
<1>3. c \in Unsettled /\ call[c] \in Calls /\ call[c].max \in 1 .. MaxBulk
  <2>1. c \in Unsettled
    BY DEF Sharing, LoadOvercommit, Examine, Promise, Reload, GiveBack, Claim, Unsettled
  <2>2. call[c] \in Calls
    BY <1>1, <2>1 DEF ShareInv, ShareTyped
  <2> QED
    BY <2>1, <2>2 DEF Calls
<1>4. Holding(c) = << >> /\ Asking(c) = call[c].max
  BY <1>3 DEF Holding, Asking, ClaimedPcs, LookupPcs, Unsettled
<1>5. ASSUME headIndex' = headIndex, owed' = owed, c \in Unsettled', call'[c].max = call[c].max
      PROVE  UNCHANGED Fifo!fifoVars
  <2>1. Holding(c)' = << >> /\ Asking(c)' = call[c].max
    BY <1>5 DEF Holding, Asking, ClaimedPcs, LookupPcs, Unsettled
  <2> QED
    BY <1>4, <1>5, <2>1, UnseenStep
<1>6. ASSUME headIndex' = headIndex, owed' = [owed EXCEPT ![c] = 0], owed[c] = 0,
             cpc'[c] = "idle"
      PROVE  Fifo!Take(c, 0)
  <2>1. c \notin Unsettled'
    BY <1>6 DEF Unsettled
  <2>2. Holding(c)' = << >>
    BY <1>6 DEF Holding, ClaimedPcs, LookupPcs
  <2>3. PICK e \in Nat, m \in Nat : e = Emptied /\ m = Filled - Emptied
    BY <1>1
  <2>4. Emptied' = Emptied + 0
    <3>1. Emptied' = e
      BY <1>6, <2>3 DEF Emptied
    <3> QED
      BY <2>3, <3>1
  <2>5. Holding(c)' = [k \in 1 .. 0 |-> Element(Emptied + (k - 1))]
    <3>1. 1 .. 0 = {}
      OBVIOUS
    <3> QED
      BY <2>2, <3>1
  <2>6. 0 \in 0 .. MaxBulk /\ owed[c] <= 0 /\ 0 <= call[c].max /\ 0 <= Filled - Emptied
    BY <1>1, <1>2, <1>3, <1>6
  <2> QED
    BY <1>3, <1>6, <2>1, <2>4, <2>5, <2>6, TakeStep
<1>7. CASE LoadOvercommit(c)
  <2>1. /\ headIndex' = headIndex /\ owed' = owed /\ cpc'[c] = "examine"
        /\ call'[c].max = call[c].max
    BY <1>2, <1>3, <1>7 DEF LoadOvercommit, ConsumerGoto, counters, Calls
  <2> QED
    BY <1>5, <2>1 DEF Unsettled
<1>8. CASE Promise(c)
  <2>1. /\ headIndex' = headIndex /\ owed' = owed /\ cpc'[c] = "reload"
        /\ call'[c].max = call[c].max
    BY <1>2, <1>3, <1>8 DEF Promise, ConsumerGoto, Calls
  <2> QED
    BY <1>5, <2>1 DEF Unsettled
<1>9. CASE Reload(c)
  <2>1. /\ headIndex' = headIndex /\ owed' = owed /\ cpc'[c] \in {"giveBack", "claim"}
        /\ call'[c].max = call[c].max
    BY <1>2, <1>3, <1>9 DEF Reload, ConsumerGoto, counters, Calls
  <2> QED
    BY <1>5, <2>1 DEF Unsettled
<1>10. CASE Examine(c)
  <2>1. /\ headIndex' = headIndex
        /\ \/ /\ owed' = owed /\ cpc'[c] = "promise" /\ call'[c].max = call[c].max
           \/ owed' = [owed EXCEPT ![c] = 0] /\ cpc'[c] = "idle"
    BY <1>2, <1>3, <1>10 DEF Examine, ReturnFrom, ConsumerGoto, counters, Calls
  <2>2. CASE cpc'[c] = "promise"
    BY <1>5, <2>1, <2>2 DEF Unsettled
  <2>3. CASE cpc'[c] = "idle"
    <3>1. owed[c] = 0
      BY <1>1, <1>10, <2>3, ExamineOwed
    <3>2. Fifo!Take(c, 0)
      BY <1>6, <2>1, <2>3, <3>1
    <3> QED
      BY <1>2, <3>2
  <2> QED
    BY <2>1, <2>2, <2>3
<1>11. CASE GiveBack(c)
  <2>1. /\ headIndex' = headIndex
        /\ \/ /\ owed' = owed /\ cpc'[c] = "claim" /\ call'[c].max = call[c].max
           \/ owed' = [owed EXCEPT ![c] = 0] /\ cpc'[c] = "idle"
    BY <1>2, <1>3, <1>11 DEF GiveBack, ReturnFrom, ConsumerGoto, Calls
  <2>2. CASE cpc'[c] = "claim"
    BY <1>5, <2>1, <2>2 DEF Unsettled
  <2>3. CASE cpc'[c] = "idle"
    <3>1. owed[c] = 0
      BY <1>1, <1>11, <2>3, GiveBackOwed
    <3>2. Fifo!Take(c, 0)
      BY <1>6, <2>1, <2>3, <3>1
    <3> QED
      BY <1>2, <3>2
  <2> QED
    BY <2>1, <2>2, <2>3
<1>12. CASE Claim(c)
  <2>1. /\ call[c].count \in 1 .. call[c].max /\ owed[c] <= call[c].count
        /\ call[c].count <= Filled - Emptied
    BY <1>1, <1>12, ClaimOwed
  <2>2. PICK n \in 0 .. MaxBulk : n = call[c].count /\ n \in Nat /\ n <= call[c].max
    <3>1. call[c].max \in Nat /\ call[c].max <= MaxBulk
      BY <1>2, <1>3
    <3>2. call[c].count \in Nat /\ call[c].count <= call[c].max
      BY <2>1, <3>1
    <3> QED
      BY <1>2, <3>1, <3>2
  <2>3. /\ cpc'[c] = "claimed" /\ call'[c].count = n /\ call'[c].index = headIndex
        /\ owed' = [owed EXCEPT ![c] = 0] /\ headIndex' = Plus(headIndex, n)
    BY <1>2, <1>12, <2>2 DEF Claim, ConsumerGoto, NoCall
  <2>4. c \notin Unsettled'
    BY <2>3 DEF Unsettled
  <2>5. Emptied' = Emptied + n
    <3>1. Emptied + n < Numbers
      BY <1>1, <2>1, <2>2, HalfRange
    <3>2. headIndex \in Index /\ StartIndex \in Index
      BY <1>1, HalfRange DEF ShareInv, ShareTyped
    <3> QED
      BY <2>2, <2>3, <3>1, <3>2, Advanced DEF Emptied
  <2>6. First(c)' = Emptied
    BY <2>3 DEF First, At, Number, Emptied
  <2>7. Holding(c)' = [k \in 1 .. n |-> Element(Emptied + (k - 1))]
    <3>1. PICK e : e = Emptied
      OBVIOUS
    <3>2. Holding(c)' = [k \in 1 .. n |-> Element(e + (k - 1))]
      BY <2>3, <2>6, <3>1 DEF Holding, ClaimedPcs, Element
    <3> QED
      BY <3>1, <3>2
  <2>8. Fifo!Take(c, n)
    BY <1>3, <2>1, <2>2, <2>3, <2>4, <2>5, <2>7, TakeStep
  <2> QED
    BY <2>8
<1> QED
  BY <1>7, <1>8, <1>9, <1>10, <1>11, <1>12 DEF Sharing

LEMMA CommitRefines ==
  ASSUME WindowsFit, FInv, FInv', UNCHANGED claimVars, Commit
  PROVE  \E n \in 1 .. MaxBulk : Fifo!EnqueueBatch(n)
<1> HIDE DEF Numbers
<1>1. /\ ShareIInv /\ Filled \in Nat /\ Emptied \in Nat /\ Emptied <= Filled
  BY QueueFacts
<1>2. ppc = "commit" /\ ppc' = "idle" /\ tailIndex' = Plus(tailIndex, enq.count)
  BY DEF Commit, EndCall, ProducerGoto
<1>3. /\ Filled + enq.count < Numbers /\ Filled' = Filled + enq.count
      /\ enq.count \in Nat \ {0} /\ enq.count <= MaxBulk /\ MaxBulk \in Nat
  <2>1. enq.count # 0
    <3>1. PICK g \in Histories : StoreOK(g)
      BY <1>2 DEF FInv, CInv
    <3> QED
      BY <1>2, <3>1 DEF StoreOK, EnqOK, CallOK
  <2>2. enq.count <= MaxBulk
    BY DEF FInv, CallsOK
  <2> QED
    BY <1>1, <2>1, <2>2, FilledBy, HalfRange
<1>4. PICK n \in 1 .. MaxBulk : n = enq.count /\ n \in Nat
  BY <1>3
<1>5. PICK e \in Nat, f \in Nat, p \in Nat :
        e = Emptied /\ f = Filled /\ p = f - e /\ e + p = f /\ Filled' = f + n
        /\ (f + n) - e = p + n /\ f + n < Numbers
  <2>1. PICK e \in Nat, f \in Nat : e = Emptied /\ f = Filled /\ e <= f
    BY <1>1
  <2>2. f - e \in Nat /\ e + (f - e) = f /\ (f + n) - e = (f - e) + n
    BY <1>4, <2>1
  <2> QED
    BY <1>3, <1>4, <2>1, <2>2
<1>6. PICK F : F = [k \in 1 .. p + n |-> Element(e + (k - 1))]
  OBVIOUS
<1>7. Contents = [k \in 1 .. p |-> F[k]]
  <2>1. Contents = [k \in 1 .. p |-> Element(e + (k - 1))]
    BY <1>2, <1>5, MappedAll DEF Queue
  <2>2. \A k \in 1 .. p : k \in 1 .. p + n
    BY <1>4
  <2> QED
    BY <1>6, <2>1, <2>2
<1>8. Contents' = [k \in 1 .. p + n |-> F[k]]
  <2>1. Emptied' = e
    BY <1>5 DEF claimVars, counters, Emptied
  <2>2. Queue' = [k \in 1 .. (f + n) - e |-> Element(e + (k - 1))]
    BY <1>2, <1>5, <2>1 DEF Queue, Element
  <2>3. Contents' = [k \in 1 .. p + n |-> Element(e + (k - 1))]
    BY <1>5, <2>2, MappedNext
  <2> QED
    BY <1>6, <2>3
<1>9. PICK v : v = [i \in 1 .. n |-> (tailIndex + i - 1) % Numbers]
  OBVIOUS
<1>10. v = [k \in 1 .. n |-> F[p + k]]
  <2>1. ASSUME NEW k \in 1 .. n PROVE (tailIndex + k - 1) % Numbers = F[p + k]
    <3>1. PICK j \in Nat : j = k - 1 /\ p + k \in 1 .. p + n /\ e + ((p + k) - 1) = f + j
                           /\ f + j < Numbers
      <4>1. k - 1 \in Nat /\ p + k \in 1 .. p + n /\ e + ((p + k) - 1) = f + (k - 1)
        BY <1>4, <1>5
      <4>2. f + (k - 1) < Numbers
        BY <1>4, <1>5, HalfRange
      <4> QED
        BY <4>1, <4>2
    <3>2. tailIndex \in Index /\ Number(tailIndex) = f
      BY <1>1, <1>5 DEF ShareIInv, ShareInv, ShareTyped, Number, Filled
    <3>3. Plus(tailIndex, j) = Element(f + j)
      BY <3>1, <3>2, PlusElement
    <3>4. tailIndex + k - 1 = tailIndex + j
      BY <3>1, <3>2, HalfRange DEF Index
    <3> QED
      BY <1>6, <3>1, <3>3, <3>4 DEF Plus
  <2> QED
    BY <1>9, <2>1
<1>11. Contents' = Contents \o v
  BY <1>4, <1>7, <1>8, <1>10, Joined
<1>12. UNCHANGED <<cpc, call, owed>>
  BY DEF claimVars
<1>13. Wanted' = Wanted
  BY <1>12 DEF Wanted, Unsettled
<1>14. InHand' = InHand
  <2>1. \A c \in Consumers : Holding(c)' = Holding(c)
    BY <1>12 DEF Holding, First, At, Number, Element
  <2> QED
    BY <2>1, MappedAll, MappedNext
<1> HIDE DEF Contents, Wanted, InHand
<1>15. Fifo!EnqueueBatch(n)
  BY <1>2, <1>4, <1>9, <1>11, <1>12, <1>13, <1>14 DEF Fifo!EnqueueBatch, Plus
<1> QED
  BY <1>15

LEMMA DiscardRefines ==
  ASSUME WindowsFit, FInv, FInv', UNCHANGED claimVars, Destroy
  PROVE  Fifo!Discard
<1>1. /\ \A c \in Consumers : cpc[c] = "idle"
      /\ ppc' = "destroyed" /\ UNCHANGED <<tailIndex, cpc, call, owed>>
  BY DEF Destroy, ProducerGoto, claimVars
<1>2. \A c \in Consumers : InHand[c] = << >> /\ Wanted[c] = 0
  BY <1>1 DEF InHand, Wanted, Unsettled
<1>3. InHand' = InHand
  BY <1>1 DEF InHand, Unsettled
<1>4. Wanted' = Wanted
  BY <1>1 DEF Wanted, Unsettled
<1>5. Contents' = << >>
  BY <1>1 DEF Contents
<1> HIDE DEF Contents, Wanted, InHand
<1> QED
  BY <1>1, <1>2, <1>3, <1>4, <1>5 DEF Fifo!Discard

LEMMA ProducerUnseen ==
  ASSUME WindowsFit, FInv, FInv', UNCHANGED claimVars, tailIndex' = tailIndex,
         ppc = "destroyed" <=> ppc' = "destroyed"
  PROVE  UNCHANGED Fifo!fifoVars
<1>1. UNCHANGED <<headIndex, cpc, call, owed>>
  BY DEF claimVars, counters
<1>2. Contents' = Contents
  <2>1. Queue' = Queue
    BY <1>1 DEF Queue, Filled, Emptied, Element
  <2> QED
    BY <2>1, MappedAll, MappedNext
<1>3. Wanted' = Wanted
  BY <1>1 DEF Wanted, Unsettled
<1>4. InHand' = InHand
  <2>1. \A c \in Consumers : Holding(c)' = Holding(c)
    BY <1>1 DEF Holding, First, At, Number, Element
  <2> QED
    BY <2>1, MappedAll, MappedNext
<1> QED
  BY <1>1, <1>2, <1>3, <1>4 DEF Fifo!fifoVars

LEMMA FifoInitRefines ==
  ASSUME WindowsFit, Init
  PROVE  Fifo!FifoInit
<1> HIDE DEF Numbers
<1>1. /\ tailIndex = StartIndex /\ headIndex = StartIndex /\ ppc = "idle"
      /\ \A c \in Consumers : cpc[c] = "idle"
      /\ owed = [c \in Consumers |-> 0]
  BY DEF Init, ClaimInit
<1>2. Contents = << >>
  <2>1. Minus(tailIndex, headIndex) = 0
    <3>1. StartIndex \in Index
      BY HalfRange
    <3>2. StartIndex - StartIndex = 0 /\ StartIndex >= StartIndex
      BY <3>1, HalfRange DEF Index
    <3>3. Minus(StartIndex, StartIndex) = 0
      BY <3>1, <3>2, MinusValue
    <3> QED
      BY <1>1, <3>3
  <2>2. 1 .. 0 = {}
    OBVIOUS
  <2> QED
    BY <1>1, <2>1, <2>2 DEF Contents
<1>3. Wanted = [c \in Consumers |-> 0]
  BY <1>1 DEF Wanted, Unsettled
<1>4. InHand = [c \in Consumers |-> << >>]
  BY <1>1 DEF InHand
<1> HIDE DEF Contents, Wanted, InHand
<1> QED
  BY <1>1, <1>2, <1>3, <1>4 DEF Fifo!FifoInit

\* Each step of the sub-queue is one of the abstract queue, or none.
LEMMA NextRefines ==
  ASSUME WindowsFit, FInv, FInv', [Next]_vars
  PROVE  [Fifo!FifoNext]_(Fifo!fifoVars)
<1> HIDE DEF Numbers
<1>1. ShareIInv /\ ShareInv /\ ClaimsOK /\ CallsOK
  BY QueueFacts DEF FInv
<1>2. CASE Enqueue \/ Destroy
  <2>1. /\ UNCHANGED claimVars
        /\ \/ Destroy
           \/ Commit
           \/ tailIndex' = tailIndex /\ ppc # "destroyed" /\ ppc' # "destroyed"
    BY <1>1, <1>2, EnqueueEffect
  <2>2. CASE Destroy
    BY <2>1, <2>2, DiscardRefines DEF Fifo!FifoNext
  <2>3. CASE Commit
    BY <2>1, <2>3, CommitRefines DEF Fifo!FifoNext
  <2>4. CASE tailIndex' = tailIndex /\ ppc # "destroyed" /\ ppc' # "destroyed"
    BY <2>1, <2>4, ProducerUnseen
  <2> QED
    BY <2>1, <2>2, <2>3, <2>4
<1>3. ASSUME NEW c \in Consumers, Dequeue(c)
      PROVE  [Fifo!FifoNext]_(Fifo!fifoVars)
  <2>1. /\ OnlyCaller(c) /\ UNCHANGED <<tailIndex, ppc>>
        /\ \/ \E max \in 1 .. MaxBulk : BeginDequeue(c, max) /\ ppc # "destroyed"
           \/ Sharing(c)
           \/ GoesOn(c)
    BY <1>1, <1>3, DequeueEffect
  <2>2. ASSUME NEW max \in 1 .. MaxBulk, BeginDequeue(c, max), ppc # "destroyed"
        PROVE  [Fifo!FifoNext]_(Fifo!fifoVars)
    <3>1. Fifo!Call(c, max)
      BY <2>1, <2>2, BeginRefines
    <3> QED
      BY <3>1 DEF Fifo!FifoNext
  <2>3. CASE Sharing(c)
    <3>1. (\E n \in 0 .. MaxBulk : Fifo!Take(c, n)) \/ UNCHANGED Fifo!fifoVars
      BY <2>1, <2>3, SharingRefines
    <3> QED
      BY <3>1 DEF Fifo!FifoNext
  <2>4. CASE GoesOn(c)
    <3>1. Fifo!Return(c) \/ UNCHANGED Fifo!fifoVars
      BY <2>1, <2>4, ReturnRefines
    <3> QED
      BY <3>1 DEF Fifo!FifoNext
  <2> QED
    BY <2>1, <2>2, <2>3, <2>4
<1>4. CASE UNCHANGED vars
  <2>1. UNCHANGED claimVars /\ tailIndex' = tailIndex /\ ppc' = ppc
    BY <1>4 DEF vars, producerVars
  <2> QED
    BY <2>1, ProducerUnseen
<1> QED
  BY <1>2, <1>3, <1>4 DEF Next

\* A sub-queue that grows round its ring of blocks is a first-in, first-out queue too, for
\* any number of consumers, blocks and elements, as long as no batch fails halfway
\* (concurrentqueue.h:2011) and no constructor throws in a call that has prepared blocks,
\* which excludes the exceptions of :1839 and :2106 there: every element is dequeued
\* once and in the order of the enqueues.
THEOREM IsAQueue ==
  ASSUME WindowsFit, ~PartialFailure, ~ThrowsLate
  PROVE  Spec => FifoSpec
<1> HIDE DEF Numbers
<1>1. Init => Fifo!FifoInit
  BY FifoInitRefines
<1>2. FInv /\ FInv' /\ [Next]_vars => [Fifo!FifoNext]_(Fifo!fifoVars)
  BY NextRefines
<1>3. Spec => []FInv
  BY FifoInvariance
<1> QED
  BY <1>1, <1>2, <1>3, PTL DEF Spec, FifoSpec, Fifo!FifoSpec
==============================================================================
