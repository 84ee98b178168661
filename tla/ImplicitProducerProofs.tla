------------------------ MODULE ImplicitProducerProofs ------------------------
(***************************************************************************)
(* Theorems about ImplicitProducer that hold for every number of consumers *)
(* and blocks, every width of the indices and every size of block.         *)
(***************************************************************************)
EXTENDS ImplicitProducer, ProducerBaseProofs, FunctionTheorems

\* What the producer is about to publish fits into the window.
EnqueueFits ==
  "count" \in DOMAIN enq /\ enq.count \in Nat /\ Filled + enq.count <= MaxEnqueued

ShareIInv == ShareInv /\ EnqueueFits

\* The producer publishes nothing, and no more elements are to come.
Preparing ==
  /\ UNCHANGED <<tailIndex, claimVars>>
  /\ "count" \in DOMAIN enq'
  /\ enq'.count = enq.count \/ enq'.count = 0

LEMMA PreparingStep ==
  ASSUME WindowsFit, ShareIInv, Preparing
  PROVE  ShareIInv'
<1> HIDE DEF Numbers
<1> USE DEF ShareIInv
<1>1. Filled \in Nat /\ tailIndex \in Index /\ Filled <= MaxEnqueued
  BY HalfRange, ShareTypes DEF ShareInv, ShareFacts, Index, ShareTyped, Room
<1>2. Plus(tailIndex, 0) = tailIndex
  BY <1>1, HalfRange, PlusValue DEF Index
<1>3. Resting /\ tailIndex' = Plus(tailIndex, 0) /\ Filled + 0 <= MaxEnqueued
  BY <1>1, <1>2 DEF Preparing, Resting, claimVars
<1>4. ShareInv'
  BY <1>3, FillStep
<1>5. Filled' = Filled
  BY DEF Preparing, Filled
<1>6. EnqueueFits'
  <2>1. "count" \in DOMAIN enq' /\ enq'.count \in Nat
    BY DEF Preparing, EnqueueFits
  <2>2. CASE enq'.count = enq.count
    BY <1>5, <2>1, <2>2 DEF EnqueueFits
  <2>3. CASE enq'.count = 0
    BY <1>1, <1>5, <2>1, <2>3 DEF EnqueueFits
  <2>4. QED
    BY <2>2, <2>3 DEF Preparing
<1>7. QED
  BY <1>4, <1>6

LEMMA EnqueueStep ==
  ASSUME WindowsFit, ShareIInv, Enqueue \/ Destroy
  PROVE  ShareIInv'
<1> HIDE DEF Numbers
<1> USE DEF ShareIInv
<1>0. "count" \in DOMAIN enq
  BY DEF EnqueueFits
<1>1. ASSUME NEW n \in {1, MaxBulk}, NEW bulk \in BOOLEAN, BeginEnqueue(n, bulk)
      PROVE  ShareIInv'
  <2>1. /\ enq'.count = n /\ "count" \in DOMAIN enq'
        /\ UNCHANGED <<tailIndex, claimVars>>
        /\ Filled + n <= MaxEnqueued
    BY <1>1 DEF BeginEnqueue, NoEnqueue, Filled
  <2>2. n \in Nat
    BY HalfRange
  <2>3. Filled \in Nat /\ tailIndex \in Index /\ Filled + 0 <= MaxEnqueued
    BY HalfRange, ShareTypes DEF ShareInv, ShareFacts, Index, ShareTyped, Room
  <2>4. Plus(tailIndex, 0) = tailIndex
    BY <2>3, HalfRange, PlusValue DEF Index
  <2>5. ShareInv'
    BY <2>1, <2>3, <2>4, FillStep DEF Resting, claimVars
  <2>6. EnqueueFits'
    BY <2>1, <2>2 DEF EnqueueFits, Filled
  <2>7. QED
    BY <2>5, <2>6
<1>2. CASE Commit
  <2>1. /\ tailIndex' = Plus(tailIndex, enq.count) /\ UNCHANGED claimVars
        /\ enq' = NoEnqueue
    BY <1>2 DEF Commit, EndCall
  <2>2. ShareInv'
    BY <2>1, FillStep DEF Resting, claimVars, EnqueueFits
  <2>3. "count" \in DOMAIN enq' /\ enq'.count = 0
    BY <2>1 DEF NoEnqueue
  <2>4. EnqueueFits'
    <3>1. Filled' \in Nat /\ Filled' <= MaxEnqueued
      BY <2>2, HalfRange, ShareTypesNext DEF ShareInv, ShareFacts, Index, Room
    <3>2. Filled' + 0 <= MaxEnqueued
      BY <3>1
    <3>3. QED
      BY <2>3, <3>2 DEF EnqueueFits
  <2>5. QED
    BY <2>2, <2>4
<1>3. CASE CheckRoom \/ InsertIndexEntry
  <2>1. Preparing
    BY <1>0, <1>3 DEF CheckRoom, InsertIndexEntry, FindSlot, Grow, CannotGrow, StoreKey,
       StoreIndexTail, Preparing
  <2>2. QED
    BY <2>1, PreparingStep
<1>4. CASE Requisition \/ NoRequisition \/ StoreValue
  <2>1. Preparing
    BY <1>0, <1>4 DEF Requisition, NoRequisition, StoreValue, Preparing
  <2>2. QED
    BY <2>1, PreparingStep
<1>5. CASE Construct \/ ThrowUnpublished \/ ThrowInBatch
  <2>1. Preparing
    BY <1>0, <1>5 DEF Construct, ThrowUnpublished, ThrowInBatch, Preparing
  <2>2. QED
    BY <2>1, PreparingStep
<1>6. CASE Revert
  <2>1. Preparing
    BY <1>0, <1>6 DEF Revert, RewindTail, ClearValue, Undo, Unlink, Unwind, EndCall, NoEnqueue,
       Preparing
  <2>2. QED
    BY <2>1, PreparingStep
<1>7. CASE Destroy
  <2>1. Preparing
    BY <1>0, <1>7 DEF Destroy, Preparing
  <2>2. QED
    BY <2>1, PreparingStep
<1>8. QED
  BY <1>1, <1>2, <1>3, <1>4, <1>5, <1>6, <1>7 DEF Enqueue

LEMMA DequeueStep ==
  ASSUME WindowsFit, ShareIInv, NEW c \in Consumers, Dequeue(c)
  PROVE  ShareIInv'
<1> HIDE DEF Numbers
<1> USE DEF ShareIInv
<1>1. ASSUME ShareInv', UNCHANGED <<tailIndex, enq>> PROVE ShareIInv'
  BY <1>1 DEF EnqueueFits, Filled
<1>2. CASE Begin(c)
  <2>1. PICK max \in {1, MaxBulk} : BeginDequeue(c, max)
    BY <1>2 DEF Begin
  <2>2. max \in 1 .. MaxBulk
    BY HalfRange
  <2>3. ShareInv'
    BY <2>1, <2>2, BeginStep
  <2>4. UNCHANGED <<tailIndex, enq>>
    BY <1>2, <2>1 DEF Begin, BeginDequeue, producerVars
  <2>5. QED
    BY <1>1, <2>3, <2>4
<1>3. CASE Share(c)
  <2>1. ShareInv'
    BY <1>3, SharingStep DEF Share
  <2>2. UNCHANGED <<tailIndex, enq>>
    BY <1>3 DEF Share, Sharing, LoadOvercommit, Examine, Promise, Reload, GiveBack, Claim,
       producerVars
  <2>3. QED
    BY <1>1, <2>1, <2>2
<1>4. DOMAIN cpc = Consumers /\ DOMAIN call = Consumers
  BY DEF ShareInv, ShareTyped
<1>5. ASSUME /\ cpc[c] \in {"claimed", "slotTail", "slotKey", "entry", "empty", "unlink", "free"}
             /\ cpc'[c] \in {"slotTail", "slotKey", "entry", "empty", "unlink", "free", "idle"}
             /\ OnlyCaller(c) /\ DOMAIN cpc' = Consumers /\ DOMAIN call' = Consumers
             /\ UNCHANGED <<tailIndex, counters, enq>>
      PROVE  ShareIInv'
  <2>1. c \notin Unsettled /\ c \notin Unsettled'
    BY <1>5 DEF Unsettled
  <2>2. ShareInv'
    BY <1>5, <2>1, ClaimedStep
  <2>3. QED
    BY <1>1, <1>5, <2>2
<1>6. ASSUME NextBlock(c)
      PROVE  cpc'[c] \in {"entry", "idle"} /\ OnlyCaller(c)
             /\ DOMAIN cpc' = Consumers /\ DOMAIN call' = Consumers
  BY <1>4, <1>6 DEF NextBlock, ReturnFrom, ConsumerGoto, OnlyCaller
<1>7. CASE LoadHeader(c)
  BY <1>4, <1>5, <1>7 DEF LoadHeader, ConsumerGoto, OnlyCaller, producerVars
<1>8. CASE LoadSlotTail(c)
  BY <1>4, <1>5, <1>8 DEF LoadSlotTail, ConsumerGoto, OnlyCaller, producerVars
<1>9. CASE LoadSlotKey(c)
  BY <1>4, <1>5, <1>9 DEF LoadSlotKey, ConsumerGoto, OnlyCaller, producerVars
<1>10. CASE Move(c)
  BY <1>4, <1>5, <1>10 DEF Move, ConsumerGoto, OnlyCaller, producerVars
<1>11. CASE SetEmpty(c)
  <2>1. /\ cpc'[c] \in {"entry", "idle", "unlink"} /\ OnlyCaller(c)
        /\ DOMAIN cpc' = Consumers /\ DOMAIN call' = Consumers
    BY <1>4, <1>6, <1>11 DEF SetEmpty, ConsumerGoto, OnlyCaller
  <2>2. cpc[c] = "empty" /\ UNCHANGED <<tailIndex, counters, enq>>
    BY <1>11 DEF SetEmpty, producerVars
  <2>3. QED
    BY <1>5, <2>1, <2>2
<1>12. CASE UnlinkBlock(c)
  BY <1>4, <1>5, <1>12 DEF UnlinkBlock, ConsumerGoto, OnlyCaller, producerVars
<1>13. CASE FreeBlock(c)
  BY <1>5, <1>6, <1>13 DEF FreeBlock, producerVars
<1>14. QED
  BY <1>2, <1>3, <1>7, <1>8, <1>9, <1>10, <1>11, <1>12, <1>13 DEF Dequeue

LEMMA ShareInvariance ==
  ASSUME WindowsFit
  PROVE  Spec => []ShareIInv
<1> HIDE DEF Numbers
<1>1. Init => ShareIInv
  <2> SUFFICES ASSUME Init PROVE ShareIInv
    OBVIOUS
  <2>1. ShareInv
    BY ShareInit DEF Init
  <2>2. "count" \in DOMAIN enq /\ enq.count = 0
    BY DEF Init, NoEnqueue
  <2>3. Filled \in Nat /\ Filled <= MaxEnqueued
    BY <2>1, HalfRange, ShareTypes DEF ShareInv, ShareFacts, Index, Room
  <2>4. QED
    BY <2>1, <2>2, <2>3 DEF ShareIInv, EnqueueFits
<1>2. ShareIInv /\ [Next]_vars => ShareIInv'
  <2> SUFFICES ASSUME ShareIInv, [Next]_vars PROVE ShareIInv'
    OBVIOUS
  <2>1. CASE Enqueue \/ Destroy
    BY <2>1, EnqueueStep
  <2>2. ASSUME NEW c \in Consumers, Dequeue(c) PROVE ShareIInv'
    BY <2>2, DequeueStep
  <2>3. CASE UNCHANGED vars
    <3>1. Preparing
      BY <2>3 DEF vars, producerVars, Preparing, ShareIInv, EnqueueFits
    <3>2. QED
      BY <3>1, PreparingStep
  <2>4. QED
    BY <2>1, <2>2, <2>3 DEF Next
<1>3. QED
  BY <1>1, <1>2, PTL DEF Spec

\* However the calls of dequeue and dequeue_bulk interleave, what they have promised
\* and not given back is what they have taken and what they still owe each other.
THEOREM PromisesAlwaysSettled ==
  ASSUME WindowsFit
  PROVE  Spec => []PromisesSettled
<1>1. ShareIInv => PromisesSettled
  BY ShareSettles DEF ShareIInv
<1>2. QED
  BY <1>1, ShareInvariance, PTL

\* A consumer that has decided to claim elements finds them there, whichever other
\* consumers claim before it: the fetch_add on headIndex never passes the tail.
THEOREM ClaimsAlwaysCovered ==
  ASSUME WindowsFit
  PROVE  Spec => []ClaimsCovered
<1>1. ShareIInv => ClaimsCovered
  BY ShareCovers DEF ShareIInv
<1>2. QED
  BY <1>1, ShareInvariance, PTL

------------------------------------------------------------------------------
(* What consumers have claimed and consumed.                               *)

LookupPcs == {"slotTail", "slotKey", "entry", "empty", "unlink", "free"}
ClaimedPcs == LookupPcs \cup {"claimed"}
CallFields == {"count", "index", "header", "slot", "first", "block", "got"}

\* A consumer has claimed the elements from First to Until, and is At one of them,
\* Here is its block.
At(c) == Number(call[c].index)
First(c) == IF cpc[c] = "claimed" THEN At(c) ELSE Number(call[c].first)
Until(c) == First(c) + call[c].count
Here(c) == BlockNo(call[c].index)
LastBlock(c) == (Until(c) - 1) \div BlockSize

\* Those it has yet to count as consumed (elementsCompletelyDequeued).
From(c) == IF cpc[c] \in {"unlink", "free"} THEN (Here(c) + 1) * BlockSize ELSE At(c)
Open(c) == IF cpc[c] \in ClaimedPcs THEN From(c) .. Until(c) - 1 ELSE {}
Taken(c) == IF cpc[c] \in ClaimedPcs THEN First(c) .. Until(c) - 1 ELSE {}

Consumed(n) == n < Emptied /\ \A c \in Consumers : n \notin Open(c)
ConsumedIn(m) == {n \in Within(m) : Consumed(n)}

\* The block index still needs block m.
Live(m) ==
  \/ \E n \in Within(m) : ~Consumed(n)
  \/ \E c \in Consumers : cpc[c] = "unlink" /\ Here(c) = m

ClaimOK(c) ==
  cpc[c] \in ClaimedPcs =>
    /\ call[c].index \in Index /\ call[c].count \in Nat
    /\ At(c) \in First(c) .. Until(c) - 1
    /\ Until(c) <= Emptied
    /\ At(c) = First(c) \/ At(c) = Here(c) * BlockSize
    /\ cpc[c] \in LookupPcs => call[c].first \in Index /\ DOMAIN call[c] = CallFields
    /\ cpc[c] = "unlink" => \A n \in Within(Here(c)) : Consumed(n)

ClaimsOK ==
  /\ \A c \in Consumers : ClaimOK(c)
  /\ \A c, d \in Consumers : c # d => Taken(c) \cap Taken(d) = {}
  /\ \A c, d \in Consumers :
       cpc[c] = "unlink" /\ cpc[d] = "unlink" /\ Here(c) = Here(d) => c = d
  /\ ppc = "destroyed" => \A c \in Consumers : cpc[c] = "idle"

------------------------------------------------------------------------------
(* The producer's call.                                                    *)

\* The blocks that have been committed, and with those that the call has prepared.
Committed == (Filled + BlockSize - 1) \div BlockSize
Listed == Committed + Len(enq.chain)

InsertPcs == {"key", "indexTail", "requisition", "value", "rewind", "clear"}
Undoing == ppc \in {"unlink", "unwind"}
Gone == BlockNo(enq.base) - Committed

EnqueueRecords ==
  [count : Nat, bulk : BOOLEAN, base : Index, entry : Nat, fresh : Blocks \cup {NoBlock},
   chain : Seq(Blocks)]

EnqOK ==
  /\ enq \in EnqueueRecords
  /\ Listed * BlockSize < MaxEnqueued + BlockSize
  /\ ppc \in {"idle", "destroyed"} => enq = NoEnqueue
  /\ ppc \in InsertPcs \cup {"room", "slot", "grow"} =>
       enq.base = BaseOf(Listed) /\ Listed * BlockSize < Filled + enq.count
  /\ ppc \in {"construct", "commit"} =>
       /\ Filled + enq.count <= Listed * BlockSize
       /\ Listed * BlockSize < Filled + enq.count + BlockSize
  /\ Undoing => BlockNo(enq.base) \in Committed .. Listed - 1
                /\ enq.base = BaseOf(BlockNo(enq.base))
  /\ headers = << >> => Listed = 0 /\ ppc \notin InsertPcs \cup {"grow"}
  /\ enq.fresh # NoBlock => ppc \in {"value", "rewind", "clear", "undo", "unlink", "unwind"}
  /\ ppc = "value" => enq.fresh # NoBlock /\ dequeued[enq.fresh] = 0

------------------------------------------------------------------------------
(* The block index.                                                        *)

Headers == UNION {[tail : 0 .. n - 1, index : [0 .. n - 1 -> 0 .. n - 1]] : n \in 1 .. MaxIndexSize}

\* The highest block that the entries are in use for, and the one of the tail.
Reach == IF ppc \in InsertPcs THEN Listed ELSE Listed - 1
Top == IF ppc \in {"requisition", "value", "rewind"} THEN Listed
       ELSE IF Undoing THEN Listed - 1 - Gone ELSE Listed - 1

\* The entry of a block.
Origin == Last.tail - Top
Entry(m) == Last.index[(Origin + m) % Capacity(Last)]

RingTyped ==
  /\ headers \in Seq(Headers) /\ DOMAIN key = Entries /\ DOMAIN value = Entries
  /\ \A h \in 1 .. Len(headers) : \A i, j \in DOMAIN headers[h].index :
       headers[h].index[i] = headers[h].index[j] => i = j
  /\ \A e \in Entries : key[e] = InvalidBlockBase => value[e] = NoBlock
  /\ headers # << >> => \A e \in Entries \ DOMAIN Last.index : key[e] = InvalidBlockBase

\* The ring has room for the blocks that the index needs, and their keys are in it.
RingLive ==
  \A m \in 0 .. Listed - 1 : Live(m) =>
    /\ Reach < m + Capacity(Last)
    /\ \A q \in m .. Listed - 1 : key[Entry(q)] = BaseOf(q)

\* The entry of the block that is being listed.
Inserting ==
  /\ ppc \in InsertPcs \cup {"grow"} => enq.entry = Entry(Listed)
  /\ ppc \in InsertPcs => value[enq.entry] = NoBlock
  /\ ppc \in InsertPcs \ {"key"} => key[enq.entry] = enq.base

\* The entries that have been taken back.
Removing ==
  Undoing => \A q \in Committed .. Listed - 1 :
    q < BlockNo(enq.base) \/ (q = BlockNo(enq.base) /\ ppc = "unwind") =>
      value[Entry(q)] = NoBlock

RingOK == RingTyped /\ RingLive /\ Inserting /\ Removing

------------------------------------------------------------------------------
(* The blocks.                                                             *)

\* A block has one place: the pool, the index, the producer's call, or the hands of the
\* consumer that frees it.
Limit == IF Undoing THEN Committed ELSE Listed
LiveNos == {m \in 0 .. Limit - 1 : Live(m)}
Chained == {enq.chain[i] : i \in 1 .. Len(enq.chain)}
Freeing == {c \in Consumers : cpc[c] = "free"}

OwnersOK ==
  /\ freeBlocks \subseteq Blocks /\ DOMAIN dequeued = Blocks
  /\ \A m \in LiveNos : value[Entry(m)] \in Blocks \ freeBlocks
  /\ \A m \in LiveNos : dequeued[value[Entry(m)]] = Cardinality(ConsumedIn(m))
  /\ \A m, q \in LiveNos : value[Entry(m)] = value[Entry(q)] => m = q
  /\ ~Undoing => \A i \in 1 .. Len(enq.chain) : value[Entry(Committed + i - 1)] = enq.chain[i]
  /\ Undoing => \A m \in LiveNos : value[Entry(m)] \notin Chained
  /\ \A m \in LiveNos : value[Entry(m)] # enq.fresh
  /\ Chained \cap freeBlocks = {} /\ enq.fresh \notin freeBlocks /\ enq.fresh \notin Chained
  /\ \A c \in Freeing : /\ call[c].block \in Blocks \ freeBlocks
                        /\ call[c].block \notin Chained /\ call[c].block # enq.fresh
                        /\ \A m \in LiveNos : value[Entry(m)] # call[c].block
  /\ \A c, d \in Freeing : call[d].block = call[c].block => c = d

------------------------------------------------------------------------------
(* The lookups.                                                            *)

BlockNos == {m \in 0 .. MaxEnqueued : m * BlockSize < MaxEnqueued}

\* The keys are in the ring from the block of c to block T, even if the tail has gone back
\* since.  If it has, the entries will be used for the same blocks again.
Keyed(c, T) ==
  /\ LastBlock(c) <= T /\ T < Here(c) + Capacity(Last)
  /\ \A m \in Here(c) .. T : key[Entry(m)] = BaseOf(m)
  /\ \/ T < Listed
     \/ ppc # "grow" /\ \A q \in Listed .. T : value[Entry(q)] = NoBlock

\* Slot t of the header that c has loaded leads to their entries.
Leads(c, t, T) ==
  LET h == headers[call[c].header]
  IN \A m \in Here(c) .. T : h.index[(t + (m - T)) % Capacity(h)] = Entry(m)

Seen(c, t, T) == Keyed(c, T) /\ Leads(c, t, T)

LookupOK(c) ==
  LET h == headers[call[c].header]
  IN /\ call[c].header \in 1 .. Len(headers)
     /\ cpc[c] = "slotTail" =>
          call[c].header = Len(headers) \/ \E T \in BlockNos : Seen(c, h.tail, T)
     /\ cpc[c] # "slotTail" => call[c].slot \in DOMAIN h.index
     /\ cpc[c] = "slotKey" => \E T \in BlockNos : Seen(c, call[c].slot, T)
     /\ cpc[c] \in {"entry", "empty", "unlink", "free"} =>
          \A m \in Here(c) .. LastBlock(c) :
            (m = Here(c) /\ cpc[c] = "free") \/
            h.index[(call[c].slot + (m - Here(c))) % Capacity(h)] = Entry(m)
     /\ cpc[c] \in {"empty", "unlink"} => call[c].block = value[Entry(Here(c))]

LookupsOK == \A c \in Consumers : cpc[c] \in LookupPcs => LookupOK(c)

StoreOK == EnqOK /\ RingOK /\ OwnersOK /\ LookupsOK

IInv == ShareIInv /\ ClaimsOK /\ (ppc # "destroyed" => StoreOK)

------------------------------------------------------------------------------
(* Numbers of blocks.                                                      *)

LEMMA Order ==
  ASSUME NEW k \in Nat \ {0}, NEW m \in Int, NEW n \in Int, m * k < n * k
  PROVE  m < n
<1>1. ASSUME n < m PROVE n * k + k <= m * k
  BY <1>1, Multiples
<1>2. m * k \in Int /\ n * k \in Int
  OBVIOUS
<1>3. ASSUME n = m PROVE FALSE
  BY <1>3
<1> QED
  BY <1>1, <1>2, <1>3

LEMMA Basics ==
  ASSUME WindowsFit, ShareIInv
  PROVE  /\ Filled \in Nat /\ Emptied \in Nat /\ Emptied <= Filled /\ Filled <= MaxEnqueued
         /\ MaxEnqueued \in Nat /\ MaxEnqueued < Numbers \div 2 /\ Numbers \div 2 \in Nat
         /\ Numbers \in Nat \ {0} /\ Numbers \div 2 < Numbers
         /\ MaxEnqueued + BlockSize <= Numbers
         /\ BlockSize \in Nat \ {0, 1}
         /\ DOMAIN cpc = Consumers /\ DOMAIN call = Consumers
         /\ tailIndex \in Index /\ headIndex \in Index
<1> HIDE DEF Numbers
<1>1. /\ Numbers \in Nat \ {0} /\ Numbers \div 2 \in Nat
      /\ Numbers = (Numbers \div 2) + (Numbers \div 2)
      /\ BlockSize \in Nat \ {0, 1} /\ Numbers % BlockSize = 0 /\ BlockSize < Numbers
  BY HalfRange, BlockFacts, ProducerAssumption DEF ProducerAssumption
<1>2. ShareTyped /\ ShareFacts /\ Room /\ Emptied <= Filled
  BY ShareTypes DEF ShareIInv, ShareInv
<1>3. Filled \in Nat /\ Emptied \in Nat
  BY <1>1, <1>2 DEF ShareFacts, Index
<1>4. BlockSize <= Numbers \div 2
  <2>1. PICK q \in Int, r \in 0 .. BlockSize - 1, p \in Int :
          q = Numbers \div BlockSize /\ r = Numbers % BlockSize /\ p = q * BlockSize
          /\ Numbers = p + r
    BY <1>1, Division
  <2>6. r = 0 /\ Numbers = p + r /\ p \in Int
    BY <1>1, <2>1
  <2>2. p = Numbers
    BY <2>6
  <2>3. 1 * BlockSize = BlockSize
    BY <1>1
  <2>4. 1 < q
    <3>1. 1 * BlockSize < q * BlockSize
      BY <1>1, <2>1, <2>2, <2>3
    <3>2. BlockSize \in Nat \ {0}
      BY <1>1
    <3> QED
      BY <2>1, <3>1, <3>2, Order
  <2>5. 1 * BlockSize + BlockSize <= q * BlockSize
    <3>2. BlockSize \in Nat \ {0}
      BY <1>1
    <3> QED
      BY <2>1, <2>4, <3>2, Multiples
  <2> QED
    BY <1>1, <2>1, <2>2, <2>3, <2>5
<1>5. MaxEnqueued \in Nat /\ MaxEnqueued < Numbers \div 2
  BY HalfRange DEF WindowsFit
<1> QED
  BY <1>1, <1>2, <1>3, <1>4, <1>5 DEF ShareTyped, Room

LEMMA CommittedValue ==
  ASSUME WindowsFit, ShareIInv
  PROVE  /\ Committed \in Nat /\ Committed * BlockSize \in Nat
         /\ Filled <= Committed * BlockSize /\ Committed * BlockSize < Filled + BlockSize
<1> HIDE DEF Numbers
<1>1. Filled \in Nat /\ BlockSize \in Nat \ {0}
  BY Basics
<1>2. PICK q \in Int, r \in 0 .. BlockSize - 1, p \in Int :
        /\ q = (Filled + BlockSize - 1) \div BlockSize /\ r = (Filled + BlockSize - 1) % BlockSize
        /\ p = q * BlockSize /\ Filled + BlockSize - 1 = p + r
  <2>1. Filled + BlockSize - 1 \in Int
    BY <1>1
  <2> QED
    BY <1>1, <2>1, Division
<1>3. Committed = q
  BY <1>2 DEF Committed
<1>4. ASSUME q < 0 PROVE p + BlockSize <= 0
  <2>1. q * BlockSize + BlockSize <= 0 * BlockSize
    BY <1>1, <1>2, <1>4, Multiples
  <2> QED
    BY <1>1, <1>2, <2>1
<1>5. q >= 0
  BY <1>1, <1>2, <1>4
<1>6. q * BlockSize \in Nat
  BY <1>1, <1>2, <1>5
<1> QED
  BY <1>1, <1>2, <1>3, <1>5, <1>6

\* What a consumer that has claimed elements knows.
LEMMA ClaimFacts ==
  ASSUME WindowsFit, ShareIInv, NEW c \in Consumers, ClaimOK(c), cpc[c] \in ClaimedPcs
  PROVE  /\ At(c) \in Nat /\ First(c) \in Nat /\ Until(c) \in Nat
         /\ First(c) <= At(c) /\ At(c) < Until(c) /\ Until(c) <= Emptied
         /\ Here(c) \in Nat /\ LastBlock(c) \in Nat /\ Here(c) <= LastBlock(c)
         /\ LastBlock(c) < Committed
         /\ At(c) \in Within(Here(c)) /\ Until(c) - 1 \in Within(LastBlock(c))
         /\ Here(c) * BlockSize \in Nat /\ LastBlock(c) * BlockSize \in Nat
         /\ From(c) \in Nat /\ At(c) <= From(c)
<1> HIDE DEF Numbers
<1>1. /\ BlockSize \in Nat \ {0} /\ Filled \in Nat /\ Emptied \in Nat /\ Emptied <= Filled
      /\ Committed \in Nat /\ Filled <= Committed * BlockSize /\ Committed * BlockSize \in Nat
  BY Basics, CommittedValue
<1>2. /\ call[c].index \in Index /\ call[c].count \in Nat
      /\ At(c) \in First(c) .. Until(c) - 1 /\ Until(c) <= Emptied
      /\ cpc[c] \in LookupPcs => call[c].first \in Index
  BY DEF ClaimOK
<1>3. \A i \in Index : i \in Nat
  BY HalfRange DEF Index
<1>4. At(c) \in Nat
  BY <1>2, <1>3, NumberValue DEF At
<1>5. First(c) \in Nat
  BY <1>2, <1>3, <1>4, NumberValue DEF First, ClaimedPcs
<1>6. Until(c) \in Nat
  BY <1>2, <1>5 DEF Until
<1>7. Here(c) \in Nat /\ At(c) \in Within(Here(c))
  BY <1>2, BlockNoValue DEF Here, At
<1>8. PICK q \in Int, r \in 0 .. BlockSize - 1, p \in Int :
        /\ q = (Until(c) - 1) \div BlockSize /\ r = (Until(c) - 1) % BlockSize
        /\ p = q * BlockSize /\ Until(c) - 1 = p + r
  <2>1. Until(c) - 1 \in Int
    BY <1>6
  <2> QED
    BY <1>1, <2>1, Division
<1>18. Until(c) - 1 = p + r /\ p \in Int /\ q \in Int /\ r \in 0 .. BlockSize - 1
  BY <1>8
<1>9. LastBlock(c) = q
  BY <1>8 DEF LastBlock
<1>10. First(c) <= At(c) /\ At(c) < Until(c) /\ Until(c) <= Emptied
  BY <1>2, <1>4, <1>5, <1>6
<1>11. PICK h \in Nat : h = Here(c) * BlockSize
  BY <1>1, <1>7
<1>12. h <= At(c) /\ At(c) < h + BlockSize
  BY <1>1, <1>4, <1>7, <1>11 DEF Within
<1>13. Here(c) <= q
  <2>1. ASSUME q < Here(c) PROVE p + BlockSize <= h
    <3>1. q * BlockSize + BlockSize <= Here(c) * BlockSize
      BY <1>1, <1>7, <1>18, <2>1, Multiples
    <3> QED
      BY <1>8, <1>11, <3>1
  <2>2. ~(p + BlockSize <= h)
    BY <1>1, <1>4, <1>6, <1>10, <1>12, <1>18
  <2> QED
    BY <1>7, <1>18, <2>1, <2>2
<1>14. q < Committed
  <2>1. q * BlockSize < Committed * BlockSize
    BY <1>1, <1>6, <1>8, <1>10
  <2> QED
    BY <1>1, <1>8, <2>1, Order
<1>15. q \in Nat /\ p \in Nat
  <2>1. q \in Nat
    BY <1>7, <1>8, <1>13
  <2> QED
    BY <1>1, <1>8, <2>1
<1>16. Until(c) - 1 \in Within(q)
  <2>1. Until(c) - 1 \in p .. p + BlockSize - 1
    BY <1>1, <1>18
  <2> QED
    BY <1>8, <2>1 DEF Within
<1>17. From(c) \in Nat /\ At(c) <= From(c)
  <2>1. (Here(c) + 1) * BlockSize = h + BlockSize
    <3>1. 1 * BlockSize = BlockSize
      BY <1>1
    <3> QED
      BY <1>1, <1>7, <1>11, <3>1, Distribute
  <2> QED
    BY <1>1, <1>4, <1>11, <1>12, <2>1 DEF From
<1> QED
  BY <1>4, <1>5, <1>6, <1>7, <1>8, <1>9, <1>10, <1>11, <1>13, <1>14, <1>15, <1>16, <1>17

------------------------------------------------------------------------------
(* The ring of entries.                                                    *)

LEMMA HeaderFacts ==
  ASSUME NEW h \in Headers
  PROVE  /\ Capacity(h) \in Nat \ {0} /\ Capacity(h) <= MaxIndexSize
         /\ DOMAIN h.index = 0 .. Capacity(h) - 1
         /\ h.tail \in 0 .. Capacity(h) - 1
         /\ h.index \in [0 .. Capacity(h) - 1 -> 0 .. Capacity(h) - 1]
<1>1. PICK n \in 1 .. MaxIndexSize : h \in [tail : 0 .. n - 1, index : [0 .. n - 1 -> 0 .. n - 1]]
  BY DEF Headers
<1>2. n \in Nat \ {0} /\ n <= MaxIndexSize
  BY <1>1, ImplicitAssumption DEF ImplicitAssumption
<1>3. h.tail \in 0 .. n - 1 /\ h.index \in [0 .. n - 1 -> 0 .. n - 1]
  BY <1>1
<1>4. Cardinality(0 .. n - 1) = n
  <2>1. 0 \in Int /\ n - 1 \in Int /\ ~(0 > n - 1)
    BY <1>2
  <2>2. Cardinality(0 .. n - 1) = n - 1 - 0 + 1
    BY <2>1, FS_Interval
  <2> QED
    BY <1>2, <2>2
<1>5. Capacity(h) = n
  BY <1>3, <1>4 DEF Capacity
<1> QED
  BY <1>2, <1>3, <1>5

LEMMA ListedFacts ==
  ASSUME WindowsFit, ShareIInv, EnqOK
  PROVE  /\ Committed \in Nat /\ Listed \in Nat /\ Len(enq.chain) \in Nat /\ Committed <= Listed
         /\ Listed = Committed + Len(enq.chain)
         /\ Listed * BlockSize \in Nat /\ Listed * BlockSize < MaxEnqueued + BlockSize
         /\ Listed * BlockSize \in Index
         /\ enq.base \in Index /\ BlockNo(enq.base) \in Nat
<1> HIDE DEF Numbers
<1>1. /\ Committed \in Nat /\ BlockSize \in Nat \ {0, 1} /\ MaxEnqueued + BlockSize <= Numbers
      /\ MaxEnqueued \in Nat /\ Numbers \in Nat
  BY Basics, CommittedValue
<1>2. enq \in EnqueueRecords /\ Listed * BlockSize < MaxEnqueued + BlockSize
  BY DEF EnqOK
<1>3. Len(enq.chain) \in Nat /\ enq.base \in Index
  BY <1>2 DEF EnqueueRecords
<1>4. Listed \in Nat /\ Committed <= Listed /\ Listed = Committed + Len(enq.chain)
  BY <1>1, <1>3 DEF Listed
<1>5. Listed * BlockSize \in Nat
  BY <1>1, <1>4
<1>6. PICK z \in Nat : z = Listed * BlockSize
  BY <1>5
<1>7. z \in Index
  BY <1>1, <1>2, <1>6 DEF Index
<1> QED
  BY <1>1, <1>2, <1>3, <1>4, <1>6, <1>7, BlockNoValue

LEMMA TopFacts ==
  ASSUME WindowsFit, ShareIInv, EnqOK
  PROVE  /\ Top \in Int /\ Reach \in Int /\ Gone \in Int
         /\ Undoing => /\ Gone \in 0 .. Len(enq.chain) - 1 /\ Top \in Committed .. Listed - 1
                       /\ BlockNo(enq.base) = Committed + Gone
         /\ Top <= Listed /\ Listed - 1 <= Reach /\ Reach <= Listed /\ Top <= Reach
         /\ ~Undoing => Listed - 1 <= Top
<1> HIDE DEF Numbers
<1>1. /\ Committed \in Nat /\ Listed \in Nat /\ Len(enq.chain) \in Nat /\ Committed <= Listed
      /\ Listed = Committed + Len(enq.chain) /\ BlockNo(enq.base) \in Nat
  BY ListedFacts
<1>2. /\ Gone = BlockNo(enq.base) - Committed
      /\ Undoing => BlockNo(enq.base) \in Committed .. Listed - 1
  BY DEF Gone, EnqOK
<1>3. Gone \in Int /\ (Undoing => Gone \in 0 .. Len(enq.chain) - 1)
  BY <1>1, <1>2
<1>4. Undoing => ppc \notin InsertPcs
  BY DEF Undoing, InsertPcs
<1>5. ppc \in {"requisition", "value", "rewind"} => ppc \in InsertPcs
  BY DEF InsertPcs
<1> QED
  BY <1>1, <1>2, <1>3, <1>4, <1>5 DEF Top, Reach

LEMMA EntryFacts ==
  ASSUME WindowsFit, ShareIInv, EnqOK, RingOK, headers # << >>
  PROVE  /\ Len(headers) \in Nat \ {0} /\ Last \in Headers /\ Last = headers[Len(headers)]
         /\ Capacity(Last) \in Nat \ {0} /\ Capacity(Last) <= MaxIndexSize
         /\ DOMAIN Last.index = 0 .. Capacity(Last) - 1
         /\ Last.tail \in 0 .. Capacity(Last) - 1
         /\ Top \in Int /\ Origin \in Int /\ Origin = Last.tail - Top
         /\ \A m \in Int : Entry(m) \in 0 .. Capacity(Last) - 1 /\ Entry(m) \in Entries
         /\ \A m \in Int : Entry(m) \in DOMAIN key /\ Entry(m) \in DOMAIN value
<1> HIDE DEF Numbers
<1>1. headers \in Seq(Headers) /\ DOMAIN key = Entries /\ DOMAIN value = Entries
  BY DEF RingOK, RingTyped
<1>2. Len(headers) \in Nat \ {0} /\ Last \in Headers
  BY <1>1 DEF Last
<1>3. /\ Capacity(Last) \in Nat \ {0} /\ Capacity(Last) <= MaxIndexSize
      /\ DOMAIN Last.index = 0 .. Capacity(Last) - 1
      /\ Last.tail \in 0 .. Capacity(Last) - 1
      /\ Last.index \in [0 .. Capacity(Last) - 1 -> 0 .. Capacity(Last) - 1]
  BY <1>2, HeaderFacts
<1>4. Top \in Int
  BY TopFacts
<1>5. Origin \in Int
  BY <1>3, <1>4 DEF Origin
<1>6. ASSUME NEW m \in Int PROVE Entry(m) \in 0 .. Capacity(Last) - 1
  <2>1. (Origin + m) % Capacity(Last) \in 0 .. Capacity(Last) - 1
    BY <1>3, <1>5
  <2> QED
    BY <1>3, <2>1 DEF Entry
<1>7. ASSUME NEW m \in Int PROVE Entry(m) \in Entries
  <2>1. MaxIndexSize \in Nat
    BY ImplicitAssumption DEF ImplicitAssumption
  <2>2. Entry(m) \in 0 .. Capacity(Last) - 1
    BY <1>6
  <2> QED
    BY <1>3, <2>1, <2>2 DEF Entries
<1> QED
  BY <1>1, <1>2, <1>3, <1>4, <1>5, <1>6, <1>7 DEF Origin, Last

\* Blocks that are less than a capacity apart have entries of their own.
LEMMA EntryDistinct ==
  ASSUME WindowsFit, ShareIInv, EnqOK, RingOK, headers # << >>,
         NEW m \in Int, NEW q \in Int, m - q < Capacity(Last), q - m < Capacity(Last),
         Entry(m) = Entry(q)
  PROVE  m = q
<1> HIDE DEF Numbers
<1>1. /\ Capacity(Last) \in Nat \ {0} /\ Origin \in Int /\ Len(headers) \in Nat \ {0}
      /\ DOMAIN Last.index = 0 .. Capacity(Last) - 1
  BY EntryFacts
<1>2. /\ (Origin + m) % Capacity(Last) \in 0 .. Capacity(Last) - 1
      /\ (Origin + q) % Capacity(Last) \in 0 .. Capacity(Last) - 1
  BY <1>1
<1>3. (Origin + m) % Capacity(Last) = (Origin + q) % Capacity(Last)
  <2>1. \A i, j \in DOMAIN Last.index : Last.index[i] = Last.index[j] => i = j
    <3>1. Len(headers) \in 1 .. Len(headers)
      BY <1>1
    <3> QED
      BY <3>1 DEF RingOK, RingTyped, Last
  <2> QED
    BY <1>1, <1>2, <2>1 DEF Entry
<1>4. Origin + m = Origin + q
  <2>1. Origin + m \in Int /\ Origin + q \in Int
    BY <1>1
  <2>2. (Origin + m) - (Origin + q) < Capacity(Last) /\ (Origin + q) - (Origin + m) < Capacity(Last)
    BY <1>1
  <2> QED
    BY <1>1, <1>3, <2>1, <2>2, RingDistinct
<1> QED
  BY <1>1, <1>4

------------------------------------------------------------------------------
(* The blocks that the index still needs.                                  *)

\* The block that a consumer is at, and those of the rest of its batch, are live.
LEMMA LiveHere ==
  ASSUME WindowsFit, ShareIInv, NEW c \in Consumers, ClaimOK(c), cpc[c] \in LookupPcs,
         NEW m \in Here(c) .. LastBlock(c), m # Here(c) \/ cpc[c] # "free"
  PROVE  /\ m \in Nat /\ m < Committed /\ Live(m)
         /\ cpc[c] # "unlink" => \E n \in Within(m) : n \in Open(c) /\ ~Consumed(n)
<1> HIDE DEF Numbers
<1>1. cpc[c] \in ClaimedPcs
  BY DEF ClaimedPcs
<1>2. /\ At(c) \in Nat /\ First(c) \in Nat /\ Until(c) \in Nat
      /\ First(c) <= At(c) /\ At(c) < Until(c) /\ Until(c) <= Emptied
      /\ Here(c) \in Nat /\ LastBlock(c) \in Nat /\ Here(c) <= LastBlock(c)
      /\ LastBlock(c) < Committed
      /\ At(c) \in Within(Here(c)) /\ Until(c) - 1 \in Within(LastBlock(c))
      /\ From(c) \in Nat /\ At(c) <= From(c)
  BY <1>1, ClaimFacts
<1>3. m \in Nat /\ m < Committed /\ BlockSize \in Nat \ {0} /\ Committed \in Nat
  BY <1>2, BlockFacts, CommittedValue
<1>4. CASE cpc[c] = "unlink" /\ m = Here(c)
  BY <1>3, <1>4 DEF Live
<1>5. CASE m = Here(c) /\ cpc[c] \notin {"unlink", "free"}
  <2>1. At(c) \in Open(c)
    BY <1>1, <1>2, <1>5 DEF Open, From
  <2>2. ~Consumed(At(c)) /\ At(c) \in Within(m)
    BY <1>2, <1>5, <2>1 DEF Consumed
  <2> QED
    BY <1>3, <2>1, <2>2 DEF Live
<1>6. CASE m > Here(c)
  <2>1. PICK x \in Nat, y \in Nat, z \in Nat, w \in Nat :
          /\ x = m * BlockSize /\ y = (Here(c) + 1) * BlockSize
          /\ z = LastBlock(c) * BlockSize /\ w = Here(c) * BlockSize
    <3>1. Here(c) + 1 \in Nat
      BY <1>2
    <3> QED
      BY <1>2, <1>3, <3>1, WithinValue
  <2>2. y = w + BlockSize /\ w <= At(c) /\ At(c) < w + BlockSize
    BY <1>2, <2>1, WithinValue
  <2>3. z <= Until(c) - 1
    BY <1>2, <2>1, WithinValue
  <2>4. y <= x
    <3>1. CASE Here(c) + 1 < m
      <4>1. (Here(c) + 1) * BlockSize + BlockSize <= m * BlockSize
        BY <1>2, <1>3, <3>1, Multiples
      <4> QED
        BY <1>3, <2>1, <4>1
    <3>2. CASE Here(c) + 1 = m
      BY <2>1, <3>2
    <3> QED
      BY <1>2, <1>3, <1>6, <3>1, <3>2
  <2>5. x <= z
    <3>1. CASE m < LastBlock(c)
      <4>1. m * BlockSize + BlockSize <= LastBlock(c) * BlockSize
        BY <1>2, <1>3, <3>1, Multiples
      <4> QED
        BY <1>3, <2>1, <4>1
    <3>2. CASE m = LastBlock(c)
      BY <2>1, <3>2
    <3> QED
      BY <1>2, <1>3, <3>1, <3>2
  <2>6. From(c) = y \/ From(c) = At(c)
    BY <2>1 DEF From
  <2>7. x \in From(c) .. Until(c) - 1
    BY <1>2, <1>3, <2>2, <2>3, <2>4, <2>5, <2>6
  <2>8. x \in Open(c) /\ x \in Within(m)
    BY <1>1, <1>3, <2>1, <2>7, WithinValue DEF Open
  <2>9. ~Consumed(x)
    BY <2>8 DEF Consumed
  <2> QED
    BY <1>3, <2>8, <2>9 DEF Live
<1> QED
  BY <1>2, <1>4, <1>5, <1>6

\* Nothing of a block that is not committed has been consumed.
LEMMA LivePrepared ==
  ASSUME WindowsFit, ShareIInv, NEW m \in Nat, Committed <= m
  PROVE  Live(m) /\ ConsumedIn(m) = {}
<1> HIDE DEF Numbers
<1>1. /\ BlockSize \in Nat \ {0} /\ Filled \in Nat /\ Emptied \in Nat /\ Emptied <= Filled
      /\ Committed \in Nat /\ Filled <= Committed * BlockSize /\ Committed * BlockSize \in Nat
  BY Basics, CommittedValue
<1>2. m * BlockSize \in Nat /\ Committed * BlockSize <= m * BlockSize
  <2>1. CASE Committed < m
    <3>1. Committed * BlockSize + BlockSize <= m * BlockSize
      BY <1>1, <2>1, Multiples
    <3> QED
      BY <1>1, <3>1, WithinValue
  <2> QED
    BY <1>1, <2>1, WithinValue
<1>3. ASSUME NEW n \in Within(m) PROVE ~Consumed(n)
  <2>1. n \in Nat /\ m * BlockSize <= n
    BY <1>3, WithinValue
  <2> QED
    BY <1>1, <1>2, <2>1 DEF Consumed
<1>4. m * BlockSize \in Within(m)
  BY WithinValue
<1> QED
  BY <1>3, <1>4 DEF Live, ConsumedIn

\* The entries from that of a live block to that of the tail list those blocks.
LEMMA LiveWindow ==
  ASSUME WindowsFit, ShareIInv, EnqOK, RingOK, NEW m \in Nat, m < Listed, Live(m)
  PROVE  /\ headers # << >> /\ Reach < m + Capacity(Last)
         /\ \A q \in m .. Listed - 1 : key[Entry(q)] = BaseOf(q)
         /\ \A q \in Int, p \in Int : q \in m .. Reach /\ p \in m .. Reach /\ Entry(q) = Entry(p)
              => q = p
<1> HIDE DEF Numbers
<1>1. Listed \in Nat /\ m \in 0 .. Listed - 1 /\ Reach \in Int
  BY ListedFacts, TopFacts
<1>2. /\ Reach < m + Capacity(Last)
      /\ \A q \in m .. Listed - 1 : key[Entry(q)] = BaseOf(q)
  BY <1>1 DEF RingOK, RingLive
<1>3. headers # << >>
  BY <1>1 DEF EnqOK
<1>4. Capacity(Last) \in Nat
  BY <1>3, EntryFacts
<1>5. ASSUME NEW q \in Int, NEW p \in Int, q \in m .. Reach, p \in m .. Reach,
             Entry(q) = Entry(p)
      PROVE  q = p
  <2>1. q - p < Capacity(Last) /\ p - q < Capacity(Last)
    BY <1>1, <1>2, <1>4, <1>5
  <2> QED
    BY <1>3, <1>5, <2>1, EntryDistinct
<1> QED
  BY <1>2, <1>3, <1>5

------------------------------------------------------------------------------
(* Steps of the producer leave the claims alone.                           *)

ClaimsStill == UNCHANGED <<headIndex, cpc, call>>

LEMMA SameClaims ==
  ASSUME ClaimsStill
  PROVE  /\ Emptied' = Emptied
         /\ \A c \in Consumers : /\ At(c)' = At(c) /\ First(c)' = First(c) /\ Until(c)' = Until(c)
                                 /\ Here(c)' = Here(c) /\ LastBlock(c)' = LastBlock(c)
                                 /\ Open(c)' = Open(c) /\ Taken(c)' = Taken(c)
         /\ \A n : Consumed(n)' <=> Consumed(n)
         /\ \A m : ConsumedIn(m)' = ConsumedIn(m) /\ (Live(m)' <=> Live(m))
         /\ Freeing' = Freeing
<1>1. headIndex' = headIndex /\ cpc' = cpc /\ call' = call
  BY DEF ClaimsStill
<1>2. Emptied' = Emptied
  BY <1>1 DEF Emptied
<1>3. ASSUME NEW c \in Consumers
      PROVE  /\ At(c)' = At(c) /\ First(c)' = First(c) /\ Until(c)' = Until(c)
             /\ Here(c)' = Here(c) /\ LastBlock(c)' = LastBlock(c)
             /\ Open(c)' = Open(c) /\ Taken(c)' = Taken(c)
  BY <1>1 DEF At, First, Until, Here, LastBlock, From, Open, Taken
<1>4. ASSUME NEW n PROVE Consumed(n)' <=> Consumed(n)
  BY <1>2, <1>3 DEF Consumed
<1>5. ASSUME NEW m PROVE ConsumedIn(m)' = ConsumedIn(m) /\ (Live(m)' <=> Live(m))
  BY <1>1, <1>3, <1>4 DEF ConsumedIn, Live
<1>6. Freeing' = Freeing
  BY <1>1 DEF Freeing
<1> QED
  BY <1>2, <1>3, <1>4, <1>5, <1>6

LEMMA ClaimsStillStep ==
  ASSUME ClaimsOK, ClaimsStill, ppc' = "destroyed" => \A c \in Consumers : cpc[c] = "idle"
  PROVE  ClaimsOK'
<1>1. cpc' = cpc /\ call' = call
  BY DEF ClaimsStill
<1>2. ASSUME NEW c \in Consumers PROVE ClaimOK(c)'
  BY <1>1, SameClaims DEF ClaimsOK, ClaimOK
<1> QED
  BY <1>1, <1>2, SameClaims DEF ClaimsOK

------------------------------------------------------------------------------
(* Where the producer prepares its blocks.                                 *)

LEMMA BaseNext ==
  ASSUME NEW m \in Int, NEW k \in Int
  PROVE  (BaseOf(m) + k * BlockSize) % Numbers = BaseOf(m + k)
<1> HIDE DEF Numbers
<1>1. BlockSize \in Nat \ {0, 1} /\ Numbers \in Nat \ {0} /\ StartIndex \in Nat
  BY BlockFacts, HalfRange DEF Index
<1>2. PICK x \in Int, y \in Int : x = m * BlockSize /\ y = k * BlockSize
  BY <1>1
<1>3. (m + k) * BlockSize = x + y
  BY <1>1, <1>2, Distribute
<1>4. (((StartIndex + x) % Numbers) + y) % Numbers = (StartIndex + x + y) % Numbers
  <2>1. StartIndex + x \in Int
    BY <1>1, <1>2
  <2> QED
    BY <1>1, <1>2, <2>1, RingShift
<1>5. StartIndex + x + y = StartIndex + (x + y)
  BY <1>1, <1>2
<1> QED
  BY <1>2, <1>3, <1>4, <1>5 DEF BaseOf, Plus

\* The last element of a batch lies in block d.
LEMMA BatchEnd ==
  ASSUME WindowsFit, ShareIInv, NEW n \in Nat \ {0}, Filled + n <= MaxEnqueued
  PROVE  \E d \in Nat : /\ d * BlockSize < Filled + n /\ Filled + n <= d * BlockSize + BlockSize
                        /\ Base(Plus(tailIndex, n - 1)) = BaseOf(d)
                        /\ d * BlockSize \in Index /\ (d + 1) * BlockSize \in Index
<1> HIDE DEF Numbers
<1>1. /\ Filled \in Nat /\ MaxEnqueued \in Nat /\ MaxEnqueued + BlockSize <= Numbers
      /\ BlockSize \in Nat \ {0, 1} /\ tailIndex \in Index /\ Numbers \in Nat \ {0}
  BY Basics
<1>2. tailIndex = Element(Filled) /\ Filled \in Index
  BY <1>1, NumberValue DEF Filled, Number
<1>3. Plus(tailIndex, n - 1) = Element(Filled + n - 1)
  <2>1. StartIndex + Filled \in Int /\ n - 1 \in Int
    BY <1>1, HalfRange DEF Index
  <2>2. (((StartIndex + Filled) % Numbers) + (n - 1)) % Numbers = ((StartIndex + Filled) + (n - 1)) % Numbers
    BY <1>1, <2>1, RingShift
  <2>3. (StartIndex + Filled) + (n - 1) = StartIndex + (Filled + n - 1)
    BY <1>1, HalfRange DEF Index
  <2> QED
    BY <1>2, <2>2, <2>3 DEF Element, Plus
<1>4. PICK d \in Int, r \in 0 .. BlockSize - 1, p \in Int :
        /\ d = (Filled + n - 1) \div BlockSize /\ r = (Filled + n - 1) % BlockSize
        /\ p = d * BlockSize /\ Filled + n - 1 = p + r
  <2>1. Filled + n - 1 \in Int
    BY <1>1
  <2> QED
    BY <1>1, <2>1, Division
<1>5. /\ p \in Int /\ r \in Int /\ 0 <= r /\ r < BlockSize /\ Filled + n - 1 = p + r
      /\ p = d * BlockSize
  BY <1>1, <1>4
<1>6. d \in Nat
  <2>1. ASSUME d < 0 PROVE FALSE
    <3>1. d * BlockSize + BlockSize <= 0 * BlockSize
      BY <1>1, <1>4, <2>1, Multiples
    <3>2. 0 * BlockSize = 0
      BY <1>1
    <3> QED
      BY <1>1, <1>5, <3>1, <3>2
  <2> QED
    BY <1>4, <2>1
<1>7. p \in Nat /\ (d + 1) * BlockSize = p + BlockSize
  BY <1>5, <1>6, WithinValue
<1>8. p \in Index /\ p + BlockSize \in Index /\ Filled + n - 1 \in Index
  BY <1>1, <1>5, <1>7 DEF Index
<1>9. Filled + n - 1 \in Within(d)
  BY <1>1, <1>5 DEF Within
<1>10. Base(Plus(tailIndex, n - 1)) = BaseOf(d)
  BY <1>3, <1>6, <1>8, <1>9, ElementBase
<1>11. p < Filled + n /\ Filled + n <= p + BlockSize
  BY <1>1, <1>5
<1> QED
  BY <1>5, <1>6, <1>7, <1>8, <1>10, <1>11

\* The block before the first that the call prepares.
LEMMA TailBase ==
  ASSUME WindowsFit, ShareIInv
  PROVE  /\ Base(Minus(tailIndex, 1)) \in Int
         /\ Plus(Base(Minus(tailIndex, 1)), BlockSize) = BaseOf(Committed)
         /\ Filled > 0 => Committed > 0 /\ Base(Minus(tailIndex, 1)) = BaseOf(Committed - 1)
         /\ Filled = 0 => Committed = 0
<1> HIDE DEF Numbers
<1>1. /\ Filled \in Nat /\ MaxEnqueued \in Nat /\ MaxEnqueued + BlockSize <= Numbers
      /\ BlockSize \in Nat \ {0, 1} /\ tailIndex \in Index /\ Numbers \in Nat \ {0}
      /\ Filled <= MaxEnqueued /\ StartIndex \in Index /\ StartIndex \in Nat
      /\ StartIndex < Numbers
  BY Basics, HalfRange DEF Index
<1>2. /\ Committed \in Nat /\ Committed * BlockSize \in Nat
      /\ Filled <= Committed * BlockSize /\ Committed * BlockSize < Filled + BlockSize
  BY CommittedValue
<1>3. tailIndex = Element(Filled) /\ Filled \in Index
  BY <1>1, NumberValue DEF Filled, Number
<1>4. Minus(tailIndex, 1) = Element(Filled - 1)
  <2>1. StartIndex + Filled \in Int
    BY <1>1, HalfRange DEF Index
  <2>2. (((StartIndex + Filled) % Numbers) + (-1)) % Numbers = ((StartIndex + Filled) + (-1)) % Numbers
    <3>1. -1 \in Int
      OBVIOUS
    <3> QED
      BY <1>1, <2>1, <3>1, RingShift
  <2>3. (StartIndex + Filled) + (-1) = StartIndex + (Filled - 1)
    BY <1>1
  <2>4. tailIndex = (StartIndex + Filled) % Numbers
    BY <1>3 DEF Element, Plus
  <2>5. tailIndex - 1 = tailIndex + (-1)
    BY <1>1 DEF Index
  <2> QED
    BY <2>2, <2>3, <2>4, <2>5 DEF Element, Plus, Minus
<1>5. CASE Filled > 0
  <2>1. Committed > 0
    <3>1. ASSUME Committed = 0 PROVE FALSE
      BY <1>1, <1>2, <1>5, <3>1
    <3> QED
      BY <1>2, <3>1
  <2>2. PICK m \in Nat : m = Committed - 1
    BY <1>2, <2>1
  <2>3. Committed * BlockSize = m * BlockSize + BlockSize /\ m * BlockSize \in Nat
    <3>1. Committed = m + 1
      BY <1>2, <2>2
    <3> QED
      BY <3>1, WithinValue
  <2>4. PICK x \in Nat : x = m * BlockSize
    BY <2>3
  <2>5. Filled - 1 \in Within(m)
    <3>1. x <= Filled - 1 /\ Filled - 1 <= x + BlockSize - 1
      BY <1>1, <1>2, <2>3, <2>4
    <3> QED
      BY <1>1, <2>4, <3>1 DEF Within
  <2>6. Filled - 1 \in Index
    BY <1>1, <1>3, <1>5 DEF Index
  <2>7. Base(Minus(tailIndex, 1)) = BaseOf(m)
    BY <1>4, <2>5, <2>6, ElementBase
  <2>8. (BaseOf(m) + 1 * BlockSize) % Numbers = BaseOf(m + 1)
    BY BaseNext
  <2>9. 1 * BlockSize = BlockSize /\ m + 1 = Committed
    BY <1>1, <1>2, <2>2
  <2>10. x \in Index /\ BaseOf(m) \in Index
    <3>1. x \in Index
      BY <1>1, <1>2, <2>3, <2>4 DEF Index
    <3> QED
      BY <2>4, <3>1, BaseOfValue
  <2> QED
    BY <1>5, <2>1, <2>2, <2>7, <2>8, <2>9, <2>10 DEF Plus, Index
<1>6. CASE Filled = 0
  <2>1. Committed = 0
    <3>1. ASSUME Committed > 0 PROVE FALSE
      <4>1. 0 * BlockSize + BlockSize <= Committed * BlockSize
        BY <1>1, <1>2, <3>1, Multiples
      <4>2. 0 * BlockSize = 0
        BY <1>1
      <4> QED
        BY <1>1, <1>2, <1>6, <4>1, <4>2
    <3> QED
      BY <1>2, <3>1
  <2>2. PICK i \in Int : i = (StartIndex - 1) % Numbers /\ i \in 0 .. Numbers - 1
    BY <1>1
  <2>3. Minus(tailIndex, 1) = i
    <3>1. StartIndex + (Filled - 1) = StartIndex - 1
      BY <1>1, <1>6
    <3> QED
      BY <1>4, <2>2, <3>1 DEF Element, Plus
  <2>4. i = IF StartIndex = 0 THEN Numbers - 1 ELSE StartIndex - 1
    <3>1. CASE StartIndex = 0
      <4>1. (-1 + Numbers) % Numbers = (-1) % Numbers /\ (-1 + Numbers) % Numbers = -1 + Numbers
        <5>1. -1 + Numbers \in 0 .. Numbers - 1 /\ -1 \in Int /\ -1 + Numbers \in Int
          BY <1>1
        <5> QED
          BY <1>1, <5>1, RingWrap
      <4>2. StartIndex - 1 = -1
        BY <3>1
      <4> QED
        BY <1>1, <2>2, <3>1, <4>1, <4>2
    <3>2. CASE StartIndex # 0
      <4>1. StartIndex - 1 \in 0 .. Numbers - 1 /\ StartIndex - 1 \in Int
        BY <1>1, <3>2
      <4>2. (StartIndex - 1) % Numbers = StartIndex - 1
        BY <1>1, <4>1, RingWrap
      <4> QED
        BY <2>2, <3>2, <4>2
    <3> QED
      BY <3>1, <3>2
  <2>5. i % BlockSize = BlockSize - 1
    <3>1. \A a \in Nat : a % BlockSize = 0 => (a - 1) % BlockSize = BlockSize - 1
      <4> TAKE a \in Nat
      <4> HAVE a % BlockSize = 0
      <4>1. ((a % BlockSize) + (-1)) % BlockSize = (a + (-1)) % BlockSize
        <5>1. a \in Int /\ -1 \in Int
          OBVIOUS
        <5> QED
          BY <1>1, <5>1, RingShift
      <4>2. (-1 + BlockSize) % BlockSize = (-1) % BlockSize /\ (-1 + BlockSize) % BlockSize = -1 + BlockSize
        <5>1. -1 + BlockSize \in 0 .. BlockSize - 1 /\ -1 \in Int /\ -1 + BlockSize \in Int
          BY <1>1
        <5>2. (-1 + BlockSize) % BlockSize = (-1) % BlockSize
          BY <1>1, <5>1, RingWrap
        <5>3. (-1 + BlockSize) % BlockSize = -1 + BlockSize
          BY <1>1, <5>1, RingWrap
        <5> QED
          BY <5>2, <5>3
      <4>3. a + (-1) = a - 1 /\ 0 + (-1) = -1 /\ -1 + BlockSize = BlockSize - 1
        BY <1>1
      <4> QED
        BY <4>1, <4>2, <4>3
    <3>2. Numbers % BlockSize = 0 /\ StartIndex % BlockSize = 0
      BY BlockFacts
    <3> QED
      BY <1>1, <2>4, <3>1, <3>2
  <2>6. Base(i) = i - (BlockSize - 1)
    BY <2>5 DEF Base
  <2>7. Base(i) + BlockSize = i + 1 /\ Base(i) \in Int
    BY <1>1, <2>2, <2>6
  <2>8. (i + 1) % Numbers = StartIndex
    <3>1. CASE StartIndex = 0
      <4>1. (0 + Numbers) % Numbers = 0 % Numbers /\ 0 % Numbers = 0
        <5>1. 0 \in 0 .. Numbers - 1
          BY <1>1
        <5>2. (0 + Numbers) % Numbers = 0 % Numbers
          BY <1>1, RingWrap
        <5>3. 0 % Numbers = 0
          BY <1>1, <5>1, RingWrap
        <5> QED
          BY <5>2, <5>3
      <4>2. i + 1 = 0 + Numbers
        BY <1>1, <2>4, <3>1
      <4> QED
        BY <3>1, <4>1, <4>2
    <3>2. CASE StartIndex # 0
      <4>1. i + 1 = StartIndex /\ StartIndex \in 0 .. Numbers - 1
        BY <1>1, <2>4, <3>2
      <4>2. StartIndex \in Int
        BY <1>1
      <4>3. StartIndex % Numbers = StartIndex
        BY <1>1, <4>1, <4>2, RingWrap
      <4> QED
        BY <4>1, <4>3
    <3> QED
      BY <3>1, <3>2
  <2>9. BaseOf(0) = StartIndex
    <3>1. 0 * BlockSize = 0 /\ StartIndex + 0 = StartIndex
      BY <1>1
    <3>2. StartIndex \in 0 .. Numbers - 1 /\ StartIndex \in Int
      BY <1>1
    <3>3. StartIndex % Numbers = StartIndex
      BY <1>1, <3>2, RingWrap
    <3> QED
      BY <3>1, <3>3 DEF BaseOf, Plus
  <2> QED
    BY <1>6, <2>1, <2>3, <2>7, <2>8, <2>9 DEF Plus
<1> QED
  BY <1>1, <1>5, <1>6

\* The numbers of blocks that a call has to do with do not wrap around.
LEMMA BlockInRange ==
  ASSUME WindowsFit, ShareIInv, EnqOK, NEW m \in Nat, m <= Listed
  PROVE  m * BlockSize \in Index /\ BaseOf(m) \in Index /\ BaseOf(m) # InvalidBlockBase
         /\ BlockNo(BaseOf(m)) = m
<1> HIDE DEF Numbers
<1>1. /\ Listed \in Nat /\ Listed * BlockSize \in Nat /\ Listed * BlockSize \in Index
      /\ BlockSize \in Nat \ {0} /\ Numbers \in Nat
  BY ListedFacts, BlockFacts
<1>2. PICK x \in Nat, y \in Nat : x = m * BlockSize /\ y = Listed * BlockSize
  BY <1>1, WithinValue
<1>3. x <= y
  <2>1. CASE m < Listed
    <3>1. m * BlockSize + BlockSize <= Listed * BlockSize
      BY <1>1, <2>1, Multiples
    <3> QED
      BY <1>1, <1>2, <3>1
  <2> QED
    BY <1>1, <1>2, <2>1
<1>4. x \in Index
  BY <1>1, <1>2, <1>3 DEF Index
<1> QED
  BY <1>2, <1>4, BaseOfValue DEF InvalidBlockBase

\* A consumer that looks for the block of its index.
LEMMA LookupFacts ==
  ASSUME WindowsFit, ShareIInv, ClaimsOK, EnqOK, RingOK, NEW c \in Consumers,
         cpc[c] \in LookupPcs \ {"free"}
  PROVE  /\ ClaimOK(c) /\ cpc[c] \in ClaimedPcs
         /\ Here(c) \in Nat /\ LastBlock(c) \in Nat /\ Here(c) <= LastBlock(c)
         /\ LastBlock(c) < Committed /\ Committed <= Listed /\ Listed \in Nat
         /\ Live(Here(c)) /\ headers # << >> /\ Reach < Here(c) + Capacity(Last)
         /\ Capacity(Last) \in Nat \ {0}
<1> HIDE DEF Numbers
<1>1. ClaimOK(c) /\ cpc[c] \in ClaimedPcs /\ cpc[c] \in LookupPcs
  BY DEF ClaimsOK, ClaimedPcs
<1>2. /\ Here(c) \in Nat /\ LastBlock(c) \in Nat /\ Here(c) <= LastBlock(c)
      /\ LastBlock(c) < Committed
  BY <1>1, ClaimFacts
<1>3. Committed \in Nat /\ Committed <= Listed /\ Listed \in Nat
  BY ListedFacts
<1>4. Live(Here(c)) /\ Here(c) < Listed
  <2>1. Here(c) \in Here(c) .. LastBlock(c) /\ cpc[c] # "free"
    BY <1>2
  <2>2. Live(Here(c))
    BY <1>1, <2>1, LiveHere
  <2> QED
    BY <1>2, <1>3, <2>2
<1>5. headers # << >> /\ Reach < Here(c) + Capacity(Last)
  BY <1>2, <1>4, LiveWindow
<1> QED
  BY <1>1, <1>2, <1>3, <1>4, <1>5, EntryFacts

\* The entries that it may use are not that of another block, nor that of the block
\* the producer is about to list.
LEMMA LookupWindow ==
  ASSUME WindowsFit, ShareIInv, ClaimsOK, EnqOK, RingOK, NEW c \in Consumers,
         cpc[c] \in {"slotTail", "slotKey"}, NEW T \in Nat, Keyed(c, T)
  PROVE  \A m, q \in Int : m \in Here(c) .. T /\ q \in (Here(c) .. T) \cup (Here(c) .. Reach)
                           /\ Entry(m) = Entry(q) => m = q
<1> HIDE DEF Numbers
<1>1. /\ Here(c) \in Nat /\ headers # << >> /\ Reach < Here(c) + Capacity(Last)
      /\ Capacity(Last) \in Nat /\ Reach \in Int /\ T < Here(c) + Capacity(Last)
  <2>1. cpc[c] \in LookupPcs \ {"free"}
    BY DEF LookupPcs
  <2> QED
    BY <2>1, LookupFacts, TopFacts DEF Keyed
<1>2. ASSUME NEW m \in Int, NEW q \in Int, m \in Here(c) .. T,
             q \in (Here(c) .. T) \cup (Here(c) .. Reach), Entry(m) = Entry(q)
      PROVE  m = q
  <2>1. m - q < Capacity(Last) /\ q - m < Capacity(Last)
    BY <1>1, <1>2
  <2> QED
    BY <1>1, <1>2, <2>1, EntryDistinct
<1> QED
  BY <1>2

------------------------------------------------------------------------------
(* What a step of the producer has to keep.                                *)

\* No entry moves.
SameIndex ==
  /\ Len(headers') = Len(headers)
  /\ \A h \in 1 .. Len(headers) :
       /\ headers'[h].index = headers[h].index
       /\ h # Len(headers) => headers'[h] = headers[h]
  /\ headers # << >> => \A m \in Int : Entry(m)' = Entry(m)

LEMMA LookupsStill ==
  ASSUME WindowsFit, ShareIInv, ClaimsOK, EnqOK, RingOK, LookupsOK, ClaimsStill, SameIndex,
         \A c \in Consumers : \A T \in BlockNos :
           cpc[c] \in {"slotTail", "slotKey"} /\ Keyed(c, T) => Keyed(c, T)',
         \A c \in Consumers : cpc[c] \in {"empty", "unlink"} =>
           value'[Entry(Here(c))] = value[Entry(Here(c))]
  PROVE  LookupsOK'
<1> HIDE DEF Numbers
<1> SUFFICES ASSUME NEW c \in Consumers, cpc'[c] \in LookupPcs
             PROVE  LookupOK(c)'
  BY DEF LookupsOK
<1>1. cpc' = cpc /\ call' = call
  BY DEF ClaimsStill
<1>2. LookupOK(c) /\ cpc[c] \in LookupPcs /\ ClaimOK(c) /\ cpc[c] \in ClaimedPcs
  BY <1>1 DEF LookupsOK, ClaimsOK, ClaimedPcs
<1>3. /\ Here(c)' = Here(c) /\ LastBlock(c)' = LastBlock(c)
      /\ Here(c) \in Nat /\ LastBlock(c) \in Nat
  BY <1>2, SameClaims, ClaimFacts
<1>4. call[c].header \in 1 .. Len(headers)
  BY <1>2 DEF LookupOK
<1>5. headers # << >>
  BY <1>4
<1>6. /\ headers'[call[c].header].index = headers[call[c].header].index
      /\ Capacity(headers'[call[c].header]) = Capacity(headers[call[c].header])
      /\ call[c].header # Len(headers) => headers'[call[c].header] = headers[call[c].header]
  BY <1>4 DEF SameIndex, Capacity
<1>7. \A m \in Int : Entry(m)' = Entry(m)
  BY <1>5 DEF SameIndex
<1>8. ASSUME NEW t, NEW T \in BlockNos, Seen(c, t, T), cpc[c] \in {"slotTail", "slotKey"}
      PROVE  Seen(c, t, T)'
  <2>1. T \in Nat
    BY DEF BlockNos
  <2>2. Leads(c, t, T)'
    BY <1>1, <1>3, <1>6, <1>7, <1>8, <2>1 DEF Leads, Seen
  <2>3. Keyed(c, T)'
    BY <1>2, <1>8 DEF Seen
  <2> QED
    BY <2>2, <2>3 DEF Seen
<1>9. \A m \in Here(c) .. LastBlock(c) : Entry(m)' = Entry(m)
  BY <1>3, <1>7
<1>10. Entry(Here(c))' = Entry(Here(c))
  BY <1>3, <1>7
<1>11. (Len(headers))' = Len(headers)
  BY DEF SameIndex
<1>12. ASSUME cpc[c] = "slotTail", call[c].header # Len(headers)
       PROVE  \E T \in BlockNos : Seen(c, headers[call[c].header].tail, T)'
  <2>1. PICK t : t = headers[call[c].header].tail
    OBVIOUS
  <2>2. t = headers'[call'[c].header].tail
    BY <1>1, <1>6, <1>12, <2>1
  <2>3. PICK T \in BlockNos : Seen(c, t, T)
    BY <1>2, <1>12, <2>1 DEF LookupOK
  <2>4. Seen(c, t, T)'
    BY <1>8, <1>12, <2>3
  <2> QED
    BY <2>2, <2>4
<1>13. ASSUME cpc[c] = "slotKey"
       PROVE  \E T \in BlockNos : Seen(c, call[c].slot, T)'
  <2>1. PICK t : t = call[c].slot
    OBVIOUS
  <2>2. t = call'[c].slot
    BY <1>1, <2>1
  <2>3. PICK T \in BlockNos : Seen(c, t, T)
    BY <1>2, <1>13, <2>1 DEF LookupOK
  <2>4. Seen(c, t, T)'
    BY <1>8, <1>13, <2>3
  <2> QED
    BY <2>2, <2>4
<1>17. cpc'[c] \in {"entry", "empty", "unlink", "free"} =>
         \A m \in Here(c)' .. LastBlock(c)' :
           (m = Here(c)' /\ cpc'[c] = "free") \/
           headers'[call'[c].header].index[(call'[c].slot + (m - Here(c)'))
              % Capacity(headers'[call'[c].header])] = Entry(m)'
  BY <1>1, <1>2, <1>3, <1>6, <1>9 DEF LookupOK
<1>18. cpc'[c] \in {"empty", "unlink"} => call'[c].block = value'[Entry(Here(c))']
  BY <1>1, <1>2, <1>10 DEF LookupOK
<1>19. cpc'[c] # "slotTail" => call'[c].slot \in DOMAIN headers'[call'[c].header].index
  BY <1>1, <1>2, <1>6 DEF LookupOK
<1>20. call'[c].header \in 1 .. Len(headers')
  BY <1>1, <1>4, <1>11
<1> QED
  BY <1>1, <1>3, <1>11, <1>12, <1>13, <1>17, <1>18, <1>19, <1>20 DEF LookupOK

LEMMA LastStill ==
  ASSUME RingTyped, SameIndex, headers # << >>
  PROVE  Last.index' = Last.index /\ Capacity(Last)' = Capacity(Last)
<1>1. Len(headers) \in Nat \ {0}
  BY DEF RingTyped
<1>2. headers'[Len(headers')].index = headers[Len(headers)].index
  BY <1>1 DEF SameIndex
<1> QED
  BY <1>2 DEF Last, Capacity

LEMMA RingTypedStill ==
  ASSUME RingTyped, SameIndex, headers' \in Seq(Headers),
         DOMAIN key' = Entries, DOMAIN value' = Entries,
         \A e \in Entries : key'[e] = InvalidBlockBase =>
           key[e] = InvalidBlockBase /\ value'[e] \in {value[e], NoBlock},
         headers # << >> => \A e \in Entries \ DOMAIN Last.index : key'[e] = key[e]
  PROVE  RingTyped'
<1>1. (headers # << >>)' => headers # << >>
  BY DEF SameIndex, RingTyped
<1>2. \A h \in 1 .. Len(headers') : \A i, j \in DOMAIN headers'[h].index :
        headers'[h].index[i] = headers'[h].index[j] => i = j
  BY DEF SameIndex, RingTyped
<1>3. \A e \in Entries : key'[e] = InvalidBlockBase => value'[e] = NoBlock
  BY DEF RingTyped
<1>4. headers' # << >> => \A e \in Entries \ DOMAIN (Last.index)' : key'[e] = InvalidBlockBase
  BY <1>1, LastStill DEF RingTyped
<1> QED
  BY <1>2, <1>3, <1>4 DEF RingTyped

LEMMA RingLiveStill ==
  ASSUME RingTyped, ClaimsStill, SameIndex, Listed' \in Nat, Listed' > 0 => headers # << >>,
         \A m \in Nat : m < Listed' /\ Live(m) =>
           /\ Reach' < m + Capacity(Last)
           /\ \A q \in m .. Listed' - 1 : key'[Entry(q)] = BaseOf(q)
  PROVE  RingLive'
<1>1. ASSUME NEW m \in Nat, m < Listed', Live(m)'
      PROVE  /\ Reach' < m + Capacity(Last)'
             /\ \A q \in m .. Listed' - 1 : key'[Entry(q)'] = BaseOf(q)
  <2>1. Live(m)
    BY <1>1, SameClaims
  <2>2. headers # << >>
    BY <1>1
  <2>3. Capacity(Last)' = Capacity(Last)
    BY <2>2, LastStill
  <2>4. ASSUME NEW q \in m .. Listed' - 1 PROVE key'[Entry(q)'] = BaseOf(q)
    <3>1. Entry(q)' = Entry(q)
      BY <2>2 DEF SameIndex
    <3> QED
      BY <1>1, <2>1, <3>1
  <2> QED
    BY <1>1, <2>1, <2>3, <2>4
<1>2. \A m \in 0 .. Listed' - 1 : m \in Nat /\ m < Listed'
  <2>1. PICK n \in Nat : n = Listed'
    OBVIOUS
  <2>2. \A m \in 0 .. n - 1 : m \in Nat /\ m < n
    OBVIOUS
  <2> QED
    BY <2>1, <2>2
<1> QED
  BY <1>1, <1>2 DEF RingLive, BaseOf

LEMMA OwnersStill ==
  ASSUME WindowsFit, ShareIInv, EnqOK, OwnersOK, ClaimsStill, Limit' = Limit,
         UNCHANGED <<freeBlocks, dequeued>>, enq'.fresh = enq.fresh,
         \A m \in LiveNos : value'[Entry(m)'] = value[Entry(m)],
         \/ enq'.chain = enq.chain /\ Committed' = Committed /\ (Undoing' <=> Undoing)
         \/ enq'.chain = << >> /\ ~Undoing'
  PROVE  OwnersOK'
<1> HIDE DEF Numbers
<1>1. LiveNos' = LiveNos
  BY SameClaims DEF LiveNos
<1>2. ASSUME NEW m PROVE ConsumedIn(m)' = ConsumedIn(m)
  BY SameClaims
<1>3. Freeing' = Freeing /\ call' = call
  BY SameClaims DEF ClaimsStill
<1>4. freeBlocks' = freeBlocks /\ dequeued' = dequeued /\ enq'.fresh = enq.fresh
  OBVIOUS
<1>5. /\ \A m \in LiveNos' : value'[Entry(m)'] \in Blocks \ freeBlocks'
      /\ \A m, q \in LiveNos' : value'[Entry(m)'] = value'[Entry(q)'] => m = q
      /\ \A m \in LiveNos' : value'[Entry(m)'] # enq'.fresh
  BY <1>1, <1>4 DEF OwnersOK
<1>6. \A m \in LiveNos' : dequeued'[value'[Entry(m)']] = Cardinality(ConsumedIn(m)')
  BY <1>1, <1>2, <1>4 DEF OwnersOK
<1>7. \A c \in Freeing' : \A m \in LiveNos' : value'[Entry(m)'] # call'[c].block
  BY <1>1, <1>3 DEF OwnersOK
<1>8. CASE enq'.chain = enq.chain /\ Committed' = Committed /\ (Undoing' <=> Undoing)
  <2>1. Chained' = Chained
    BY <1>8 DEF Chained
  <2>2. ASSUME ~Undoing, NEW i \in 1 .. Len(enq.chain)
        PROVE  value'[Entry(Committed + i - 1)'] = enq.chain[i]
    <3>1. /\ Committed \in Nat /\ Len(enq.chain) \in Nat
          /\ Listed = Committed + Len(enq.chain) /\ Listed \in Nat
      BY ListedFacts
    <3>2. PICK m \in Nat : m = Committed + i - 1
      BY <3>1
    <3>3. Committed <= m /\ m \in 0 .. Listed - 1
      BY <3>1, <3>2
    <3>4. m \in LiveNos
      BY <2>2, <3>3, LivePrepared DEF LiveNos, Limit
    <3>5. value[Entry(m)] = enq.chain[i]
      BY <2>2, <3>2 DEF OwnersOK
    <3>6. value'[Entry(m)'] = enq.chain[i]
      BY <3>4, <3>5
    <3>7. m = (Committed + i - 1)'
      BY <1>8, <3>2
    <3>8. Entry(m)' = Entry(Committed + i - 1)'
      BY <3>7
    <3> QED
      BY <3>6, <3>8
  <2>3. ~Undoing' => \A i \in 1 .. Len(enq'.chain) : value'[Entry(Committed + i - 1)'] = enq'.chain[i]
    BY <1>8, <2>2
  <2>4. Undoing' => \A m \in LiveNos' : value'[Entry(m)'] \notin Chained'
    BY <1>1, <1>8, <2>1 DEF OwnersOK
  <2>5. /\ Chained' \cap freeBlocks' = {} /\ enq'.fresh \notin freeBlocks' /\ enq'.fresh \notin Chained'
        /\ \A c \in Freeing' : /\ call'[c].block \in Blocks \ freeBlocks'
                               /\ call'[c].block \notin Chained' /\ call'[c].block # enq'.fresh
    BY <1>3, <1>4, <2>1 DEF OwnersOK
  <2>6. \A c, d \in Freeing' : call'[d].block = call'[c].block => c = d
    BY <1>3 DEF OwnersOK
  <2>7. freeBlocks' \subseteq Blocks /\ DOMAIN dequeued' = Blocks
    BY <1>4 DEF OwnersOK
  <2> QED
    BY <1>5, <1>6, <1>7, <2>3, <2>4, <2>5, <2>6, <2>7 DEF OwnersOK
<1>9. CASE enq'.chain = << >> /\ ~Undoing'
  <2>1. Chained' = {} /\ Len(enq'.chain) = 0
    BY <1>9 DEF Chained
  <2>5. /\ Chained' \cap freeBlocks' = {} /\ enq'.fresh \notin freeBlocks' /\ enq'.fresh \notin Chained'
        /\ \A c \in Freeing' : /\ call'[c].block \in Blocks \ freeBlocks'
                               /\ call'[c].block \notin Chained' /\ call'[c].block # enq'.fresh
    BY <1>3, <1>4, <2>1 DEF OwnersOK
  <2>6. \A c, d \in Freeing' : call'[d].block = call'[c].block => c = d
    BY <1>3 DEF OwnersOK
  <2>7. freeBlocks' \subseteq Blocks /\ DOMAIN dequeued' = Blocks
    BY <1>4 DEF OwnersOK
  <2> QED
    BY <1>5, <1>6, <1>7, <1>9, <2>1, <2>5, <2>6, <2>7 DEF OwnersOK
<1> QED
  BY <1>8, <1>9

------------------------------------------------------------------------------
(* The steps of the producer.                                              *)

\* A step that moves no entry.
LEMMA StillStep ==
  ASSUME WindowsFit, ShareIInv, ClaimsOK, StoreOK, ClaimsStill, EnqOK',
         SameIndex, headers' \in Seq(Headers), key' = key,
         DOMAIN value' = DOMAIN value, \A e : value'[e] = value[e],
         UNCHANGED <<freeBlocks, dequeued>>,
         ~Undoing, ~Undoing', Listed' = Listed, Reach' \in {Reach, Reach - 1},
         enq'.fresh = enq.fresh,
         (enq'.chain = enq.chain /\ Committed' = Committed) \/ enq'.chain = << >>,
         ppc' # "grow",
         ppc' \in InsertPcs => /\ ppc \in InsertPcs \ {"key"}
                               /\ enq'.entry = enq.entry /\ enq'.base = enq.base
  PROVE  StoreOK'
<1> HIDE DEF Numbers
<1> USE DEF StoreOK
<1>1. headers # << >> => \A m \in Int : Entry(m)' = Entry(m)
  BY DEF SameIndex
<1>4. Listed \in Nat /\ Listed' \in Nat /\ Committed \in Nat
  BY ListedFacts
<1>5. RingOK'
  <2>1. RingTyped'
    BY RingTypedStill DEF RingOK, RingTyped
  <2>2. ASSUME NEW m \in Nat, m < Listed', Live(m)
        PROVE  /\ Reach' < m + Capacity(Last)
               /\ \A q \in m .. Listed' - 1 : key'[Entry(q)] = BaseOf(q)
    <3>1. m < Listed
      BY <2>2
    <3>2. Reach < m + Capacity(Last) /\ \A q \in m .. Listed - 1 : key[Entry(q)] = BaseOf(q)
      BY <2>2, <3>1, LiveWindow
    <3>3. Reach \in Int /\ Capacity(Last) \in Nat
      <4>1. headers # << >>
        BY <2>2, <3>1, LiveWindow
      <4> QED
        BY <4>1, EntryFacts, TopFacts
    <3>4. Reach - 1 < m + Capacity(Last)
      BY <3>2, <3>3
    <3> QED
      BY <3>2, <3>4
  <2>3. Listed' > 0 => headers # << >>
    <3>1. headers = << >> => Listed = 0
      BY DEF EnqOK
    <3> QED
      BY <3>1
  <2>4. RingLive'
    BY <1>4, <2>2, <2>3, RingLiveStill DEF RingOK
  <2>5. Inserting'
    <3>1. ASSUME headers # << >> PROVE Entry(Listed)' = Entry(Listed)
      <4>1. PICK n \in Int : n = Listed
        BY <1>4
      <4> QED
        BY <1>1, <3>1, <4>1
    <3>2. ppc \in InsertPcs => headers # << >>
      BY DEF EnqOK
    <3> QED
      BY <3>1, <3>2 DEF RingOK, Inserting
  <2>6. Removing'
    BY DEF Removing
  <2> QED
    BY <2>1, <2>4, <2>5, <2>6 DEF RingOK
<1>6. OwnersOK'
  <2>1. Limit' = Limit
    BY DEF Limit
  <2>2. ASSUME NEW m \in LiveNos PROVE value'[Entry(m)'] = value[Entry(m)]
    <3>1. m \in Int /\ m < Listed /\ m >= 0
      BY <1>4 DEF LiveNos, Limit
    <3>2. headers # << >>
      BY <1>4, <3>1 DEF EnqOK
    <3> QED
      BY <1>1, <3>1, <3>2
  <2> QED
    BY <2>1, <2>2, OwnersStill
<1>7. LookupsOK'
  <2>1. ASSUME NEW c \in Consumers, NEW T \in BlockNos, Keyed(c, T),
               cpc[c] \in {"slotTail", "slotKey"}
        PROVE  Keyed(c, T)'
    <3>1. headers # << >> /\ Here(c) \in Nat
      <4>1. cpc[c] \in LookupPcs \ {"free"}
        BY <2>1 DEF LookupPcs
      <4> QED
        BY <4>1, LookupFacts
    <3>2. \A m \in Int : Entry(m)' = Entry(m)
      BY <1>1, <3>1
    <3>3. Capacity(Last)' = Capacity(Last)
      BY <3>1, LastStill DEF RingOK
    <3>4. T \in Nat
      BY DEF BlockNos
    <3> QED
      BY <1>4, <2>1, <3>1, <3>2, <3>3, <3>4, SameClaims DEF Keyed, BaseOf
  <2>2. ASSUME NEW c \in Consumers, cpc[c] \in {"empty", "unlink"}
        PROVE  value'[Entry(Here(c))] = value[Entry(Here(c))]
    OBVIOUS
  <2> QED
    BY <2>1, LookupsStill
<1> QED
  BY <1>5, <1>6, <1>7

LEMMA UnmovedIndex ==
  ASSUME headers' = headers, Top' = Top
  PROVE  SameIndex /\ \A m : Entry(m)' = Entry(m)
<1>1. \A m : Entry(m)' = Entry(m)
  BY DEF Entry, Origin, Last, Capacity
<1> QED
  BY <1>1 DEF SameIndex

\* A step that changes nothing but what the producer does next.
LEMMA ControlStep ==
  ASSUME WindowsFit, ShareIInv, ClaimsOK, StoreOK, ClaimsStill, EnqOK',
         UNCHANGED <<indexVars, freeBlocks, dequeued>>,
         ~Undoing, ~Undoing', Listed' = Listed, Top' = Top, Reach' \in {Reach, Reach - 1},
         enq'.fresh = enq.fresh,
         (enq'.chain = enq.chain /\ Committed' = Committed) \/ enq'.chain = << >>,
         ppc' # "grow",
         ppc' \in InsertPcs => /\ ppc \in InsertPcs \ {"key"}
                               /\ enq'.entry = enq.entry /\ enq'.base = enq.base
  PROVE  StoreOK'
<1>1. headers' = headers /\ key' = key /\ value' = value
  BY DEF indexVars
<1>2. SameIndex
  BY <1>1, UnmovedIndex
<1>3. headers' \in Seq(Headers)
  BY <1>1 DEF StoreOK, RingOK, RingTyped
<1> QED
  BY <1>1, <1>2, <1>3, StillStep

LEMMA SameTail ==
  ASSUME tailIndex' = tailIndex
  PROVE  Filled' = Filled /\ Committed' = Committed
  BY DEF Filled, Committed

\* What a call holds on to.
LEMMA SameCall ==
  ASSUME tailIndex' = tailIndex, enq' = enq
  PROVE  Filled' = Filled /\ Committed' = Committed /\ Listed' = Listed /\ Gone' = Gone
  BY SameTail DEF Listed, Gone, BlockNo, Number

LEMMA WaitStep ==
  ASSUME WindowsFit, ShareIInv, ClaimsOK, StoreOK,
         \/ CheckRoom \/ CannotGrow \/ ThrowUnpublished \/ NoRequisition \/ ThrowInBatch
         \/ Construct
  PROVE  StoreOK'
<1> HIDE DEF Numbers
<1>1. /\ UNCHANGED <<tailIndex, enq>> /\ ClaimsStill
      /\ UNCHANGED <<indexVars, freeBlocks, dequeued>>
      /\ \/ ppc = "room" /\ ppc' \in {"undo", "slot"}
         \/ ppc = "grow" /\ ppc' = "undo"
         \/ ppc = "value" /\ ppc' = "rewind"
         \/ ppc = "requisition" /\ ppc' = "rewind"
         \/ ppc = "construct" /\ ppc' = "undo"
         \/ ppc = "construct" /\ ppc' = "commit"
  BY DEF CheckRoom, CannotGrow, ThrowUnpublished, NoRequisition, ThrowInBatch, Construct,
         ProducerGoto, ClaimsStill, claimVars, counters, storage
<1>2. /\ Filled' = Filled /\ Committed' = Committed /\ Listed' = Listed /\ enq' = enq
      /\ headers' = headers /\ dequeued' = dequeued
  BY <1>1, SameCall DEF indexVars
<1>3. ~Undoing /\ ~Undoing' /\ Top' = Top /\ Reach' = Reach
  BY <1>1, <1>2 DEF Undoing, Top, Reach, InsertPcs
<1>4. EnqOK'
  BY <1>1, <1>2, <1>3 DEF StoreOK, EnqOK, InsertPcs, BaseOf
<1>5. ppc' # "grow" /\ (ppc' \in InsertPcs => ppc \in InsertPcs \ {"key"})
  BY <1>1 DEF InsertPcs
<1> QED
  BY <1>1, <1>2, <1>3, <1>4, <1>5, ControlStep

LEMMA BeginEnqueueStep ==
  ASSUME WindowsFit, ShareIInv, ClaimsOK, StoreOK,
         NEW n \in {1, MaxBulk}, NEW bulk \in BOOLEAN, BeginEnqueue(n, bulk)
  PROVE  StoreOK'
<1> HIDE DEF Numbers
<1> DEFINE first == Base(Minus(tailIndex, 1))
           last == Base(Plus(tailIndex, n - 1))
<1>1. /\ ppc = "idle" /\ ppc' = IF first = last THEN "construct" ELSE "room"
      /\ Filled + n <= MaxEnqueued
      /\ enq' = [NoEnqueue EXCEPT !.count = n, !.bulk = bulk, !.base = Plus(first, BlockSize)]
      /\ UNCHANGED <<tailIndex, indexVars, freeBlocks, dequeued>> /\ ClaimsStill
  BY DEF BeginEnqueue, Filled, ProducerGoto, storage, claimVars, counters, ClaimsStill
<1>2. n \in Nat \ {0}
  BY HalfRange
<1>3. enq = NoEnqueue /\ enq.chain = << >> /\ enq.fresh = NoBlock
  BY <1>1 DEF StoreOK, EnqOK, NoEnqueue
<1>4. Listed = Committed /\ Committed \in Nat
  BY <1>3, CommittedValue DEF Listed
<1>5. enq'.chain = << >> /\ enq'.fresh = NoBlock /\ enq'.count = n /\ enq'.base = Plus(first, BlockSize)
  BY <1>1 DEF NoEnqueue
<1>6. Filled' = Filled /\ Committed' = Committed /\ Listed' = Listed
  BY <1>1, <1>4, <1>5, SameTail DEF Listed
<1>7. PICK d \in Nat : /\ d * BlockSize < Filled + n /\ Filled + n <= d * BlockSize + BlockSize
                       /\ last = BaseOf(d) /\ d * BlockSize \in Index /\ (d + 1) * BlockSize \in Index
  BY <1>1, <1>2, BatchEnd
<1>8. /\ Plus(first, BlockSize) = BaseOf(Committed) /\ first \in Int
      /\ Filled > 0 => Committed > 0 /\ first = BaseOf(Committed - 1)
      /\ Filled = 0 => Committed = 0
  BY TailBase
<1>9. /\ Filled \in Nat /\ BlockSize \in Nat \ {0, 1} /\ Filled <= Committed * BlockSize
      /\ Committed * BlockSize \in Nat /\ Committed * BlockSize < Filled + BlockSize
      /\ Committed * BlockSize \in Index
  BY <1>4, Basics, CommittedValue, ListedFacts DEF StoreOK
<1>10. PICK x \in Nat, y \in Nat : x = d * BlockSize /\ y = Committed * BlockSize
  BY <1>7, <1>9, WithinValue
<1>11. (d + 1) * BlockSize = x + BlockSize
  BY <1>7, <1>10, WithinValue
<1>12. BaseOf(d + 1) = Plus(last, BlockSize)
  <2>1. (BaseOf(d) + 1 * BlockSize) % Numbers = BaseOf(d + 1)
    BY <1>7, BaseNext
  <2>2. 1 * BlockSize = BlockSize
    BY <1>9
  <2> QED
    BY <1>7, <2>1, <2>2 DEF Plus
<1>13. ASSUME first = last
       PROVE  Filled + n <= Listed * BlockSize /\ Listed * BlockSize < Filled + n + BlockSize
  <2>1. Committed = d + 1
    <3>1. BaseOf(Committed) = BaseOf(d + 1) /\ d + 1 \in Nat
      BY <1>7, <1>8, <1>12, <1>13
    <3> QED
      BY <1>4, <1>7, <1>9, <3>1, BaseSame
  <2> QED
    BY <1>2, <1>4, <1>7, <1>9, <1>10, <1>11, <2>1
<1>14. ASSUME first # last PROVE Listed * BlockSize < Filled + n
  <2>1. CASE Committed <= d
    <3>1. y <= x
      <4>1. CASE Committed < d
        <5>1. Committed * BlockSize + BlockSize <= d * BlockSize
          BY <1>4, <1>7, <1>9, <4>1, Multiples
        <5> QED
          BY <1>9, <1>10, <5>1
      <4>2. CASE Committed = d
        BY <1>10, <4>2
      <4> QED
        BY <1>4, <1>7, <2>1, <4>1, <4>2
    <3> QED
      BY <1>2, <1>4, <1>7, <1>9, <1>10, <3>1
  <2>2. CASE Committed = d + 1
    <3>1. Filled # 0 /\ Committed - 1 = d
      BY <1>7, <1>8, <2>2
    <3>2. first = last
      BY <1>7, <1>8, <1>9, <3>1
    <3> QED
      BY <1>14, <3>2
  <2>3. CASE Committed > d + 1
    <3>1. (d + 1) * BlockSize + BlockSize <= Committed * BlockSize
      BY <1>4, <1>7, <1>9, <2>3, Multiples
    <3> QED
      BY <1>2, <1>7, <1>9, <1>10, <1>11, <3>1
  <2> QED
    BY <1>4, <1>7, <2>1, <2>2, <2>3
<1>15. EnqOK'
  <2>1. BaseOf(Committed) \in Index
    BY <1>4, <1>9, BaseOfValue
  <2>2. enq' \in EnqueueRecords
    <3>1. enq' = [count |-> n, bulk |-> bulk, base |-> Plus(first, BlockSize), entry |-> 0,
                  fresh |-> NoBlock, chain |-> << >>]
      BY <1>1 DEF NoEnqueue
    <3> QED
      BY <1>2, <1>8, <2>1, <3>1 DEF EnqueueRecords
  <2>3. (Listed * BlockSize < MaxEnqueued + BlockSize)'
    BY <1>6 DEF StoreOK, EnqOK
  <2>4. ppc' = "construct" => (/\ Filled + enq.count <= Listed * BlockSize
                               /\ Listed * BlockSize < Filled + enq.count + BlockSize)'
    BY <1>1, <1>5, <1>6, <1>13
  <2>5. ppc' = "room" => (enq.base = BaseOf(Listed) /\ Listed * BlockSize < Filled + enq.count)'
    BY <1>1, <1>4, <1>5, <1>6, <1>8, <1>14 DEF BaseOf
  <2>6. (headers = << >> => Listed = 0)'
    BY <1>1, <1>6 DEF StoreOK, EnqOK, indexVars
  <2>7. ppc' \in {"construct", "room"}
    BY <1>1
  <2> QED
    BY <1>5, <2>2, <2>3, <2>4, <2>5, <2>6, <2>7 DEF EnqOK, InsertPcs, Undoing
<1>16. ppc' \in {"construct", "room"}
  BY <1>1
<1>17. ~Undoing /\ ~Undoing' /\ Top' = Top /\ Reach' = Reach /\ ppc' \notin InsertPcs
  BY <1>1, <1>6, <1>16 DEF Undoing, Top, Reach, InsertPcs
<1> HIDE DEF first, last
<1> QED
  BY <1>1, <1>3, <1>5, <1>6, <1>15, <1>16, <1>17, ControlStep

LEMMA CommitStep ==
  ASSUME WindowsFit, ShareIInv, ClaimsOK, StoreOK, Commit
  PROVE  /\ StoreOK' /\ Top' = Top /\ Committed' = Listed /\ Listed' = Listed
         /\ Filled' = Filled + enq.count
<1> HIDE DEF Numbers
<1>1. /\ ppc = "commit" /\ ppc' = "idle" /\ enq' = NoEnqueue
      /\ tailIndex' = Plus(tailIndex, enq.count)
      /\ UNCHANGED <<indexVars, freeBlocks, dequeued>> /\ ClaimsStill
  BY DEF Commit, EndCall, ProducerGoto, storage, claimVars, counters, ClaimsStill
<1>2. /\ Filled \in Nat /\ MaxEnqueued \in Nat /\ MaxEnqueued + BlockSize <= Numbers
      /\ BlockSize \in Nat \ {0, 1} /\ tailIndex \in Index /\ Numbers \in Nat
  BY Basics
<1>3. enq.count \in Nat /\ Filled + enq.count <= MaxEnqueued
  BY DEF ShareIInv, EnqueueFits
<1>4. Filled' = Filled + enq.count
  <2>1. Minus(tailIndex, StartIndex) + enq.count < Numbers
    <3>1. Filled + enq.count < Numbers
      BY <1>2, <1>3
    <3> QED
      BY <3>1 DEF Filled
  <2> QED
    BY <1>1, <1>2, <1>3, <2>1, HalfRange, Advanced DEF Filled
<1>5. /\ Filled + enq.count <= Listed * BlockSize
      /\ Listed * BlockSize < Filled + enq.count + BlockSize
      /\ enq.fresh = NoBlock
  BY <1>1 DEF StoreOK, EnqOK
<1>6. Listed \in Nat /\ Listed * BlockSize \in Nat
  BY ListedFacts DEF StoreOK
<1>7. PICK x \in Nat, f \in Nat : x = Listed * BlockSize /\ f = Filled'
  <2>1. Filled + enq.count \in Nat
    BY <1>2, <1>3
  <2> QED
    BY <1>4, <1>6, <2>1
<1>8. Committed' = Listed
  <2>1. f + BlockSize - 1 \in x .. x + BlockSize - 1
    BY <1>2, <1>3, <1>4, <1>5, <1>7
  <2>2. f + BlockSize - 1 \in Int
    BY <1>2, <1>7
  <2>3. (f + BlockSize - 1) \div BlockSize = Listed
    <3>1. f + BlockSize - 1 \in Listed * BlockSize .. Listed * BlockSize + BlockSize - 1
      BY <1>7, <2>1
    <3> QED
      BY <1>2, <1>6, <2>2, <3>1, Quotient
  <2> QED
    BY <1>7, <2>3 DEF Committed
<1>9. Listed' = Listed /\ enq'.chain = << >> /\ enq'.fresh = NoBlock
  <2>1. enq'.chain = << >> /\ enq'.fresh = NoBlock
    BY <1>1 DEF NoEnqueue
  <2>2. Len(enq'.chain) = 0
    BY <2>1
  <2> QED
    BY <1>6, <1>8, <2>1, <2>2 DEF Listed
<1>10. EnqOK'
  <2>1. enq' \in EnqueueRecords
    BY <1>1, HalfRange DEF NoEnqueue, EnqueueRecords, Index
  <2>2. (Listed * BlockSize < MaxEnqueued + BlockSize)'
    BY <1>9 DEF StoreOK, EnqOK
  <2>3. (headers = << >> => Listed = 0)'
    BY <1>1, <1>9 DEF StoreOK, EnqOK, indexVars
  <2> QED
    BY <1>1, <1>9, <2>1, <2>2, <2>3 DEF EnqOK, InsertPcs, Undoing
<1>11. ~Undoing /\ ~Undoing' /\ Top' = Top /\ Reach' = Reach /\ ppc' \notin InsertPcs
  BY <1>1, <1>9 DEF Undoing, Top, Reach, InsertPcs
<1> QED
  BY <1>1, <1>4, <1>5, <1>8, <1>9, <1>10, <1>11, ControlStep

LEMMA FindSlotStep ==
  ASSUME WindowsFit, ShareIInv, ClaimsOK, StoreOK, FindSlot
  PROVE  StoreOK'
<1> HIDE DEF Numbers
<1> USE DEF StoreOK
<1> DEFINE e == Last.index[NextSlot(Last)]
<1>1. /\ ppc = "slot" /\ headers # << >> /\ enq' = [enq EXCEPT !.entry = e]
      /\ ppc' = IF key[e] = InvalidBlockBase \/ value[e] = NoBlock THEN "key" ELSE "grow"
      /\ UNCHANGED <<tailIndex, indexVars, freeBlocks, dequeued>> /\ ClaimsStill
  BY DEF FindSlot, ProducerGoto, storage, claimVars, counters, ClaimsStill
<1>2. headers' = headers /\ key' = key /\ value' = value /\ ppc' \in {"key", "grow"}
  BY <1>1 DEF indexVars
<1>3. /\ Listed \in Nat /\ Committed \in Nat /\ Capacity(Last) \in Nat \ {0}
      /\ Last.tail \in 0 .. Capacity(Last) - 1 /\ Origin \in Int
  BY <1>1, ListedFacts, EntryFacts
<1>4. e = Entry(Listed) /\ e \in Entries
  <2>1. Top = Listed - 1
    BY <1>1 DEF Top, Undoing
  <2>2. Origin + Listed = Last.tail + 1
    BY <1>3, <2>1 DEF Origin
  <2> QED
    <3>1. e = Entry(Listed)
      BY <2>2 DEF Entry, NextSlot
    <3>2. Listed \in Int
      BY <1>3
    <3>3. Entry(Listed) \in Entries
      BY <1>1, <3>2, EntryFacts
    <3> QED
      BY <3>1, <3>3
<1>5. enq \in EnqueueRecords
  BY DEF EnqOK
<1>6. /\ enq' \in EnqueueRecords /\ enq'.entry = e
      /\ enq'.base = enq.base /\ enq'.count = enq.count /\ enq'.fresh = enq.fresh
      /\ enq'.chain = enq.chain
  <2>1. e \in Nat
    BY <1>4, ImplicitAssumption DEF Entries, ImplicitAssumption
  <2> QED
    BY <1>1, <1>5, <2>1 DEF EnqueueRecords
<1>7. Filled' = Filled /\ Committed' = Committed /\ Listed' = Listed
  BY <1>1, <1>6, SameTail DEF Listed
<1>8. ~Undoing /\ ~Undoing' /\ Top' = Top /\ Reach = Listed - 1
      /\ Reach' = IF ppc' = "key" THEN Listed ELSE Listed - 1
  BY <1>1, <1>2, <1>7 DEF Undoing, Top, Reach, InsertPcs
<1>9. SameIndex /\ \A m : Entry(m)' = Entry(m)
  BY <1>2, <1>8, UnmovedIndex
<1>10. EnqOK'
  <2>1. (ppc \in InsertPcs \cup {"room", "slot", "grow"} =>
          enq.base = BaseOf(Listed) /\ Listed * BlockSize < Filled + enq.count)'
    BY <1>1, <1>6, <1>7 DEF EnqOK, BaseOf
  <2>2. enq'.fresh = NoBlock
    BY <1>1, <1>6 DEF EnqOK
  <2> QED
    BY <1>1, <1>2, <1>6, <1>7, <1>8, <2>1, <2>2 DEF EnqOK
<1>11. RingOK'
  <2>1. RingTyped'
    BY <1>2, <1>9, RingTypedStill DEF RingOK, RingTyped
  <2>2. ASSUME NEW m \in Nat, m < Listed, Live(m), ppc' = "key"
        PROVE  Listed < m + Capacity(Last)
    <3>1. Listed - 1 < m + Capacity(Last) /\ \A q \in m .. Listed - 1 : key[Entry(q)] = BaseOf(q)
      BY <1>8, <2>2, LiveWindow
    <3>2. ASSUME Listed = m + Capacity(Last) PROVE FALSE
      <4>1. (Origin + m + Capacity(Last)) % Capacity(Last) = (Origin + m) % Capacity(Last)
        <5>1. Origin + m \in Int
          BY <1>3
        <5> QED
          BY <1>3, <5>1, RingWrap
      <4>2. Origin + Listed = Origin + m + Capacity(Last)
        BY <1>3, <3>2
      <4>3. Entry(m) = e
        BY <1>4, <4>1, <4>2 DEF Entry
      <4>4. key[e] = BaseOf(m)
        BY <1>3, <2>2, <3>1, <4>3
      <4>5. key[e] # InvalidBlockBase
        BY <1>3, <2>2, <4>4, BlockInRange
      <4>6. m \in LiveNos
        BY <1>3, <1>8, <2>2 DEF LiveNos, Limit
      <4>7. value[e] \in Blocks
        BY <4>3, <4>6 DEF OwnersOK
      <4> QED
        BY <1>1, <2>2, <4>5, <4>7, ImplicitAssumption DEF ImplicitAssumption
    <3> QED
      BY <1>3, <2>2, <3>1, <3>2
  <2>3. ASSUME NEW m \in Nat, m < Listed', Live(m)
        PROVE  /\ Reach' < m + Capacity(Last)
               /\ \A q \in m .. Listed' - 1 : key'[Entry(q)] = BaseOf(q)
    <3>1. m < Listed
      BY <1>7, <2>3
    <3>2. Reach < m + Capacity(Last) /\ \A q \in m .. Listed - 1 : key[Entry(q)] = BaseOf(q)
      BY <2>3, <3>1, LiveWindow
    <3> QED
      BY <1>2, <1>7, <1>8, <2>2, <2>3, <3>1, <3>2
  <2>4. RingLive'
    BY <1>1, <1>3, <1>7, <1>9, <2>3, RingLiveStill DEF RingOK
  <2>5. Inserting'
    <3>1. Entry(Listed)' = Entry(Listed)
      <4>1. PICK n : n = Listed
        OBVIOUS
      <4> QED
        BY <1>7, <1>9, <4>1
    <3>2. ppc' = "key" => value[e] = NoBlock
      BY <1>1, <1>4 DEF RingOK, RingTyped
    <3> QED
      BY <1>2, <1>4, <1>6, <3>1, <3>2 DEF Inserting, InsertPcs
  <2>6. Removing'
    BY <1>8 DEF Removing
  <2> QED
    BY <2>1, <2>4, <2>5, <2>6 DEF RingOK
<1>12. OwnersOK'
  <2>1. Limit' = Limit
    BY <1>7, <1>8 DEF Limit
  <2> QED
    BY <1>1, <1>2, <1>6, <1>7, <1>8, <1>9, <2>1, OwnersStill
<1>13. LookupsOK'
  <2>1. ASSUME NEW c \in Consumers, NEW T \in BlockNos, Keyed(c, T)
        PROVE  Keyed(c, T)'
    <3>1. T \in Nat
      BY DEF BlockNos
    <3>2. ASSUME ~(T < Listed)
          PROVE  ppc' # "grow" /\ \A q \in Listed .. T : value[Entry(q)] = NoBlock
      <4>1. \A q \in Listed .. T : value[Entry(q)] = NoBlock
        BY <2>1, <3>2 DEF Keyed
      <4>2. value[e] = NoBlock
        BY <1>3, <1>4, <3>1, <3>2, <4>1
      <4> QED
        BY <1>1, <4>1, <4>2
    <3> HIDE DEF e
    <3> QED
      BY <1>2, <1>7, <1>9, <2>1, <3>2, SameClaims, <1>1 DEF Keyed, BaseOf, Last
  <2> QED
    BY <1>1, <1>2, <1>9, <2>1, LookupsStill
<1> QED
  BY <1>10, <1>11, <1>12, <1>13

LEMMA StoreKeyStep ==
  ASSUME WindowsFit, ShareIInv, ClaimsOK, StoreOK, StoreKey
  PROVE  StoreOK'
<1> HIDE DEF Numbers
<1> USE DEF StoreOK
<1>1. /\ ppc = "key" /\ ppc' = "indexTail" /\ enq' = enq
      /\ key' = [key EXCEPT ![enq.entry] = enq.base]
      /\ UNCHANGED <<tailIndex, headers, value, freeBlocks, dequeued>> /\ ClaimsStill
  BY DEF StoreKey, ProducerGoto, storage, claimVars, counters, ClaimsStill
<1>2. headers' = headers /\ value' = value /\ headers # << >>
  BY <1>1 DEF EnqOK, InsertPcs
<1>3. Filled' = Filled /\ Committed' = Committed /\ Listed' = Listed /\ enq' = enq
  BY <1>1, SameCall
<1>4. ~Undoing /\ ~Undoing' /\ Top' = Top /\ Reach = Listed /\ Reach' = Listed
  BY <1>1, <1>3 DEF Undoing, Top, Reach, InsertPcs
<1>5. SameIndex /\ \A m : Entry(m)' = Entry(m)
  BY <1>2, <1>4, UnmovedIndex
<1>6. /\ Listed \in Nat /\ Committed \in Nat /\ Capacity(Last) \in Nat \ {0}
      /\ DOMAIN Last.index = 0 .. Capacity(Last) - 1
  BY <1>2, ListedFacts, EntryFacts
<1>7. /\ enq.entry = Entry(Listed) /\ value[enq.entry] = NoBlock /\ enq.base = BaseOf(Listed)
      /\ Entry(Listed) \in 0 .. Capacity(Last) - 1 /\ Entry(Listed) \in Entries
      /\ DOMAIN key = Entries /\ DOMAIN value = Entries /\ BaseOf(Listed) # InvalidBlockBase
  <2>1. ppc \in InsertPcs
    BY <1>1 DEF InsertPcs
  <2>2. Listed \in Int
    BY <1>6
  <2>3. Entry(Listed) \in 0 .. Capacity(Last) - 1 /\ Entry(Listed) \in Entries
    BY <1>2, <2>2, EntryFacts
  <2> QED
    BY <1>6, <2>1, <2>3, BlockInRange DEF RingOK, RingTyped, Inserting, EnqOK
<1>8. key'[Entry(Listed)] = BaseOf(Listed) /\ \A e : e # Entry(Listed) => key'[e] = key[e]
  BY <1>1, <1>7
<1>9. EnqOK'
  BY <1>1, <1>2, <1>3, <1>4 DEF EnqOK, InsertPcs, BaseOf
<1>10. RingOK'
  <2>1. RingTyped'
    <3>1. DOMAIN key' = Entries /\ DOMAIN value' = Entries
      BY <1>1, <1>7
    <3>2. \A e \in Entries : key'[e] = InvalidBlockBase =>
            key[e] = InvalidBlockBase /\ value'[e] \in {value[e], NoBlock}
      BY <1>2, <1>7, <1>8
    <3>3. \A e \in Entries \ DOMAIN Last.index : key'[e] = key[e]
      BY <1>6, <1>7, <1>8
    <3> QED
      BY <1>2, <1>5, <3>1, <3>2, <3>3, RingTypedStill DEF RingOK, RingTyped
  <2>2. ASSUME NEW m \in Nat, m < Listed', Live(m)
        PROVE  /\ Reach' < m + Capacity(Last)
               /\ \A q \in m .. Listed' - 1 : key'[Entry(q)] = BaseOf(q)
    <3>1. m < Listed
      BY <1>3, <2>2
    <3>2. /\ Reach < m + Capacity(Last) /\ \A q \in m .. Listed - 1 : key[Entry(q)] = BaseOf(q)
          /\ \A q \in Int, p \in Int : q \in m .. Reach /\ p \in m .. Reach /\ Entry(q) = Entry(p)
                => q = p
      BY <2>2, <3>1, LiveWindow
    <3>3. ASSUME NEW q \in m .. Listed - 1 PROVE Entry(q) # Entry(Listed)
      <4>1. q \in m .. Reach /\ Listed \in m .. Reach /\ q \in Int /\ Listed \in Int /\ q # Listed
        BY <1>4, <1>6, <2>2, <3>1
      <4> QED
        BY <3>2, <4>1
    <3> QED
      BY <1>3, <1>4, <1>8, <3>2, <3>3
  <2>4. RingLive'
    BY <1>2, <1>3, <1>5, <1>6, <2>2, RingLiveStill, <1>1 DEF RingOK
  <2>5. Inserting'
    <3>1. Entry(Listed)' = Entry(Listed)
      <4>1. PICK n : n = Listed
        OBVIOUS
      <4> QED
        BY <1>3, <1>5, <4>1
    <3> QED
      BY <1>1, <1>3, <1>7, <1>8, <3>1 DEF Inserting, InsertPcs
  <2>6. Removing'
    BY <1>4 DEF Removing
  <2> QED
    BY <2>1, <2>4, <2>5, <2>6 DEF RingOK
<1>11. OwnersOK'
  <2>1. Limit' = Limit
    BY <1>3, <1>4 DEF Limit
  <2> QED
    BY <1>1, <1>2, <1>3, <1>4, <1>5, <2>1, OwnersStill
<1>12. LookupsOK'
  <2>1. ASSUME NEW c \in Consumers, cpc[c] \in {"slotTail", "slotKey"}, NEW T \in BlockNos,
               Keyed(c, T)
        PROVE  Keyed(c, T)'
    <3>1. T \in Nat
      BY DEF BlockNos
    <3>2. Here(c) \in Nat /\ Here(c) <= Listed
      <4>1. cpc[c] \in LookupPcs \ {"free"}
        BY <2>1 DEF LookupPcs
      <4> QED
        BY <1>6, <4>1, LookupFacts
    <3>3. ASSUME NEW m \in Here(c) .. T PROVE key'[Entry(m)] = BaseOf(m)
      <4>1. CASE m = Listed
        BY <1>8, <4>1
      <4>2. CASE m # Listed
        <5>1. m \in Int /\ Listed \in Int /\ Listed \in Here(c) .. Reach
          BY <1>4, <1>6, <3>2
        <5>2. Entry(m) # Entry(Listed)
          BY <2>1, <3>1, <4>2, <5>1, LookupWindow
        <5> QED
          BY <1>8, <2>1, <5>2 DEF Keyed
      <4> QED
        BY <4>1, <4>2
    <3> QED
      BY <1>1, <1>2, <1>3, <1>5, <2>1, <3>3, SameClaims DEF Keyed, BaseOf, Last
  <2> QED
    BY <1>1, <1>2, <1>5, <2>1, LookupsStill
<1> QED
  BY <1>9, <1>10, <1>11, <1>12

\* The tail of the newest header moves.
LEMMA MovedTail ==
  ASSUME WindowsFit, ShareIInv, EnqOK, RingOK, headers # << >>, NEW d \in Int,
         SetTail((Last.tail + d) % Capacity(Last)), Top' = Top + d
  PROVE  SameIndex /\ headers' \in Seq(Headers)
<1> HIDE DEF Numbers
<1> DEFINE n == Capacity(Last)
           t == (Last.tail + d) % n
<1>1. /\ Len(headers) \in Nat \ {0} /\ Last \in Headers /\ n \in Nat \ {0} /\ Origin \in Int
      /\ Last.tail \in 0 .. n - 1 /\ Top \in Int /\ Origin = Last.tail - Top
      /\ headers \in Seq(Headers) /\ Last = headers[Len(headers)]
      /\ n <= MaxIndexSize
      /\ Last.index \in [0 .. n - 1 -> 0 .. n - 1]
  BY EntryFacts, HeaderFacts DEF RingOK, RingTyped
<1>2. t \in 0 .. n - 1
  BY <1>1
<1>3. headers' = [headers EXCEPT ![Len(headers)] = [Last EXCEPT !.tail = t]]
  BY <1>1 DEF SetTail
<1>4. PICK k \in 1 .. MaxIndexSize : Last \in [tail : 0 .. k - 1, index : [0 .. k - 1 -> 0 .. k - 1]]
  BY <1>1 DEF Headers
<1>5. [Last EXCEPT !.tail = t] = [tail |-> t, index |-> Last.index]
  BY <1>4
<1>6. [Last EXCEPT !.tail = t] \in Headers
  <2>1. n \in 1 .. MaxIndexSize
    BY <1>1, ImplicitAssumption DEF ImplicitAssumption
  <2>2. [tail |-> t, index |-> Last.index] \in [tail : 0 .. n - 1, index : [0 .. n - 1 -> 0 .. n - 1]]
    BY <1>1, <1>2
  <2> HIDE DEF n, t
  <2> QED
    BY <1>5, <2>1, <2>2 DEF Headers
<1> HIDE DEF t
<1>7. headers' \in Seq(Headers) /\ Len(headers') = Len(headers)
  BY <1>1, <1>3, <1>6
<1>8. \A h \in 1 .. Len(headers) : headers'[h] = IF h = Len(headers) THEN [Last EXCEPT !.tail = t]
                                                 ELSE headers[h]
  BY <1>1, <1>3
<1>9. \A h \in 1 .. Len(headers) :
        /\ headers'[h].index = headers[h].index
        /\ h # Len(headers) => headers'[h] = headers[h]
  BY <1>1, <1>5, <1>8
<1>10. Last' = [tail |-> t, index |-> Last.index]
  <2>1. Last' = headers'[Len(headers')]
    BY DEF Last
  <2>2. headers'[Len(headers)] = [Last EXCEPT !.tail = t]
    <3>1. Len(headers) \in 1 .. Len(headers)
      BY <1>1
    <3> QED
      BY <1>8, <3>1
  <2> QED
    BY <1>5, <1>7, <2>1, <2>2
<1>11. Capacity(Last)' = n /\ Last.index' = Last.index /\ Last.tail' = t
  BY <1>10 DEF Capacity
<1>12. ASSUME NEW m \in Int PROVE Entry(m)' = Entry(m)
  <2>1. Origin' = t - (Top + d)
    BY <1>11 DEF Origin
  <2>2. (t + (m - Top - d)) % n = ((Last.tail + d) + (m - Top - d)) % n
    <3>1. m - Top - d \in Int /\ Last.tail + d \in Int
      BY <1>1
    <3> HIDE DEF n
    <3> QED
      BY <1>1, <3>1, RingShift DEF t
  <2>3. (Last.tail + d) + (m - Top - d) = Origin + m
    BY <1>1
  <2>4. t + (m - Top - d) = (t - (Top + d)) + m
    <3> HIDE DEF n
    <3>1. t \in Int
      BY <1>1, <1>2
    <3> QED
      BY <1>1, <3>1
  <2>5. Entry(m)' = Last.index[(Origin' + m) % n]
    BY <1>11 DEF Entry
  <2> HIDE DEF n
  <2>6. Entry(m)' = Last.index[(t + (m - Top - d)) % n]
    BY <2>1, <2>4, <2>5
  <2>7. Entry(m) = Last.index[(Origin + m) % n]
    BY DEF Entry, n
  <2> QED
    BY <2>2, <2>3, <2>6, <2>7
<1> QED
  BY <1>7, <1>9, <1>12 DEF SameIndex

LEMMA StoreIndexTailStep ==
  ASSUME WindowsFit, ShareIInv, ClaimsOK, StoreOK, StoreIndexTail \/ RewindTail
  PROVE  StoreOK' /\ SameIndex
<1> HIDE DEF Numbers
<1> USE DEF StoreOK
<1>1. /\ \/ ppc = "indexTail" /\ ppc' = "requisition" /\ SetTail(NextSlot(Last))
         \/ ppc = "rewind" /\ ppc' = "clear" /\ SetTail(PrevSlot(Last))
      /\ UNCHANGED <<tailIndex, enq, key, value, freeBlocks, dequeued>> /\ ClaimsStill
  BY DEF StoreIndexTail, RewindTail, ProducerGoto, storage, claimVars, counters, ClaimsStill
<1>2. headers # << >> /\ ppc \in InsertPcs \ {"key"} /\ ppc' \in InsertPcs \ {"key"}
  BY <1>1 DEF EnqOK, InsertPcs
<1>3. Filled' = Filled /\ Committed' = Committed /\ Listed' = Listed /\ enq' = enq
      /\ Listed \in Nat
  BY <1>1, SameCall, ListedFacts
<1>4. ~Undoing /\ ~Undoing' /\ Reach' = Reach
  BY <1>1, <1>3 DEF Undoing, Reach, InsertPcs
<1>5. SameIndex /\ headers' \in Seq(Headers)
  <2>1. Last.tail \in Int
    <3>1. Last.tail \in 0 .. Capacity(Last) - 1
      BY <1>2, EntryFacts
    <3> QED
      BY <3>1
  <2>2. CASE ppc = "indexTail"
    <3>1. Top = Listed - 1 /\ Top' = Listed
      BY <1>1, <1>3, <1>4, <2>2 DEF Top
    <3>2. Top' = Top + 1
      BY <1>3, <3>1
    <3>3. SetTail((Last.tail + 1) % Capacity(Last))
      BY <1>1, <2>2 DEF NextSlot
    <3> QED
      BY <1>2, <3>2, <3>3, MovedTail
  <2>3. CASE ppc = "rewind"
    <3>1. Top = Listed /\ Top' = Listed - 1
      BY <1>1, <1>3, <1>4, <2>3 DEF Top
    <3>2. PICK d \in Int : d = -1
      OBVIOUS
    <3>3. Top' = Top + d
      BY <1>3, <3>1, <3>2
    <3>4. SetTail((Last.tail + d) % Capacity(Last))
      <4>1. Last.tail - 1 = Last.tail + d
        BY <2>1, <3>2
      <4> QED
        BY <1>1, <2>3, <4>1 DEF PrevSlot
    <3> QED
      BY <1>2, <3>3, <3>4, MovedTail
  <2> QED
    BY <1>1, <2>2, <2>3
<1>6. EnqOK'
  <2>1. (headers = << >> => Listed = 0 /\ ppc \notin InsertPcs \cup {"grow"})'
    <3>1. Len(headers') = Len(headers) /\ Len(headers) \in Nat \ {0}
      BY <1>2, <1>5, EntryFacts DEF SameIndex
    <3> QED
      BY <3>1
  <2> QED
    BY <1>1, <1>2, <1>3, <1>4, <2>1 DEF EnqOK, InsertPcs, BaseOf
<1>7. ppc' # "grow"
  BY <1>1
<1> QED
  BY <1>1, <1>2, <1>3, <1>4, <1>5, <1>6, <1>7, StillStep

LEMMA RequisitionStep ==
  ASSUME WindowsFit, ShareIInv, ClaimsOK, StoreOK, Requisition
  PROVE  StoreOK'
<1> HIDE DEF Numbers
<1> USE DEF StoreOK
<1>1. PICK b \in freeBlocks :
        /\ freeBlocks' = freeBlocks \ {b} /\ dequeued' = [dequeued EXCEPT ![b] = 0]
        /\ enq' = [enq EXCEPT !.fresh = b]
  BY DEF Requisition
<1>2. /\ ppc = "requisition" /\ ppc' = "value" /\ UNCHANGED <<tailIndex, headers, key, value>>
      /\ ClaimsStill
  BY DEF Requisition, ProducerGoto, claimVars, counters, ClaimsStill, indexVars
<1>3. b \in Blocks /\ freeBlocks \subseteq Blocks /\ DOMAIN dequeued = Blocks
  BY <1>1 DEF OwnersOK
<1>4. enq \in EnqueueRecords /\ enq.fresh = NoBlock
  BY <1>2 DEF EnqOK
<1>5. /\ enq' \in EnqueueRecords /\ enq'.fresh = b /\ enq'.base = enq.base
      /\ enq'.count = enq.count /\ enq'.entry = enq.entry /\ enq'.chain = enq.chain
  BY <1>1, <1>3, <1>4 DEF EnqueueRecords
<1>6. Filled' = Filled /\ Committed' = Committed /\ Listed' = Listed
  BY <1>2, <1>5, SameTail DEF Listed
<1>7. /\ ~Undoing /\ ~Undoing' /\ Reach' = Reach /\ Top' = Top /\ headers # << >>
      /\ ppc \in InsertPcs \ {"key"} /\ ppc' \in InsertPcs \ {"key"}
  BY <1>2, <1>6 DEF Undoing, Reach, Top, InsertPcs, EnqOK
<1>8. SameIndex /\ \A m : Entry(m)' = Entry(m)
  BY <1>2, <1>7, UnmovedIndex
<1>9. Listed \in Nat /\ Committed \in Nat /\ Committed <= Listed
      /\ Listed = Committed + Len(enq.chain) /\ Len(enq.chain) \in Nat
  BY ListedFacts
<1>10. dequeued'[b] = 0 /\ \A x \in Blocks : x # b => dequeued'[x] = dequeued[x]
  BY <1>1, <1>3
<1>11. EnqOK'
  <2>1. (headers = << >> => Listed = 0 /\ ppc \notin InsertPcs \cup {"grow"})'
    BY <1>2, <1>7
  <2>2. (ppc \in InsertPcs \cup {"room", "slot", "grow"} =>
          enq.base = BaseOf(Listed) /\ Listed * BlockSize < Filled + enq.count)'
    BY <1>5, <1>6, <1>7 DEF EnqOK, BaseOf
  <2>3. b # NoBlock
    BY <1>3, ImplicitAssumption DEF ImplicitAssumption
  <2> QED
    BY <1>2, <1>5, <1>6, <1>7, <1>10, <2>1, <2>2, <2>3 DEF EnqOK
<1>12. RingOK'
  <2>1. RingTyped'
    BY <1>2, <1>8, RingTypedStill DEF RingOK, RingTyped
  <2>2. RingLive'
    <3>1. ASSUME NEW m \in Nat, m < Listed', Live(m)
          PROVE  /\ Reach' < m + Capacity(Last)
                 /\ \A q \in m .. Listed' - 1 : key'[Entry(q)] = BaseOf(q)
      <4>1. m < Listed
        BY <1>6, <3>1
      <4>2. Reach < m + Capacity(Last) /\ \A q \in m .. Listed - 1 : key[Entry(q)] = BaseOf(q)
        BY <3>1, <4>1, LiveWindow
      <4> QED
        BY <1>2, <1>6, <1>7, <4>2
    <3> QED
      BY <1>2, <1>6, <1>7, <1>8, <1>9, <3>1, RingLiveStill DEF RingOK
  <2>3. Inserting'
    <3>1. Entry(Listed)' = Entry(Listed)
      <4>1. PICK n : n = Listed
        OBVIOUS
      <4> QED
        BY <1>6, <1>8, <4>1
    <3> QED
      BY <1>2, <1>5, <1>7, <3>1 DEF RingOK, Inserting
  <2>4. Removing'
    BY <1>7 DEF Removing
  <2> QED
    BY <2>1, <2>2, <2>3, <2>4 DEF RingOK
<1>13. OwnersOK'
  <2>1. LiveNos' = LiveNos /\ Chained' = Chained /\ Freeing' = Freeing /\ call' = call
    BY <1>2, <1>5, <1>6, <1>7, SameClaims DEF LiveNos, Limit, Chained, ClaimsStill
  <2>2. \A m : ConsumedIn(m)' = ConsumedIn(m)
    BY <1>2, SameClaims
  <2>3. ASSUME NEW m \in LiveNos
        PROVE  /\ value'[Entry(m)'] \in Blocks \ freeBlocks' /\ value'[Entry(m)'] # b
               /\ value'[Entry(m)'] = value[Entry(m)]
               /\ dequeued'[value'[Entry(m)']] = Cardinality(ConsumedIn(m)')
    <3>1. value[Entry(m)] \in Blocks \ freeBlocks
          /\ dequeued[value[Entry(m)]] = Cardinality(ConsumedIn(m))
      BY DEF OwnersOK
    <3>2. value[Entry(m)] # b
      BY <1>1, <3>1
    <3> QED
      BY <1>1, <1>2, <1>8, <1>10, <2>2, <3>1, <3>2
  <2>4. ASSUME NEW i \in 1 .. Len(enq'.chain)
        PROVE  value'[Entry(Committed + i - 1)'] = enq'.chain[i]
    <3>1. PICK m : m = Committed + i - 1
      OBVIOUS
    <3>2. m = (Committed + i - 1)'
      BY <1>6, <3>1
    <3>3. value[Entry(m)] = enq.chain[i]
      BY <1>5, <1>7, <2>4, <3>1 DEF OwnersOK
    <3> QED
      BY <1>2, <1>5, <1>8, <3>2, <3>3
  <2>5. /\ Chained' \cap freeBlocks' = {} /\ enq'.fresh \notin freeBlocks'
        /\ enq'.fresh \notin Chained'
    BY <1>1, <1>5, <2>1 DEF OwnersOK
  <2>6. \A c \in Freeing' : /\ call'[c].block \in Blocks \ freeBlocks'
                            /\ call'[c].block \notin Chained' /\ call'[c].block # enq'.fresh
                            /\ \A m \in LiveNos' : value'[Entry(m)'] # call'[c].block
    BY <1>1, <1>5, <2>1, <2>3 DEF OwnersOK
  <2>7. \A c, d \in Freeing' : call'[d].block = call'[c].block => c = d
    BY <2>1 DEF OwnersOK
  <2>8. \A m, q \in LiveNos' : value'[Entry(m)'] = value'[Entry(q)'] => m = q
    BY <2>1, <2>3 DEF OwnersOK
  <2>9. freeBlocks' \subseteq Blocks /\ DOMAIN dequeued' = Blocks
    BY <1>1, <1>3
  <2> QED
    BY <1>5, <1>7, <2>1, <2>3, <2>4, <2>5, <2>6, <2>7, <2>8, <2>9 DEF OwnersOK
<1>14. LookupsOK'
  <2>1. ASSUME NEW c \in Consumers, NEW T \in BlockNos, Keyed(c, T),
               cpc[c] \in {"slotTail", "slotKey"}
        PROVE  Keyed(c, T)'
    BY <1>2, <1>6, <1>8, <2>1, SameClaims DEF Keyed, BaseOf, Last
  <2> QED
    BY <1>2, <1>8, <2>1, LookupsStill
<1> QED
  BY <1>11, <1>12, <1>13, <1>14

\* The entry of the block that is being listed is that of no live block.
LEMMA ListedApart ==
  ASSUME WindowsFit, ShareIInv, EnqOK, RingOK, ppc \in InsertPcs
  PROVE  /\ headers # << >> /\ Reach = Listed /\ Listed \in Nat
         /\ \A m \in Nat : m < Listed /\ Live(m) => Entry(m) # Entry(Listed)
<1> HIDE DEF Numbers
<1>1. headers # << >> /\ Reach = Listed /\ Listed \in Nat
  BY ListedFacts DEF EnqOK, Reach
<1>2. ASSUME NEW m \in Nat, m < Listed, Live(m) PROVE Entry(m) # Entry(Listed)
  <2>1. m \in m .. Reach /\ Listed \in m .. Reach /\ m \in Int /\ Listed \in Int /\ m # Listed
    BY <1>1, <1>2
  <2> QED
    BY <1>2, <2>1, LiveWindow
<1> QED
  BY <1>1, <1>2

LEMMA StoreValueStep ==
  ASSUME WindowsFit, ShareIInv, ClaimsOK, StoreOK, StoreValue
  PROVE  StoreOK'
<1> HIDE DEF Numbers
<1> USE DEF StoreOK
<1> DEFINE last == Base(Plus(tailIndex, enq.count - 1))
<1>1. PICK more \in BOOLEAN :
        /\ more <=> enq.base # last
        /\ enq' = [enq EXCEPT !.chain = Append(@, enq.fresh), !.fresh = NoBlock,
                              !.base = IF more THEN Plus(@, BlockSize) ELSE @]
        /\ ppc' = IF more THEN "room" ELSE "construct"
  BY DEF StoreValue, ProducerGoto
<1>2. /\ ppc = "value" /\ ppc' \in {"room", "construct"}
      /\ value' = [value EXCEPT ![enq.entry] = enq.fresh]
      /\ UNCHANGED <<tailIndex, headers, key, freeBlocks, dequeued>> /\ ClaimsStill
  BY <1>1 DEF StoreValue, storage, claimVars, counters, ClaimsStill
<1>3. enq \in EnqueueRecords /\ enq.fresh # NoBlock /\ dequeued[enq.fresh] = 0
  BY <1>2 DEF EnqOK
<1>4. /\ Listed \in Nat /\ Committed \in Nat /\ Committed <= Listed
      /\ Listed = Committed + Len(enq.chain) /\ Len(enq.chain) \in Nat /\ enq.base \in Index
  BY ListedFacts
<1>5. /\ enq'.fresh = NoBlock /\ enq'.count = enq.count /\ enq'.entry = enq.entry
      /\ enq'.chain = Append(enq.chain, enq.fresh) /\ enq'.bulk = enq.bulk
      /\ enq'.base = IF more THEN Plus(enq.base, BlockSize) ELSE enq.base
      /\ enq.chain \in Seq(Blocks) /\ enq.fresh \in Blocks
  BY <1>1, <1>3 DEF EnqueueRecords
<1>6. /\ Len(enq'.chain) = Len(enq.chain) + 1
      /\ \A i \in 1 .. Len(enq.chain) : enq'.chain[i] = enq.chain[i]
      /\ enq'.chain[Len(enq.chain) + 1] = enq.fresh
      /\ enq'.chain \in Seq(Blocks)
  BY <1>5
<1>7. Filled' = Filled /\ Committed' = Committed /\ Listed' = Listed + 1
  <2>1. Filled' = Filled /\ Committed' = Committed
    BY <1>2, SameTail
  <2> QED
    BY <1>4, <1>6, <2>1 DEF Listed
<1>8. /\ ~Undoing /\ ~Undoing' /\ Reach = Listed /\ Reach' = Listed /\ Top = Listed /\ Top' = Listed
      /\ headers # << >> /\ ppc \in InsertPcs \ {"key"} /\ ppc' \notin InsertPcs \cup {"grow"}
  BY <1>2, <1>4, <1>7 DEF Undoing, Reach, Top, InsertPcs, EnqOK
<1>9. SameIndex /\ \A m : Entry(m)' = Entry(m)
  BY <1>2, <1>8, UnmovedIndex
<1>10. /\ enq.entry = Entry(Listed) /\ value[enq.entry] = NoBlock /\ key[enq.entry] = enq.base
       /\ enq.base = BaseOf(Listed) /\ Listed * BlockSize < Filled + enq.count
       /\ BaseOf(Listed) # InvalidBlockBase /\ Entry(Listed) \in Entries
       /\ DOMAIN key = Entries /\ DOMAIN value = Entries
       /\ Listed * BlockSize \in Index
  <2>1. Listed \in Int
    BY <1>4
  <2>2. Entry(Listed) \in Entries
    BY <1>8, <2>1, EntryFacts
  <2> QED
    BY <1>4, <1>8, <2>2, BlockInRange DEF RingOK, RingTyped, Inserting, EnqOK
<1>11. value'[Entry(Listed)] = enq.fresh /\ \A e : e # Entry(Listed) => value'[e] = value[e]
  BY <1>2, <1>10
<1>12. \A m \in Nat : m < Listed /\ Live(m) => Entry(m) # Entry(Listed)
  BY <1>8, ListedApart
<1>13. EnqOK'
  <2>1. /\ Filled \in Nat /\ enq.count \in Nat /\ Filled + enq.count <= MaxEnqueued
        /\ MaxEnqueued \in Nat /\ BlockSize \in Nat \ {0} /\ Numbers \in Nat
    BY Basics DEF ShareIInv, EnqueueFits
  <2>2. enq.count \in Nat \ {0}
    <3>1. PICK z \in Nat : z = Listed * BlockSize
      BY <1>4, WithinValue
    <3>2. z < Filled + enq.count
      BY <1>10, <3>1
    <3>3. Filled <= z
      <4>1. /\ Committed * BlockSize \in Nat /\ Filled <= Committed * BlockSize
        BY CommittedValue
      <4>2. Committed * BlockSize <= z
        <5>1. CASE Committed < Listed
          <6>1. Committed * BlockSize + BlockSize <= Listed * BlockSize
            BY <1>4, <2>1, <5>1, Multiples
          <6> QED
            BY <2>1, <3>1, <4>1, <6>1
        <5> QED
          BY <1>4, <3>1, <4>1, <5>1
      <4> QED
        BY <2>1, <4>1, <4>2
    <3> QED
      BY <2>1, <3>2, <3>3
  <2>3. PICK d \in Nat : /\ d * BlockSize < Filled + enq.count
                         /\ Filled + enq.count <= d * BlockSize + BlockSize
                         /\ last = BaseOf(d) /\ d * BlockSize \in Index
                         /\ (d + 1) * BlockSize \in Index
    BY <2>1, <2>2, BatchEnd
  <2>4. PICK x \in Nat, y \in Nat : x = d * BlockSize /\ y = Listed * BlockSize
    BY <1>4, <2>3, WithinValue
  <2>5. (d + 1) * BlockSize = x + BlockSize /\ (Listed + 1) * BlockSize = y + BlockSize
    BY <1>4, <2>3, <2>4, WithinValue
  <2>6. Listed <= d
    <3>1. ASSUME d < Listed PROVE FALSE
      <4>2. d \in Int /\ Listed \in Int /\ BlockSize \in Nat \ {0}
        BY <1>4, <2>1
      <4>1. d * BlockSize + BlockSize <= Listed * BlockSize
        BY <3>1, <4>2, Multiples
      <4> QED
        BY <1>10, <2>1, <2>3, <2>4, <4>1
    <3> QED
      BY <1>4, <2>3, <3>1
  <2>7. more <=> Listed # d
    BY <1>1, <1>4, <1>10, <2>3, BaseSame
  <2>8. more => y + BlockSize < Filled + enq.count
    <3>1. ASSUME more PROVE Listed * BlockSize + BlockSize <= d * BlockSize
      <4>1. Listed < d
        BY <1>4, <2>3, <2>6, <2>7, <3>1
      <4>2. d \in Int /\ Listed \in Int /\ BlockSize \in Nat \ {0}
        BY <1>4, <2>1
      <4> QED
        BY <4>1, <4>2, Multiples
    <3> QED
      BY <2>1, <2>3, <2>4, <3>1
  <2>9. ~more => Filled + enq.count <= y + BlockSize /\ y + BlockSize < Filled + enq.count + BlockSize
    <3>1. ASSUME ~more PROVE x = y
      BY <2>4, <2>7, <3>1
    <3>2. x < Filled + enq.count /\ Filled + enq.count <= x + BlockSize
      BY <2>3, <2>4
    <3> QED
      BY <2>1, <2>4, <3>1, <3>2
  <2>10. (Listed * BlockSize < MaxEnqueued + BlockSize)'
    <3>1. y + BlockSize < MaxEnqueued + BlockSize
      BY <2>1, <2>4, <2>8, <2>9
    <3> QED
      BY <1>7, <2>5, <3>1
  <2>11. more => enq'.base = BaseOf(Listed + 1) /\ Plus(enq.base, BlockSize) = BaseOf(Listed + 1)
    <3>3. Listed \in Int /\ 1 \in Int
      BY <1>4
    <3>1. (BaseOf(Listed) + 1 * BlockSize) % Numbers = BaseOf(Listed + 1)
      BY <3>3, BaseNext
    <3>2. 1 * BlockSize = BlockSize
      BY <2>1
    <3> QED
      BY <1>5, <1>10, <3>1, <3>2 DEF Plus
  <2>12. enq'.base \in Index
    <3>1. CASE more
      <4>1. y + BlockSize < Numbers
        BY <2>1, <2>4, <2>8, <3>1, Basics
      <4>2. (Listed + 1) * BlockSize \in Index /\ Listed + 1 \in Nat
        <5>1. y + BlockSize \in Index
          BY <2>1, <2>4, <4>1 DEF Index
        <5> QED
          BY <1>4, <2>5, <5>1
      <4> QED
        BY <2>11, <3>1, <4>2, BaseOfValue
    <3>2. CASE ~more
      BY <1>4, <1>5, <3>2
    <3> QED
      BY <3>1, <3>2
  <2>13. enq' \in EnqueueRecords
    <3>1. enq' = [count |-> enq.count, bulk |-> enq.bulk, base |-> enq'.base,
                  entry |-> enq.entry, fresh |-> NoBlock, chain |-> enq'.chain]
      BY <1>1, <1>3 DEF EnqueueRecords
    <3> QED
      BY <1>3, <1>6, <2>12, <3>1 DEF EnqueueRecords
  <2>14. (ppc = "construct" => /\ Filled + enq.count <= Listed * BlockSize
                               /\ Listed * BlockSize < Filled + enq.count + BlockSize)'
    BY <1>1, <1>5, <1>7, <2>5, <2>9
  <2>15. (ppc = "room" => enq.base = BaseOf(Listed) /\ Listed * BlockSize < Filled + enq.count)'
    BY <1>1, <1>5, <1>7, <2>5, <2>8, <2>11 DEF BaseOf
  <2>16. headers' # << >>
    BY <1>2, <1>8
  <2> QED
    BY <1>2, <1>5, <1>8, <2>10, <2>13, <2>14, <2>15, <2>16 DEF EnqOK, InsertPcs
<1> HIDE DEF last
<1>14. RingOK'
  <2>1. RingTyped'
    <3>1. \A e \in Entries : key'[e] = InvalidBlockBase =>
            key[e] = InvalidBlockBase /\ value'[e] \in {value[e], NoBlock}
      BY <1>2, <1>10, <1>11
    <3>2. DOMAIN key' = Entries /\ DOMAIN value' = Entries
      BY <1>2, <1>10
    <3> QED
      BY <1>2, <1>9, <3>1, <3>2, RingTypedStill DEF RingOK, RingTyped
  <2>2. ASSUME NEW m \in Nat, m < Listed', Live(m)
        PROVE  /\ Reach' < m + Capacity(Last)
               /\ \A q \in m .. Listed' - 1 : key'[Entry(q)] = BaseOf(q)
    <3>1. CASE m < Listed
      <4>1. Reach < m + Capacity(Last) /\ \A q \in m .. Listed - 1 : key[Entry(q)] = BaseOf(q)
        BY <2>2, <3>1, LiveWindow
      <4>2. ASSUME NEW q \in m .. Listed' - 1 PROVE key[Entry(q)] = BaseOf(q)
        <5>1. q \in m .. Listed
          BY <1>4, <1>7
        <5>2. q = Listed \/ q \in m .. Listed - 1
          BY <1>4, <5>1
        <5> QED
          BY <1>10, <4>1, <5>2
      <4> QED
        BY <1>2, <1>8, <4>1, <4>2
    <3>2. CASE m = Listed
      <4>1. ASSUME NEW q \in m .. Listed' - 1 PROVE q = Listed
        BY <1>4, <1>7, <3>2
      <4>2. Capacity(Last) \in Nat \ {0}
        BY <1>8, EntryFacts
      <4> QED
        BY <1>2, <1>4, <1>8, <1>10, <3>2, <4>1, <4>2
    <3> QED
      BY <1>4, <1>7, <2>2, <3>1, <3>2
  <2>3. Listed' \in Nat
    BY <1>4, <1>7
  <2>4. RingLive'
    BY <1>2, <1>8, <1>9, <2>2, <2>3, RingLiveStill DEF RingOK
  <2> QED
    BY <1>8, <2>1, <2>4 DEF RingOK, Inserting, Removing
<1>15. OwnersOK'
  <2>1. Freeing' = Freeing /\ call' = call
    BY <1>2, SameClaims DEF ClaimsStill
  <2>2. \A m : ConsumedIn(m)' = ConsumedIn(m) /\ (Live(m)' <=> Live(m))
    BY <1>2, SameClaims
  <2>3. Live(Listed) /\ ConsumedIn(Listed) = {}
    BY <1>4, LivePrepared
  <2>4. LiveNos' = LiveNos \cup {Listed}
    <3>1. Limit = Listed /\ Limit' = Listed + 1
      BY <1>7, <1>8 DEF Limit
    <3>2. \A m : m \in 0 .. Listed <=> m \in 0 .. Listed - 1 \/ m = Listed
      BY <1>4
    <3>3. LiveNos = {m \in 0 .. Listed - 1 : Live(m)}
      BY <3>1 DEF LiveNos
    <3>4. LiveNos' = {m \in 0 .. Listed : Live(m)}
      <4>1. Limit' - 1 = Listed
        BY <1>4, <3>1
      <4> QED
        BY <2>2, <4>1 DEF LiveNos
    <3> QED
      BY <2>3, <3>2, <3>3, <3>4
  <2>5. ASSUME NEW m \in LiveNos
        PROVE  value'[Entry(m)'] = value[Entry(m)] /\ m \in Nat /\ m < Listed
    <3>1. m \in Nat /\ m < Listed /\ Live(m)
      BY <1>4, <1>8 DEF LiveNos, Limit
    <3> QED
      BY <1>9, <1>11, <1>12, <3>1
  <2>6. PICK n \in Nat : n = Listed
    BY <1>4
  <2>7. value'[Entry(n)'] = enq.fresh /\ n \in LiveNos' /\ n = Committed + Len(enq.chain)
    BY <1>4, <1>9, <1>11, <2>4, <2>6
  <2>8. LiveNos' = LiveNos \cup {n} /\ n \notin LiveNos
    BY <2>4, <2>5, <2>6
  <2>9. /\ freeBlocks' = freeBlocks /\ dequeued' = dequeued /\ freeBlocks \subseteq Blocks
        /\ DOMAIN dequeued = Blocks /\ enq.fresh \in Blocks \ freeBlocks
        /\ enq.fresh \notin Chained /\ NoBlock \notin Blocks
    BY <1>2, <1>5, ImplicitAssumption DEF OwnersOK, ImplicitAssumption
  <2>10. ASSUME NEW m \in LiveNos
         PROVE  /\ value[Entry(m)] \in Blocks \ freeBlocks /\ value[Entry(m)] # enq.fresh
                /\ dequeued[value[Entry(m)]] = Cardinality(ConsumedIn(m))
    BY DEF OwnersOK
  <2>11. ASSUME NEW m \in LiveNos'
         PROVE  /\ value'[Entry(m)'] \in Blocks \ freeBlocks' /\ value'[Entry(m)'] # NoBlock
                /\ dequeued'[value'[Entry(m)']] = Cardinality(ConsumedIn(m)')
    <3>1. CASE m = n
      <4>1. ConsumedIn(m)' = {} /\ Cardinality({}) = 0
        BY <2>2, <2>3, <2>6, <3>1, FS_EmptySet
      <4> QED
        BY <1>3, <2>7, <2>9, <3>1, <4>1
    <3>2. CASE m # n
      BY <2>2, <2>5, <2>8, <2>9, <2>10, <3>2
    <3> QED
      BY <3>1, <3>2
  <2>12. ASSUME NEW m \in LiveNos', NEW q \in LiveNos', value'[Entry(m)'] = value'[Entry(q)']
         PROVE  m = q
    <3>1. ASSUME m # n, q # n PROVE m = q
      <4>1. m \in LiveNos /\ q \in LiveNos
        BY <2>8, <3>1
      <4> QED
        BY <2>5, <2>12, <4>1 DEF OwnersOK
    <3>2. ASSUME m = n, q # n PROVE FALSE
      <4>1. q \in LiveNos
        BY <2>8, <3>2
      <4> QED
        BY <2>5, <2>7, <2>10, <2>12, <3>2, <4>1
    <3>3. ASSUME m # n, q = n PROVE FALSE
      <4>1. m \in LiveNos
        BY <2>8, <3>3
      <4> QED
        BY <2>5, <2>7, <2>10, <2>12, <3>3, <4>1
    <3> QED
      BY <3>1, <3>2, <3>3
  <2>13. ASSUME NEW i \in 1 .. Len(enq'.chain)
         PROVE  value'[Entry(Committed + i - 1)'] = enq'.chain[i]
    <3>1. PICK m \in Int : m = Committed + i - 1
      BY <1>4
    <3>2. m = (Committed + i - 1)'
      BY <1>7, <3>1
    <3>3. CASE i = Len(enq.chain) + 1
      <4>1. m = n
        BY <1>4, <2>7, <3>1, <3>3
      <4> QED
        BY <1>6, <2>7, <3>2, <3>3, <4>1
    <3>4. CASE i \in 1 .. Len(enq.chain)
      <4>1. value[Entry(m)] = enq.chain[i]
        BY <1>8, <3>1, <3>4 DEF OwnersOK
      <4>2. m \in Nat /\ m < Listed /\ Committed <= m
        BY <1>4, <3>1, <3>4
      <4>3. m \in LiveNos
        <5>1. m \in 0 .. Listed - 1 /\ Live(m)
          BY <1>4, <4>2, LivePrepared
        <5> QED
          BY <1>8, <5>1 DEF LiveNos, Limit
      <4> QED
        BY <1>6, <2>5, <3>2, <3>4, <4>1, <4>3
    <3>5. i = Len(enq.chain) + 1 \/ i \in 1 .. Len(enq.chain)
      BY <1>4, <1>6
    <3> QED
      BY <3>3, <3>4, <3>5
  <2>14. Chained' = Chained \cup {enq.fresh}
    <3>1. 1 .. Len(enq'.chain) = (1 .. Len(enq.chain)) \cup {Len(enq.chain) + 1}
      BY <1>4, <1>6
    <3> QED
      BY <1>6, <3>1 DEF Chained
  <2>15. ASSUME NEW c \in Freeing'
         PROVE  /\ call'[c].block \in Blocks \ freeBlocks'
                /\ call'[c].block \notin Chained' /\ call'[c].block # enq'.fresh
                /\ \A m \in LiveNos' : value'[Entry(m)'] # call'[c].block
    <3>1. c \in Freeing
      BY <2>1
    <3>2. /\ call[c].block \in Blocks \ freeBlocks
          /\ call[c].block \notin Chained /\ call[c].block # enq.fresh
          /\ \A m \in LiveNos : value[Entry(m)] # call[c].block
      BY <3>1 DEF OwnersOK
    <3> QED
      BY <1>5, <2>1, <2>5, <2>7, <2>8, <2>9, <2>14, <3>2
  <2>16. \A c, d \in Freeing' : call'[d].block = call'[c].block => c = d
    BY <2>1 DEF OwnersOK
  <2>17. /\ Chained' \cap freeBlocks' = {} /\ enq'.fresh \notin freeBlocks'
         /\ enq'.fresh \notin Chained'
    <3>1. Chained \subseteq Blocks /\ Chained \cap freeBlocks = {}
      BY <1>4, <1>5 DEF Chained, OwnersOK
    <3> QED
      BY <1>5, <2>9, <2>14, <3>1
  <2> QED
    BY <1>5, <1>8, <2>9, <2>11, <2>12, <2>13, <2>15, <2>16, <2>17 DEF OwnersOK
<1>16. LookupsOK'
  <2>1. ASSUME NEW c \in Consumers, cpc[c] \in {"slotTail", "slotKey"}, NEW T \in BlockNos,
               Keyed(c, T)
        PROVE  Keyed(c, T)'
    <3>1. T \in Nat
      BY DEF BlockNos
    <3>2. Here(c) \in Nat /\ Here(c) <= Listed
      <4>1. cpc[c] \in LookupPcs \ {"free"}
        BY <2>1 DEF LookupPcs
      <4> QED
        BY <1>4, <4>1, LookupFacts
    <3>3. ASSUME ~(T < Listed'), NEW q \in Listed' .. T PROVE value'[Entry(q)] = NoBlock
      <4>1. q \in Listed .. T /\ q # Listed /\ ~(T < Listed) /\ q \in Int /\ Listed \in Int
        BY <1>4, <1>7, <3>1, <3>3
      <4>2. value[Entry(q)] = NoBlock
        BY <2>1, <4>1 DEF Keyed
      <4>3. q \in Here(c) .. T /\ Listed \in Here(c) .. Reach
        BY <1>4, <1>8, <3>1, <3>2, <4>1
      <4>4. Entry(q) # Entry(Listed)
        BY <2>1, <3>1, <4>1, <4>3, LookupWindow
      <4> QED
        BY <1>11, <4>2, <4>4
    <3> QED
      BY <1>2, <1>8, <1>9, <2>1, <3>3, SameClaims DEF Keyed, BaseOf, Last
  <2>2. ASSUME NEW c \in Consumers, cpc[c] \in {"empty", "unlink"}
        PROVE  value'[Entry(Here(c))] = value[Entry(Here(c))]
    <3>1. cpc[c] \in LookupPcs \ {"free"}
      BY <2>2 DEF LookupPcs
    <3>2. Here(c) \in Nat /\ Here(c) < Listed /\ Live(Here(c))
      BY <1>4, <3>1, LookupFacts
    <3> QED
      BY <1>11, <1>12, <3>2
  <2> QED
    BY <1>2, <1>9, <2>1, <2>2, LookupsStill
<1> QED
  BY <1>13, <1>14, <1>15, <1>16

LEMMA ClearValueStep ==
  ASSUME WindowsFit, ShareIInv, ClaimsOK, StoreOK, ClearValue
  PROVE  StoreOK' /\ SameIndex /\ \A e : value'[e] = value[e]
<1> HIDE DEF Numbers
<1> USE DEF StoreOK
<1>1. /\ ppc = "clear" /\ ppc' = "undo" /\ value' = [value EXCEPT ![enq.entry] = NoBlock]
      /\ UNCHANGED <<tailIndex, enq, headers, key, freeBlocks, dequeued>> /\ ClaimsStill
  BY DEF ClearValue, ProducerGoto, storage, claimVars, counters, ClaimsStill
<1>2. DOMAIN value' = DOMAIN value /\ \A e : value'[e] = value[e]
  <2>1. ppc \in InsertPcs /\ headers # << >>
    BY <1>1 DEF InsertPcs, EnqOK
  <2>2. value[enq.entry] = NoBlock /\ enq.entry = Entry(Listed)
    BY <2>1 DEF RingOK, Inserting
  <2>3. Listed \in Int
    BY ListedFacts
  <2>4. enq.entry \in DOMAIN value
    BY <2>1, <2>2, <2>3, EntryFacts
  <2>5. ASSUME NEW e PROVE value'[e] = value[e]
    BY <1>1, <2>2, <2>4
  <2> QED
    BY <1>1, <2>5
<1>3. /\ Filled' = Filled /\ Committed' = Committed /\ Listed' = Listed /\ enq' = enq
      /\ headers' = headers
  BY <1>1, SameCall
<1>4. ~Undoing /\ ~Undoing' /\ Top' = Top /\ Reach = Listed /\ Reach' = Listed - 1
  BY <1>1, <1>3 DEF Undoing, Top, Reach, InsertPcs
<1>5. EnqOK'
  BY <1>1, <1>3, <1>4 DEF EnqOK, InsertPcs, BaseOf
<1>6. ppc' # "grow" /\ ppc' \notin InsertPcs
  BY <1>1 DEF InsertPcs
<1>7. SameIndex /\ headers' \in Seq(Headers)
  BY <1>3, <1>4, UnmovedIndex DEF RingOK, RingTyped
<1> QED
  BY <1>1, <1>2, <1>3, <1>4, <1>5, <1>6, <1>7, StillStep

\* A step that moves no entry, after which no block is being listed.
LEMMA IndexStill ==
  ASSUME WindowsFit, ShareIInv, ClaimsOK, StoreOK, ClaimsStill, SameIndex,
         headers' \in Seq(Headers), UNCHANGED <<key, value>>,
         NEW n \in Nat, Listed' = n, n <= Listed,
         headers # << >> => \A q \in n .. Listed - 1 : value[Entry(q)] = NoBlock,
         ppc' \notin InsertPcs \cup {"grow"}, Removing'
  PROVE  RingOK' /\ LookupsOK'
<1> HIDE DEF Numbers
<1> USE DEF StoreOK
<1>1. headers # << >> => \A m \in Int : Entry(m)' = Entry(m)
  BY DEF SameIndex
<1>2. Listed \in Nat /\ Reach \in Int /\ Listed - 1 <= Reach
  BY ListedFacts, TopFacts
<1>3. Reach' = n - 1
  BY DEF Reach
<1>4. RingOK'
  <2>1. RingTyped'
    BY RingTypedStill DEF RingOK, RingTyped
  <2>2. ASSUME NEW m \in Nat, m < Listed', Live(m)
        PROVE  /\ Reach' < m + Capacity(Last)
               /\ \A q \in m .. Listed' - 1 : key'[Entry(q)] = BaseOf(q)
    <3>1. m < Listed
      BY <1>2, <2>2
    <3>2. /\ headers # << >> /\ Reach < m + Capacity(Last)
          /\ \A q \in m .. Listed - 1 : key[Entry(q)] = BaseOf(q)
      BY <2>2, <3>1, LiveWindow
    <3>3. Capacity(Last) \in Nat
      BY <3>2, EntryFacts
    <3>4. n - 1 < m + Capacity(Last)
      BY <1>2, <3>2, <3>3
    <3>5. \A q \in m .. n - 1 : q \in m .. Listed - 1
      BY <1>2
    <3> QED
      BY <1>3, <3>2, <3>4, <3>5
  <2>3. Listed' > 0 => headers # << >>
    <3>1. headers = << >> => Listed = 0
      BY DEF EnqOK
    <3> QED
      BY <3>1
  <2>4. RingLive'
    BY <2>2, <2>3, RingLiveStill DEF RingOK
  <2> QED
    BY <2>1, <2>4 DEF RingOK, Inserting
<1>5. LookupsOK'
  <2>1. ASSUME NEW c \in Consumers, NEW T \in BlockNos, Keyed(c, T),
               cpc[c] \in {"slotTail", "slotKey"}
        PROVE  Keyed(c, T)'
    <3>1. headers # << >> /\ Here(c) \in Nat
      <4>1. cpc[c] \in LookupPcs \ {"free"}
        BY <2>1 DEF LookupPcs
      <4> QED
        BY <4>1, LookupFacts
    <3>2. \A m \in Int : Entry(m)' = Entry(m)
      BY <1>1, <3>1
    <3>3. Capacity(Last)' = Capacity(Last)
      BY <3>1, LastStill DEF RingOK
    <3>4. T \in Nat
      BY DEF BlockNos
    <3>5. ASSUME NEW q \in n .. T PROVE value'[Entry(q)'] = NoBlock
      <4>1. CASE q < Listed
        BY <1>2, <3>1, <3>2, <4>1
      <4>2. CASE ~(q < Listed)
        <5>1. ~(T < Listed) /\ q \in Listed .. T
          BY <1>2, <3>4, <4>2
        <5> QED
          BY <2>1, <3>2, <5>1 DEF Keyed
      <4> QED
        BY <4>1, <4>2
    <3>6. LastBlock(c) <= T /\ T < Here(c) + Capacity(Last)
          /\ \A m \in Here(c) .. T : key[Entry(m)] = BaseOf(m)
      BY <2>1 DEF Keyed
    <3>7. \A m \in Here(c) .. T : key'[Entry(m)'] = BaseOf(m)
      BY <3>1, <3>2, <3>6
    <3>8. Here(c)' = Here(c) /\ LastBlock(c)' = LastBlock(c)
      BY SameClaims
    <3> QED
      BY <3>3, <3>5, <3>6, <3>7, <3>8 DEF Keyed, BaseOf
  <2> QED
    BY <2>1, LookupsStill
<1> QED
  BY <1>4, <1>5

\* The blocks that the call has prepared go back to the pool.
LEMMA ReturnedOwners ==
  ASSUME WindowsFit, ShareIInv, EnqOK, OwnersOK, ClaimsStill, dequeued' = dequeued,
         freeBlocks' = freeBlocks \cup Prepared, enq' = NoEnqueue, ppc' = "idle",
         LiveNos' = LiveNos,
         \A m \in LiveNos : value'[Entry(m)'] = value[Entry(m)] /\ value[Entry(m)] \notin Chained
  PROVE  OwnersOK'
<1> HIDE DEF Numbers
<1>1. /\ enq \in EnqueueRecords /\ Len(enq.chain) \in Nat /\ enq.chain \in Seq(Blocks)
      /\ enq.fresh \in Blocks \cup {NoBlock} /\ NoBlock \notin Blocks
  BY ListedFacts, ImplicitAssumption DEF EnqOK, EnqueueRecords, ImplicitAssumption
<1>2. Prepared = Chained \cup ({enq.fresh} \ {NoBlock}) /\ Prepared \subseteq Blocks
  BY <1>1 DEF Prepared, Chained
<1>3. enq'.chain = << >> /\ enq'.fresh = NoBlock /\ Chained' = {} /\ ~Undoing'
  BY DEF NoEnqueue, Chained, Undoing
<1>4. Freeing' = Freeing /\ call' = call /\ \A m : ConsumedIn(m)' = ConsumedIn(m)
  BY SameClaims DEF ClaimsStill
<1>5. freeBlocks \subseteq Blocks /\ DOMAIN dequeued = Blocks
  BY DEF OwnersOK
<1>6. freeBlocks' \subseteq Blocks /\ DOMAIN dequeued' = Blocks /\ NoBlock \notin freeBlocks'
  BY <1>1, <1>2, <1>5
<1>7. ASSUME NEW m \in LiveNos'
      PROVE  /\ value'[Entry(m)'] \in Blocks \ freeBlocks' /\ value'[Entry(m)'] # enq'.fresh
             /\ dequeued'[value'[Entry(m)']] = Cardinality(ConsumedIn(m)')
  <2>1. /\ value[Entry(m)] \in Blocks \ freeBlocks /\ value[Entry(m)] # enq.fresh
        /\ dequeued[value[Entry(m)]] = Cardinality(ConsumedIn(m))
        /\ value'[Entry(m)'] = value[Entry(m)] /\ value[Entry(m)] \notin Chained
    BY <1>7 DEF OwnersOK
  <2> QED
    BY <1>1, <1>2, <1>3, <1>4, <2>1
<1>8. \A m, q \in LiveNos' : value'[Entry(m)'] = value'[Entry(q)'] => m = q
  BY DEF OwnersOK
<1>9. ASSUME NEW c \in Freeing'
      PROVE  /\ call'[c].block \in Blocks \ freeBlocks'
             /\ call'[c].block # enq'.fresh
             /\ \A m \in LiveNos' : value'[Entry(m)'] # call'[c].block
  <2>1. /\ call[c].block \in Blocks \ freeBlocks
        /\ call[c].block \notin Chained /\ call[c].block # enq.fresh
        /\ \A m \in LiveNos : value[Entry(m)] # call[c].block
    BY <1>4, <1>9 DEF OwnersOK
  <2> QED
    BY <1>1, <1>2, <1>3, <1>4, <2>1
<1>10. \A c, d \in Freeing' : call'[d].block = call'[c].block => c = d
  BY <1>4 DEF OwnersOK
<1>11. 1 .. Len(enq'.chain) = {}
  BY <1>3
<1> QED
  BY <1>3, <1>6, <1>7, <1>8, <1>9, <1>10, <1>11 DEF OwnersOK

LEMMA EndedCall ==
  ASSUME WindowsFit, ShareIInv, EnqOK, tailIndex' = tailIndex, enq' = NoEnqueue, ppc' = "idle",
         (headers = << >>)' => headers = << >>
  PROVE  EnqOK' /\ Listed' = Committed
<1> HIDE DEF Numbers
<1>1. Committed' = Committed /\ Committed \in Nat /\ Committed <= Listed /\ Listed \in Nat
  BY SameTail, ListedFacts
<1>2. enq'.chain = << >> /\ enq'.fresh = NoBlock
  BY DEF NoEnqueue
<1>3. Listed' = Committed
  BY <1>1, <1>2 DEF Listed
<1>4. enq' \in EnqueueRecords
  BY HalfRange DEF NoEnqueue, EnqueueRecords, Index
<1>5. (headers = << >> => Listed = 0)'
  <2>1. headers = << >> => Listed = 0
    BY DEF EnqOK
  <2> QED
    BY <1>1, <1>3, <2>1
<1>6. Committed * BlockSize < MaxEnqueued + BlockSize
  BY CommittedValue, Basics
<1> QED
  BY <1>2, <1>3, <1>4, <1>5, <1>6 DEF EnqOK, InsertPcs, Undoing

LEMMA UndoStep ==
  ASSUME WindowsFit, ShareIInv, ClaimsOK, StoreOK, Undo
  PROVE  StoreOK' /\ Top' = Top /\ Limit' = Committed
<1> HIDE DEF Numbers
<1> USE DEF StoreOK
<1>1. ppc = "undo" /\ UNCHANGED <<tailIndex, headers, key, value, dequeued>> /\ ClaimsStill
  BY DEF Undo, claimVars, counters, ClaimsStill, indexVars
<1>2. headers' = headers /\ headers' \in Seq(Headers) /\ key' = key /\ value' = value
  BY <1>1 DEF RingOK, RingTyped
<1>3. /\ Listed \in Nat /\ Committed \in Nat /\ Committed <= Listed
      /\ Listed = Committed + Len(enq.chain) /\ Len(enq.chain) \in Nat
      /\ enq \in EnqueueRecords
  BY ListedFacts DEF EnqOK
<1>4. ~Undoing /\ Top = Listed - 1 /\ Limit = Listed
  BY <1>1 DEF Undoing, Top, Limit
<1>5. Filled' = Filled /\ Committed' = Committed
  BY <1>1, SameTail
<1>6. CASE enq.chain = << >>
  <2>1. freeBlocks' = freeBlocks \cup Prepared /\ enq' = NoEnqueue /\ ppc' = "idle"
    BY <1>6 DEF Undo, EndCall, ProducerGoto
  <2>2. Listed = Committed /\ Chained = {}
    BY <1>3, <1>6 DEF Chained
  <2>3. EnqOK' /\ Listed' = Listed
    BY <1>1, <1>2, <2>1, <2>2, EndedCall
  <2>4. ~Undoing' /\ Top' = Top /\ Limit' = Limit
    BY <1>4, <2>1, <2>3 DEF Undoing, Top, Limit
  <2>5. SameIndex /\ \A m : Entry(m)' = Entry(m)
    BY <1>2, <2>4, UnmovedIndex
  <2>6. LiveNos' = LiveNos
    BY <1>1, <2>4, SameClaims DEF LiveNos
  <2>7. OwnersOK'
    BY <1>1, <1>2, <2>1, <2>2, <2>5, <2>6, ReturnedOwners
  <2>8. PICK n \in Nat : n = Listed
    BY <1>3
  <2>9. \A q \in n .. Listed - 1 : FALSE
    BY <2>8
  <2>10. ppc' \notin InsertPcs \cup {"grow"} /\ Removing'
    BY <2>1, <2>4 DEF InsertPcs, Removing
  <2>11. Listed' = n /\ n <= Listed
    BY <2>3, <2>8
  <2>12. RingOK' /\ LookupsOK'
    BY <1>1, <1>2, <2>5, <2>9, <2>10, <2>11, IndexStill
  <2> QED
    BY <1>4, <2>2, <2>3, <2>4, <2>7, <2>12
<1>7. CASE enq.chain # << >>
  <2>1. /\ enq' = [enq EXCEPT !.base = BaseOf(Committed)] /\ ppc' = "unlink"
        /\ freeBlocks' = freeBlocks
    BY <1>7, TailBase DEF Undo, ProducerGoto
  <2>2. Len(enq.chain) > 0
    BY <1>3, <1>7 DEF EnqueueRecords
  <2>3. BaseOf(Committed) \in Index /\ BlockNo(BaseOf(Committed)) = Committed
    BY <1>3, BlockInRange
  <2>4. /\ enq' \in EnqueueRecords /\ enq'.chain = enq.chain /\ enq'.fresh = enq.fresh
        /\ enq'.base = BaseOf(Committed)
    BY <1>3, <2>1, <2>3 DEF EnqueueRecords
  <2>5. Listed' = Listed
    BY <1>3, <1>5, <2>4 DEF Listed
  <2>6. BlockNo(enq'.base) = Committed /\ BaseOf(BlockNo(enq'.base)) = enq'.base
    BY <2>3, <2>4
  <2>7. Undoing' /\ Gone' = 0 /\ Top' = Top /\ Limit' = Committed
    <3>1. Undoing' /\ Limit' = Committed
      BY <1>5, <2>1 DEF Undoing, Limit
    <3>2. Gone' = Committed - Committed
      BY <1>5, <2>6 DEF Gone, BlockNo, Number
    <3>3. Gone' = 0
      BY <1>3, <3>2
    <3>4. Top' = Listed - 1
      BY <1>3, <2>1, <2>5, <3>1, <3>3 DEF Top
    <3> QED
      BY <1>4, <3>1, <3>3, <3>4
  <2>8. SameIndex /\ \A m : Entry(m)' = Entry(m)
    BY <1>2, <2>7, UnmovedIndex
  <2>9. EnqOK'
    <3>1. (BlockNo(enq.base) \in Committed .. Listed - 1 /\ enq.base = BaseOf(BlockNo(enq.base)))'
      <4>1. Committed \in Committed .. Listed - 1
        BY <1>3, <2>2
      <4> QED
        BY <1>5, <2>4, <2>5, <2>6, <4>1 DEF BaseOf, BlockNo, Number
    <3>2. (Listed * BlockSize < MaxEnqueued + BlockSize)'
      BY <2>5 DEF EnqOK
    <3>3. (headers = << >> => Listed = 0)'
      BY <1>2, <2>5 DEF EnqOK
    <3> QED
      BY <2>1, <2>4, <3>1, <3>2, <3>3 DEF EnqOK, InsertPcs
  <2>10. Removing'
    <3>1. ASSUME NEW q \in Committed .. Listed - 1 PROVE ~(q < Committed)
      BY <1>3
    <3> QED
      BY <1>5, <2>1, <2>5, <2>6, <3>1 DEF Removing, BlockNo, Number
  <2>11. RingOK' /\ LookupsOK'
    <3>1. PICK n \in Nat : n = Listed
      BY <1>3
    <3>2. \A q \in n .. Listed - 1 : FALSE
      BY <3>1
    <3>3. Listed' = n /\ n <= Listed /\ ppc' \notin InsertPcs \cup {"grow"}
      BY <2>1, <2>5, <3>1 DEF InsertPcs
    <3> QED
      BY <1>1, <1>2, <2>8, <2>10, <3>2, <3>3, IndexStill
  <2>12. OwnersOK'
    <3>1. LiveNos' = {m \in LiveNos : m < Committed}
      <4>1. Limit' = Committed
        BY <2>7
      <4>2. \A m : m \in 0 .. Committed - 1 <=> m \in 0 .. Listed - 1 /\ m < Committed
        BY <1>3
      <4>3. \A m : Live(m)' <=> Live(m)
        BY <1>1, SameClaims
      <4> QED
        BY <1>4, <4>1, <4>2, <4>3 DEF LiveNos
    <3>2. ASSUME NEW m \in LiveNos, m < Committed PROVE value[Entry(m)] \notin Chained
      <4>1. ASSUME NEW i \in 1 .. Len(enq.chain) PROVE value[Entry(m)] # enq.chain[i]
        <5>1. PICK q \in Nat : q = Committed + i - 1
          BY <1>3
        <5>2. q \in 0 .. Listed - 1 /\ Committed <= q
          BY <1>3, <5>1
        <5>3. q \in LiveNos
          BY <1>4, <5>1, <5>2, LivePrepared DEF LiveNos
        <5>4. value[Entry(q)] = enq.chain[i]
          BY <1>4, <5>1 DEF OwnersOK
        <5>5. q # m
          BY <1>3, <3>2, <5>2
        <5>6. \A x, y \in LiveNos : value[Entry(x)] = value[Entry(y)] => x = y
          BY DEF OwnersOK
        <5> QED
          BY <3>2, <5>3, <5>4, <5>5, <5>6
      <4> QED
        BY <4>1 DEF Chained
    <3>3. Freeing' = Freeing /\ call' = call /\ \A m : ConsumedIn(m)' = ConsumedIn(m)
      BY <1>1, SameClaims DEF ClaimsStill
    <3>4. Chained' = Chained /\ enq'.fresh = enq.fresh /\ freeBlocks' = freeBlocks
      BY <2>1, <2>4 DEF Chained
    <3>5. \A m \in LiveNos' : m \in LiveNos /\ value'[Entry(m)'] = value[Entry(m)]
                              /\ value[Entry(m)] \notin Chained
      BY <1>2, <2>8, <3>1, <3>2
    <3>6. /\ \A m \in LiveNos' : value'[Entry(m)'] \in Blocks \ freeBlocks'
          /\ \A m \in LiveNos' : dequeued'[value'[Entry(m)']] = Cardinality(ConsumedIn(m)')
          /\ \A m \in LiveNos' : value'[Entry(m)'] # enq'.fresh
          /\ \A m \in LiveNos' : value'[Entry(m)'] \notin Chained'
      BY <1>1, <3>3, <3>4, <3>5 DEF OwnersOK
    <3>7. \A m, q \in LiveNos' : value'[Entry(m)'] = value'[Entry(q)'] => m = q
      BY <3>5 DEF OwnersOK
    <3>8. \A c \in Freeing' : /\ call'[c].block \in Blocks \ freeBlocks'
                              /\ call'[c].block \notin Chained' /\ call'[c].block # enq'.fresh
                              /\ \A m \in LiveNos' : value'[Entry(m)'] # call'[c].block
      BY <3>3, <3>4, <3>5 DEF OwnersOK
    <3>9. \A c, d \in Freeing' : call'[d].block = call'[c].block => c = d
      BY <3>3 DEF OwnersOK
    <3>10. /\ Chained' \cap freeBlocks' = {} /\ enq'.fresh \notin freeBlocks'
           /\ enq'.fresh \notin Chained' /\ freeBlocks' \subseteq Blocks
           /\ DOMAIN dequeued' = Blocks
      BY <1>1, <3>4 DEF OwnersOK
    <3> QED
      BY <2>7, <3>6, <3>7, <3>8, <3>9, <3>10 DEF OwnersOK
  <2> QED
    BY <2>7, <2>9, <2>11, <2>12
<1> QED
  BY <1>6, <1>7

\* What is needed of a block to be among those that the run may come to.
LEMMA BlockNumber ==
  ASSUME WindowsFit, NEW m \in Nat, m * BlockSize < MaxEnqueued
  PROVE  m \in BlockNos
<1> HIDE DEF Numbers
<1>1. MaxEnqueued \in Nat /\ BlockSize \in Nat \ {0}
  BY HalfRange, BlockFacts
<1>2. PICK x \in Nat : x = m * BlockSize
  BY <1>1
<1>5. m <= MaxEnqueued
  <2>1. m <= x
    <3>1. CASE m = 0
      BY <1>2, <3>1
    <3>2. CASE m > 0
      <4>1. 1 * m <= BlockSize * m
        <5>1. PICK k \in Nat : BlockSize = 1 + k
          <6>1. BlockSize - 1 \in Nat /\ BlockSize = 1 + (BlockSize - 1)
            BY <1>1
          <6> QED
            BY <6>1
        <5>2. (1 + k) * m = 1 * m + k * m
          BY Distribute
        <5>3. k * m \in Nat /\ 1 * m \in Nat
          OBVIOUS
        <5> QED
          BY <5>1, <5>2, <5>3
      <4>2. BlockSize * m = m * BlockSize /\ 1 * m = m
        BY <1>1
      <4> QED
        BY <1>2, <4>1, <4>2
    <3> QED
      BY <3>1, <3>2
  <2> QED
    BY <1>1, <1>2, <2>1
<1> QED
  BY <1>1, <1>5 DEF BlockNos

\* The numbers of blocks that have been prepared are within half the range.
LEMMA BlockNear ==
  ASSUME WindowsFit, ShareIInv, EnqOK, NEW m \in Nat, m < Listed
  PROVE  m * BlockSize \in Nat /\ m * BlockSize < Numbers \div 2 /\ m * BlockSize < MaxEnqueued
         /\ m \in BlockNos
<1> HIDE DEF Numbers
<1>1. /\ Listed \in Nat /\ Listed * BlockSize \in Nat /\ BlockSize \in Nat \ {0, 1}
      /\ Listed * BlockSize < MaxEnqueued + BlockSize
      /\ MaxEnqueued \in Nat /\ MaxEnqueued < Numbers \div 2 /\ Numbers \div 2 \in Nat
  BY ListedFacts, Basics
<1>2. PICK x \in Nat, y \in Nat : x = m * BlockSize /\ y = Listed * BlockSize
  BY <1>1, WithinValue
<1>3. x + BlockSize <= y
  <2>1. m \in Int /\ Listed \in Int /\ BlockSize \in Nat \ {0}
    BY <1>1
  <2>2. m * BlockSize + BlockSize <= Listed * BlockSize
    BY <1>1, <2>1, Multiples
  <2> QED
    BY <1>2, <2>2
<1>4. x < MaxEnqueued /\ x < Numbers \div 2
  BY <1>1, <1>2, <1>3
<1>5. m \in BlockNos
  BY <1>2, <1>4, BlockNumber
<1> QED
  BY <1>1, <1>2, <1>4, <1>5

\* get_block_index_index_for_index finds the entry of a block from a slot whose block
\* it knows.
LEMMA SlotValue ==
  ASSUME WindowsFit, NEW h \in Headers, NEW t \in DOMAIN h.index,
         NEW i \in Index, Number(i) < Numbers \div 2,
         NEW m \in Nat, m * BlockSize < Numbers \div 2
  PROVE  SlotFor(h, t, BaseOf(m), i) = (t + (BlockNo(i) - m)) % Capacity(h)
<1> HIDE DEF Numbers
<1>1. BlockOffset(BaseOf(m), i) = BlockNo(i) - m
  BY OffsetValue
<1> QED
  BY <1>1 DEF SlotFor

\* The producer finds the entries of the blocks that it takes back.
LEMMA EntryForValue ==
  ASSUME WindowsFit, ShareIInv, EnqOK, RingOK, Undoing
  PROVE  /\ headers # << >> /\ Top \in Committed .. Listed - 1
         /\ EntryFor(enq.base) = Entry(BlockNo(enq.base))
<1> HIDE DEF Numbers
<1>1. /\ Listed \in Nat /\ Committed \in Nat /\ BlockNo(enq.base) \in Nat /\ enq.base \in Index
  BY ListedFacts
<1>2. Top \in Committed .. Listed - 1 /\ BlockNo(enq.base) \in Committed .. Listed - 1
  BY TopFacts DEF EnqOK
<1>3. headers # << >>
  BY <1>1, <1>2 DEF EnqOK
<1>4. /\ Last \in Headers /\ Last.tail \in 0 .. Capacity(Last) - 1
      /\ DOMAIN Last.index = 0 .. Capacity(Last) - 1 /\ Capacity(Last) \in Nat \ {0}
      /\ Origin = Last.tail - Top /\ Origin \in Int
  BY <1>3, EntryFacts
<1>14. PICK t \in 0 .. Capacity(Last) - 1 : t = Last.tail
  BY <1>4
<1>15. Top \in Nat
  BY <1>1, <1>2
<1>16. PICK m \in Nat : m = Top
  BY <1>15
<1>17. PICK b \in Nat : b = BlockNo(enq.base)
  BY <1>1
<1>5. m = Top /\ b = BlockNo(enq.base) /\ t = Last.tail /\ t \in 0 .. Capacity(Last) - 1
  BY <1>14, <1>16, <1>17
<1>6. m < Listed /\ Committed <= m /\ b < Listed
  BY <1>1, <1>2, <1>5
<1>7. Live(m)
  BY <1>1, <1>6, LivePrepared
<1>8. key[Entry(m)] = BaseOf(m)
  <2>1. m \in m .. Listed - 1
    BY <1>1, <1>6
  <2> QED
    BY <1>6, <1>7, <2>1, LiveWindow
<1>9. Last.index[Last.tail] = Entry(m)
  <2>1. Origin + m = t
    BY <1>4, <1>5
  <2>2. t % Capacity(Last) = t
    <3>1. t \in Int
      BY <1>4
    <3> QED
      BY <1>4, <3>1, RingWrap
  <2> QED
    BY <1>5, <2>1, <2>2 DEF Entry
<1>10. m * BlockSize < Numbers \div 2 /\ Number(enq.base) < Numbers \div 2
  <2>1. m * BlockSize < Numbers \div 2 /\ b * BlockSize < Numbers \div 2
    BY <1>6, BlockNear
  <2>2. Number(enq.base) = b * BlockSize
    <3>2. b <= Listed
      BY <1>1, <1>6
    <3>1. b * BlockSize \in Index /\ enq.base = BaseOf(b)
      BY <1>5, <3>2, BlockInRange DEF EnqOK
    <3> QED
      BY <3>1, BaseOfValue
  <2> QED
    BY <2>1, <2>2
<1>11. SlotFor(Last, t, BaseOf(m), enq.base) = (t + (b - m)) % Capacity(Last)
  <2>1. t \in DOMAIN Last.index
    BY <1>4
  <2>2. SlotFor(Last, t, BaseOf(m), enq.base) = (t + (BlockNo(enq.base) - m)) % Capacity(Last)
    BY <1>1, <1>4, <1>10, <2>1, SlotValue
  <2> QED
    BY <1>5, <2>2
<1>12. t + (b - m) = Origin + b
  BY <1>4, <1>5
<1>13. EntryFor(enq.base) = Last.index[(Origin + b) % Capacity(Last)]
  BY <1>5, <1>8, <1>9, <1>11, <1>12 DEF EntryFor
<1> QED
  BY <1>2, <1>3, <1>5, <1>13 DEF Entry

LEMMA UnlinkStep ==
  ASSUME WindowsFit, ShareIInv, ClaimsOK, StoreOK, Unlink
  PROVE  /\ StoreOK' /\ Top' = Top /\ Undoing /\ Limit' = Committed
         /\ \A m \in LiveNos : value'[Entry(m)'] = value[Entry(m)]
<1> HIDE DEF Numbers
<1> USE DEF StoreOK
<1>1. /\ ppc = "unlink" /\ ppc' = "unwind"
      /\ value' = [value EXCEPT ![EntryFor(enq.base)] = NoBlock]
      /\ UNCHANGED <<tailIndex, enq, headers, key, freeBlocks, dequeued>> /\ ClaimsStill
  BY DEF Unlink, ProducerGoto, storage, claimVars, counters, ClaimsStill
<1>2. /\ Filled' = Filled /\ Committed' = Committed /\ Listed' = Listed /\ enq' = enq
      /\ headers' = headers /\ Gone' = Gone /\ BlockNo(enq.base)' = BlockNo(enq.base)
  BY <1>1, SameCall DEF BlockNo, Number
<1>3. /\ Undoing /\ Undoing' /\ Top' = Top /\ Reach = Listed - 1 /\ Reach' = Listed - 1
      /\ Limit = Committed /\ Limit' = Committed
  BY <1>1, <1>2 DEF Undoing, Top, Reach, InsertPcs, Limit
<1>4. SameIndex /\ \A m : Entry(m)' = Entry(m)
  BY <1>2, <1>3, UnmovedIndex
<1>5. PICK b \in Nat : b = BlockNo(enq.base) /\ b \in Committed .. Listed - 1
  BY <1>3, ListedFacts DEF EnqOK
<1>6. value' = [value EXCEPT ![Entry(b)] = NoBlock] /\ headers # << >>
  BY <1>1, <1>3, <1>5, EntryForValue
<1>7. /\ Listed \in Nat /\ Committed \in Nat /\ Entry(b) \in Entries
      /\ DOMAIN key = Entries /\ DOMAIN value = Entries
  <2>1. b \in Int
    BY <1>5
  <2> QED
    BY <1>6, <2>1, ListedFacts, EntryFacts DEF RingOK, RingTyped
<1>8. value'[Entry(b)] = NoBlock /\ \A e : e # Entry(b) => value'[e] = value[e]
  BY <1>6, <1>7
<1>9. \A m \in Nat : m < Committed /\ Live(m) => Entry(m) # Entry(b)
  <2>1. ASSUME NEW m \in Nat, m < Committed, Live(m) PROVE Entry(m) # Entry(b)
    <3>1. /\ m < Listed /\ m \in m .. Reach /\ b \in m .. Reach /\ m \in Int /\ b \in Int
          /\ m # b
      BY <1>3, <1>5, <1>7, <2>1
    <3> QED
      BY <2>1, <3>1, LiveWindow
  <2> QED
    BY <2>1
<1>10. EnqOK'
  BY <1>1, <1>2, <1>3 DEF EnqOK, InsertPcs, BaseOf
<1>11. RingOK'
  <2>1. RingTyped'
    <3>1. \A e \in Entries : key'[e] = InvalidBlockBase =>
            key[e] = InvalidBlockBase /\ value'[e] \in {value[e], NoBlock}
      BY <1>1, <1>8
    <3>2. DOMAIN key' = Entries /\ DOMAIN value' = Entries
      BY <1>1, <1>6, <1>7
    <3> QED
      BY <1>1, <1>2, <1>4, <3>1, <3>2, RingTypedStill DEF RingOK, RingTyped
  <2>2. RingLive'
    <3>1. ASSUME NEW m \in Nat, m < Listed', Live(m)
          PROVE  /\ Reach' < m + Capacity(Last)
                 /\ \A q \in m .. Listed' - 1 : key'[Entry(q)] = BaseOf(q)
      <4>1. m < Listed
        BY <1>2, <3>1
      <4>2. Reach < m + Capacity(Last) /\ \A q \in m .. Listed - 1 : key[Entry(q)] = BaseOf(q)
        BY <3>1, <4>1, LiveWindow
      <4> QED
        BY <1>1, <1>2, <1>3, <4>2
    <3> QED
      BY <1>1, <1>2, <1>4, <1>6, <1>7, <3>1, RingLiveStill DEF RingOK
  <2>3. Inserting'
    BY <1>1 DEF Inserting, InsertPcs
  <2>4. Removing'
    <3>1. ASSUME NEW q \in Committed .. Listed - 1, q < b \/ q = b
          PROVE  value'[Entry(q)'] = NoBlock
      <4>1. CASE q = b
        BY <1>4, <1>8, <4>1
      <4>2. CASE q < b
        <5>1. value[Entry(q)] = NoBlock
          BY <1>3, <1>5, <4>2 DEF RingOK, Removing
        <5> QED
          BY <1>4, <1>8, <5>1
      <4> QED
        BY <3>1, <4>1, <4>2
    <3> QED
      BY <1>2, <1>5, <3>1 DEF Removing
  <2> QED
    BY <2>1, <2>2, <2>3, <2>4 DEF RingOK
<1>14. ASSUME NEW m \in LiveNos PROVE value'[Entry(m)'] = value[Entry(m)]
  <2>1. m \in Nat /\ m < Committed /\ Live(m)
    BY <1>3, <1>7, <1>14 DEF LiveNos
  <2> QED
    BY <1>4, <1>8, <1>9, <2>1
<1>12. OwnersOK'
  BY <1>1, <1>2, <1>3, <1>14, OwnersStill
<1>13. LookupsOK'
  <2>1. ASSUME NEW c \in Consumers, cpc[c] \in {"slotTail", "slotKey"}, NEW T \in BlockNos,
               Keyed(c, T)
        PROVE  Keyed(c, T)'
    <3>1. \A e : value[e] = NoBlock => value'[e] = NoBlock
      BY <1>8
    <3> QED
      BY <1>1, <1>2, <1>4, <2>1, <3>1, SameClaims DEF Keyed, BaseOf, Last
  <2>2. ASSUME NEW c \in Consumers, cpc[c] \in {"empty", "unlink"}
        PROVE  value'[Entry(Here(c))] = value[Entry(Here(c))]
    <3>1. cpc[c] \in LookupPcs \ {"free"}
      BY <2>2 DEF LookupPcs
    <3>2. Here(c) \in Nat /\ Here(c) < Committed /\ Live(Here(c))
      BY <1>7, <3>1, LookupFacts
    <3> QED
      BY <1>8, <1>9, <3>2
  <2> QED
    BY <1>1, <1>4, <2>1, <2>2, LookupsStill
<1> QED
  BY <1>3, <1>10, <1>11, <1>12, <1>13, <1>14

\* How many blocks the producer has taken back, as it computes it.
LEMMA GoneValue ==
  ASSUME WindowsFit, ShareIInv, EnqOK, Undoing
  PROVE  Minus(enq.base, Base(Minus(tailIndex, 1))) \div BlockSize = Gone + 1
<1> HIDE DEF Numbers
<1>1. /\ Listed \in Nat /\ Committed \in Nat /\ Committed <= Listed
      /\ Listed * BlockSize \in Index /\ BlockSize \in Nat \ {0} /\ Numbers \in Nat \ {0}
  BY ListedFacts, Basics
<1>2. PICK b \in Nat : b = BlockNo(enq.base)
  BY ListedFacts
<1>3. b \in Committed .. Listed - 1 /\ enq.base = BaseOf(b) /\ Gone = b - Committed
  BY <1>2 DEF EnqOK, Gone
<1>4. PICK y \in Int : y = Base(Minus(tailIndex, 1))
  BY TailBase
<1>5. (y + BlockSize) % Numbers = BaseOf(Committed)
  BY <1>4, TailBase DEF Plus
<1>6. PICK j \in Nat : j = b - Committed + 1
  BY <1>1, <1>3
<1>7. PICK x \in Nat : x = j * BlockSize
  BY <1>1, <1>6
<1>8. PICK z \in Int : z = (b - Committed) * BlockSize
  <2>1. b - Committed \in Int
    BY <1>1
  <2> QED
    BY <1>1, <2>1
<1>9. z + BlockSize = x
  <2>1. b - Committed \in Int /\ 1 \in Int /\ BlockSize \in Int /\ j = (b - Committed) + 1
    BY <1>1, <1>6
  <2>2. ((b - Committed) + 1) * BlockSize = (b - Committed) * BlockSize + 1 * BlockSize
    BY <2>1, Distribute
  <2>3. 1 * BlockSize = BlockSize
    BY <1>1
  <2> QED
    BY <1>7, <1>8, <2>1, <2>2, <2>3
<1>10. BaseOf(b) = (y + x) % Numbers
  <2>1. (BaseOf(Committed) + z) % Numbers = BaseOf(b)
    <3>1. Committed \in Int /\ b - Committed \in Int /\ Committed + (b - Committed) = b
      BY <1>1
    <3>2. (BaseOf(Committed) + (b - Committed) * BlockSize) % Numbers = BaseOf(Committed + (b - Committed))
      BY <3>1, BaseNext
    <3> QED
      BY <1>8, <3>1, <3>2
  <2>2. (((y + BlockSize) % Numbers) + z) % Numbers = ((y + BlockSize) + z) % Numbers
    <3>1. y + BlockSize \in Int /\ z \in Int
      BY <1>1
    <3> QED
      BY <1>1, <3>1, RingShift
  <2>3. (y + BlockSize) + z = y + x
    BY <1>1, <1>9
  <2> QED
    BY <1>5, <2>1, <2>2, <2>3
<1>11. Minus(enq.base, y) = x
  <2>1. (((y + x) % Numbers) + (-y)) % Numbers = ((y + x) + (-y)) % Numbers
    <3>1. y + x \in Int /\ -y \in Int
      OBVIOUS
    <3> QED
      BY <1>1, <3>1, RingShift
  <2>2. (y + x) + (-y) = x
    OBVIOUS
  <2>3. x < Numbers
    <3>1. PICK w \in Nat : w = Listed * BlockSize
      BY <1>1, WithinValue
    <3>2. j = Listed \/ j < Listed
      BY <1>1, <1>3, <1>6
    <3>3. CASE j = Listed
      BY <1>1, <1>7, <3>3 DEF Index
    <3>4. CASE j < Listed
      <4>1. j \in Int /\ Listed \in Int
        BY <1>1
      <4>2. j * BlockSize + BlockSize <= Listed * BlockSize
        BY <1>1, <3>4, <4>1, Multiples
      <4>3. w < Numbers
        BY <1>1, <3>1 DEF Index
      <4> QED
        BY <1>1, <1>7, <3>1, <4>2, <4>3
    <3> QED
      BY <3>2, <3>3, <3>4
  <2>4. x % Numbers = x
    <3>1. x \in 0 .. Numbers - 1 /\ x \in Int
      BY <1>1, <2>3
    <3> QED
      BY <1>1, <3>1, RingWrap
  <2>5. PICK e \in Int : e = (y + x) % Numbers
    BY <1>1
  <2>6. e - y = e + (-y)
    OBVIOUS
  <2> QED
    BY <1>3, <1>10, <2>1, <2>2, <2>4, <2>5, <2>6 DEF Minus
<1>12. x \div BlockSize = j
  <2>1. x \in j * BlockSize .. j * BlockSize + BlockSize - 1 /\ x \in Int /\ j \in Int
    BY <1>1, <1>7
  <2> QED
    BY <1>1, <2>1, Quotient
<1> QED
  BY <1>3, <1>4, <1>6, <1>11, <1>12

LEMMA UnwindStep ==
  ASSUME WindowsFit, ShareIInv, ClaimsOK, StoreOK, Unwind
  PROVE  StoreOK' /\ SameIndex /\ Limit' = Committed
<1> HIDE DEF Numbers
<1> USE DEF StoreOK
<1>1. /\ ppc = "unwind" /\ SetTail(PrevSlot(Last))
      /\ IF Gone + 1 = Len(enq.chain)
         THEN freeBlocks' = freeBlocks \cup Prepared /\ enq' = NoEnqueue /\ ppc' = "idle"
         ELSE /\ enq' = [enq EXCEPT !.base = Plus(@, BlockSize)] /\ ppc' = "unlink"
              /\ freeBlocks' = freeBlocks
      /\ UNCHANGED <<tailIndex, key, value, dequeued>> /\ ClaimsStill
  <2>1. Undoing
    BY DEF Unwind, Undoing
  <2> QED
    BY <2>1, GoneValue DEF Unwind, EndCall, ProducerGoto, claimVars, counters, ClaimsStill
<1>2. Undoing /\ Reach = Listed - 1 /\ Limit = Committed
  BY <1>1 DEF Undoing, Reach, Limit, InsertPcs
<1>3. /\ Listed \in Nat /\ Committed \in Nat /\ Committed <= Listed
      /\ Listed = Committed + Len(enq.chain) /\ Len(enq.chain) \in Nat
      /\ enq \in EnqueueRecords /\ headers # << >>
      /\ Gone \in 0 .. Len(enq.chain) - 1 /\ Top = Listed - 1 - Gone
  BY <1>2, ListedFacts, TopFacts, EntryForValue DEF EnqOK, Top
<1>4. PICK b \in Nat : b = BlockNo(enq.base)
  BY ListedFacts
<1>5. b \in Committed .. Listed - 1 /\ enq.base = BaseOf(b) /\ Gone = b - Committed
  BY <1>2, <1>4 DEF EnqOK, Gone
<1>6. Filled' = Filled /\ Committed' = Committed
  BY <1>1, SameTail
<1>7. \A q \in Committed .. Listed - 1 : q <= b => value[Entry(q)] = NoBlock
  BY <1>1, <1>2, <1>4, <1>5 DEF RingOK, Removing
<1>8. ASSUME Top' = Top - 1 PROVE SameIndex /\ headers' \in Seq(Headers) /\ headers' # << >>
  <2>1. PICK d \in Int : d = -1
    OBVIOUS
  <2>2. Last.tail \in 0 .. Capacity(Last) - 1 /\ Top \in Int /\ Len(headers) \in Nat \ {0}
        /\ Capacity(Last) \in Nat \ {0}
    BY <1>3, EntryFacts
  <2>3. Last.tail - 1 = Last.tail + d /\ Top' = Top + d
    BY <1>8, <2>1, <2>2
  <2>4. SetTail((Last.tail + d) % Capacity(Last))
    BY <1>1, <2>3 DEF PrevSlot
  <2>5. SameIndex /\ headers' \in Seq(Headers)
    BY <1>3, <2>3, <2>4, MovedTail
  <2>6. Len(headers') = Len(headers)
    BY <2>5 DEF SameIndex
  <2> QED
    BY <2>2, <2>5, <2>6
<1>9. CASE Gone + 1 = Len(enq.chain)
  <2>1. freeBlocks' = freeBlocks \cup Prepared /\ enq' = NoEnqueue /\ ppc' = "idle"
    BY <1>1, <1>9
  <2>2. Listed' = Committed
    <3>1. enq'.chain = << >>
      BY <2>1 DEF NoEnqueue
    <3> QED
      BY <1>3, <1>6, <3>1 DEF Listed
  <2>3. Top' = Top - 1 /\ ~Undoing' /\ Limit' = Committed
    <3>1. ~Undoing' /\ Top' = Listed' - 1 /\ Limit' = Listed'
      BY <2>1 DEF Undoing, Top, Limit
    <3>2. Committed - 1 = Top - 1
      BY <1>3, <1>9
    <3> QED
      BY <2>2, <3>1, <3>2
  <2>4. SameIndex /\ headers' \in Seq(Headers) /\ headers' # << >>
    BY <1>8, <2>3
  <2>5. EnqOK'
    BY <1>1, <2>1, <2>4, EndedCall
  <2>6. b = Listed - 1
    BY <1>3, <1>5, <1>9
  <2>7. RingOK' /\ LookupsOK'
    <3>1. PICK n \in Nat : n = Committed
      BY <1>3
    <3>2. \A q \in n .. Listed - 1 : value[Entry(q)] = NoBlock
      BY <1>3, <1>7, <2>6, <3>1
    <3>3. Listed' = n /\ n <= Listed /\ ppc' \notin InsertPcs \cup {"grow"} /\ Removing'
      BY <1>3, <2>1, <2>2, <2>3, <3>1 DEF InsertPcs, Removing
    <3> QED
      BY <1>1, <2>4, <3>2, <3>3, IndexStill
  <2>8. OwnersOK'
    <3>1. LiveNos' = LiveNos
      BY <1>1, <1>2, <2>3, SameClaims DEF LiveNos
    <3>2. ASSUME NEW m \in LiveNos
          PROVE  value'[Entry(m)'] = value[Entry(m)] /\ value[Entry(m)] \notin Chained
      <4>1. m \in Int
        BY <1>2, <1>3, <3>2 DEF LiveNos
      <4>2. Entry(m)' = Entry(m)
        BY <1>3, <2>4, <4>1 DEF SameIndex
      <4> QED
        BY <1>1, <1>2, <3>2, <4>2 DEF OwnersOK
    <3> QED
      BY <1>1, <2>1, <3>1, <3>2, ReturnedOwners
  <2> QED
    BY <2>3, <2>4, <2>5, <2>7, <2>8
<1>10. CASE Gone + 1 # Len(enq.chain)
  <2>1. /\ enq' = [enq EXCEPT !.base = Plus(@, BlockSize)] /\ ppc' = "unlink"
        /\ freeBlocks' = freeBlocks
    BY <1>1, <1>10
  <2>2. PICK a \in Nat : a = b + 1
    OBVIOUS
  <2>3. a \in Committed .. Listed - 1
    BY <1>3, <1>5, <1>10, <2>2
  <2>4. BaseOf(a) \in Index /\ BlockNo(BaseOf(a)) = a
    <3>1. a <= Listed
      BY <1>3, <2>3
    <3> QED
      BY <3>1, BlockInRange
  <2>5. Plus(enq.base, BlockSize) = BaseOf(a)
    <3>1. b \in Int /\ 1 \in Int
      OBVIOUS
    <3>2. (BaseOf(b) + 1 * BlockSize) % Numbers = BaseOf(b + 1)
      BY <3>1, BaseNext
    <3>3. 1 * BlockSize = BlockSize
      BY BlockFacts
    <3> QED
      BY <1>5, <2>2, <3>2, <3>3 DEF Plus
  <2>6. /\ enq' \in EnqueueRecords /\ enq'.chain = enq.chain /\ enq'.fresh = enq.fresh
        /\ enq'.base = BaseOf(a)
    BY <1>3, <2>1, <2>4, <2>5 DEF EnqueueRecords
  <2>7. Listed' = Listed
    BY <1>3, <1>6, <2>6 DEF Listed
  <2>8. BlockNo(enq'.base) = a /\ BaseOf(BlockNo(enq'.base)) = enq'.base
    BY <2>4, <2>6
  <2>9. Undoing' /\ Top' = Top - 1 /\ Limit' = Committed
    <3>1. Undoing' /\ Limit' = Committed
      BY <1>6, <2>1 DEF Undoing, Limit
    <3>2. Gone' = a - Committed
      BY <1>6, <2>8 DEF Gone, BlockNo, Number
    <3>3. Top' = Listed - 1 - (a - Committed)
      BY <2>1, <2>7, <3>1, <3>2 DEF Top
    <3>4. Listed - 1 - (a - Committed) = Top - 1
      BY <1>3, <1>5, <2>2
    <3> QED
      BY <3>1, <3>3, <3>4
  <2>10. SameIndex /\ headers' \in Seq(Headers) /\ headers' # << >>
    BY <1>8, <2>9
  <2>11. EnqOK'
    <3>1. (BlockNo(enq.base) \in Committed .. Listed - 1 /\ enq.base = BaseOf(BlockNo(enq.base)))'
      BY <1>6, <2>3, <2>6, <2>7, <2>8 DEF BaseOf, BlockNo, Number
    <3>2. (Listed * BlockSize < MaxEnqueued + BlockSize)'
      BY <2>7 DEF EnqOK
    <3> QED
      BY <2>1, <2>6, <2>10, <3>1, <3>2 DEF EnqOK, InsertPcs
  <2>12. Removing'
    <3>1. ASSUME NEW q \in Committed .. Listed - 1, q < a PROVE value'[Entry(q)'] = NoBlock
      <4>1. q \in Int /\ q <= b
        BY <1>3, <1>5, <2>2, <3>1
      <4>2. Entry(q)' = Entry(q)
        BY <1>3, <2>10, <4>1 DEF SameIndex
      <4> QED
        BY <1>1, <1>7, <4>1, <4>2
    <3> QED
      BY <1>6, <2>1, <2>7, <2>8, <3>1 DEF Removing, BlockNo, Number
  <2>13. RingOK' /\ LookupsOK'
    <3>1. PICK n \in Nat : n = Listed
      BY <1>3
    <3>2. \A q \in n .. Listed - 1 : FALSE
      BY <3>1
    <3>3. Listed' = n /\ n <= Listed /\ ppc' \notin InsertPcs \cup {"grow"}
      BY <2>1, <2>7, <3>1 DEF InsertPcs
    <3> QED
      BY <1>1, <2>10, <2>12, <3>2, <3>3, IndexStill
  <2>14. OwnersOK'
    <3>1. ASSUME NEW m \in LiveNos PROVE value'[Entry(m)'] = value[Entry(m)]
      <4>1. m \in Int
        BY <1>2, <1>3, <3>1 DEF LiveNos
      <4>2. Entry(m)' = Entry(m)
        BY <1>3, <2>10, <4>1 DEF SameIndex
      <4> QED
        BY <1>1, <4>2
    <3> QED
      BY <1>1, <1>2, <1>6, <2>1, <2>6, <2>9, <3>1, OwnersStill
  <2> QED
    BY <2>9, <2>10, <2>11, <2>13, <2>14
<1> QED
  BY <1>9, <1>10

\* The new header keeps the entries of the blocks that the old one has room for.
LEMMA GrownIndex ==
  ASSUME WindowsFit, ShareIInv, StoreOK, Grow
  PROVE  /\ headers # << >> /\ headers' \in Seq(Headers) /\ Len(headers') = Len(headers) + 1
         /\ \A h \in 1 .. Len(headers) : headers'[h] = headers[h]
         /\ Capacity(Last)' = Capacity(Last) + Capacity(Last)
         /\ DOMAIN Last'.index = 0 .. Capacity(Last) + Capacity(Last) - 1
         /\ \A i, j \in DOMAIN Last'.index : Last'.index[i] = Last'.index[j] => i = j
         /\ Listed' = Listed /\ Top = Listed - 1 /\ Top' = Listed - 1
         /\ \A m \in Int : Listed - 1 < m + Capacity(Last) /\ m < Listed => Entry(m)' = Entry(m)
         /\ \A m \in Int : m = Listed => Entry(m)' = Capacity(Last)
         /\ Capacity(Last) \in Entries \ DOMAIN Last.index
<1> HIDE DEF Numbers
<1> USE DEF StoreOK
<1>1. /\ ppc = "grow" /\ ppc' = "key" /\ enq' = [enq EXCEPT !.entry = Capacity(Last)]
      /\ 2 * Capacity(Last) <= MaxIndexSize /\ UNCHANGED <<tailIndex, key, value>>
  BY DEF Grow, ProducerGoto
<1>2. headers # << >>
  BY <1>1 DEF EnqOK
<1>3. PICK n \in Nat \ {0} : n = Capacity(Last)
  BY <1>2, EntryFacts
<1>4. /\ Len(headers) \in Nat \ {0} /\ Last \in Headers /\ Last = headers[Len(headers)]
      /\ DOMAIN Last.index = 0 .. n - 1 /\ Origin = Last.tail - Top
      /\ Listed \in Nat /\ enq \in EnqueueRecords /\ headers \in Seq(Headers)
  BY <1>2, <1>3, EntryFacts, ListedFacts DEF EnqOK, RingOK, RingTyped
<1>5. PICK t \in 0 .. n - 1 : t = Last.tail
  BY <1>2, <1>3, EntryFacts
<1>6. PICK f \in [0 .. n - 1 -> 0 .. n - 1] : f = Last.index
  BY <1>3, <1>4, HeaderFacts
<1> DEFINE g == [i \in 0 .. 2 * n - 1 |-> IF i < n THEN f[(t + 1 + i) % n] ELSE i]
<1>7. headers' = Append(headers, [tail |-> n - 1, index |-> g])
  BY <1>3, <1>5, <1>6 DEF Grow, Header
<1>8. \A i \in 0 .. 2 * n - 1 : i < n => g[i] = f[(t + 1 + i) % n] /\ g[i] \in 0 .. n - 1
  <2> TAKE i \in 0 .. 2 * n - 1
  <2>1. t + 1 + i \in Int
    BY <1>5
  <2>2. (t + 1 + i) % n \in 0 .. n - 1
    BY <1>3, <2>1
  <2> QED
    BY <1>6, <2>2
<1>9. \A i \in 0 .. 2 * n - 1 : ~(i < n) => g[i] = i
  OBVIOUS
<1>10. g \in [0 .. 2 * n - 1 -> 0 .. 2 * n - 1]
  <2>1. ASSUME NEW i \in 0 .. 2 * n - 1 PROVE g[i] \in 0 .. 2 * n - 1
    <3>1. CASE i < n
      <4>1. g[i] \in 0 .. n - 1
        BY <1>8, <2>1, <3>1
      <4> HIDE DEF g
      <4> QED
        BY <1>3, <4>1
    <3>2. CASE ~(i < n)
      BY <1>9, <2>1, <3>2
    <3> QED
      BY <3>1, <3>2
  <2> QED
    BY <2>1
<1>11. ASSUME NEW i \in 0 .. 2 * n - 1, NEW j \in 0 .. 2 * n - 1, g[i] = g[j] PROVE i = j
  <2>1. CASE i < n /\ j < n
    <3>1. f[(t + 1 + i) % n] = f[(t + 1 + j) % n]
      BY <1>8, <1>11, <2>1
    <3>2. t + 1 + i \in Int /\ t + 1 + j \in Int /\ i \in Int /\ j \in Int
      <4>1. i \in Int /\ j \in Int /\ t \in Int
        BY <1>3, <1>5, <1>11
      <4> HIDE DEF g
      <4> QED
        BY <4>1
    <3>3. (t + 1 + i) % n \in 0 .. n - 1 /\ (t + 1 + j) % n \in 0 .. n - 1
      BY <1>3, <3>2
    <3>4. (t + 1 + i) % n = (t + 1 + j) % n
      <4>1. Len(headers) \in 1 .. Len(headers) /\ headers[Len(headers)].index = f
            /\ DOMAIN headers[Len(headers)].index = 0 .. n - 1
        BY <1>4, <1>6
      <4> QED
        BY <3>1, <3>3, <4>1 DEF RingOK, RingTyped
    <3>5. (t + 1 + i) - (t + 1 + j) < n /\ (t + 1 + j) - (t + 1 + i) < n
      <4>1. i >= 0 /\ j >= 0 /\ i < n /\ j < n /\ t \in Int /\ n \in Int
        BY <1>3, <1>5, <1>11, <2>1
      <4> QED
        BY <3>2, <4>1
    <3>6. t + 1 + i = t + 1 + j
      BY <1>3, <3>2, <3>4, <3>5, RingDistinct
    <3> QED
      BY <1>5, <3>2, <3>6
  <2>2. CASE i < n /\ ~(j < n)
    <3>1. g[i] \in 0 .. n - 1 /\ g[j] = j
      BY <1>8, <1>9, <1>11, <2>2
    <3> HIDE DEF g
    <3> QED
      BY <1>3, <1>11, <2>2, <3>1
  <2>3. CASE ~(i < n) /\ j < n
    <3>1. g[j] \in 0 .. n - 1 /\ g[i] = i
      BY <1>8, <1>9, <1>11, <2>3
    <3> HIDE DEF g
    <3> QED
      BY <1>3, <1>11, <2>3, <3>1
  <2>4. CASE ~(i < n) /\ ~(j < n)
    BY <1>9, <1>11, <2>4
  <2> QED
    BY <2>1, <2>2, <2>3, <2>4
<1>12. DOMAIN g = 0 .. 2 * n - 1
  OBVIOUS
<1> HIDE DEF g
<1>13. PICK k \in Nat \ {0} : k = 2 * n /\ k = n + n
  BY <1>3
<1>14. [tail |-> n - 1, index |-> g] \in Headers
  <2>1. k \in 1 .. MaxIndexSize /\ n - 1 \in 0 .. k - 1
    BY <1>1, <1>3, <1>13, ImplicitAssumption DEF ImplicitAssumption
  <2>2. [tail |-> n - 1, index |-> g] \in [tail : 0 .. k - 1, index : [0 .. k - 1 -> 0 .. k - 1]]
    BY <1>10, <1>13, <2>1
  <2> QED
    BY <2>1, <2>2 DEF Headers
<1>15. /\ headers' \in Seq(Headers) /\ Len(headers') = Len(headers) + 1
       /\ \A h \in 1 .. Len(headers) : headers'[h] = headers[h]
       /\ headers'[Len(headers')] = [tail |-> n - 1, index |-> g]
  BY <1>4, <1>7, <1>14
<1>16. Last' = [tail |-> n - 1, index |-> g]
  BY <1>15 DEF Last
<1>17. /\ Capacity(Last)' = n + n /\ Last'.index = g /\ Last'.tail = n - 1
  <2>1. [tail |-> n - 1, index |-> g].index = g /\ [tail |-> n - 1, index |-> g].tail = n - 1
    OBVIOUS
  <2>2. Capacity(Last)' = Cardinality(0 .. k - 1)
    BY <1>12, <1>13, <1>16, <2>1 DEF Capacity
  <2>3. Cardinality(0 .. k - 1) = k
    <3>1. 0 \in Int /\ k - 1 \in Int /\ ~(0 > k - 1)
      BY <1>13
    <3>2. Cardinality(0 .. k - 1) = k - 1 - 0 + 1
      BY <3>1, FS_Interval
    <3> QED
      BY <1>13, <3>2
  <2> QED
    BY <1>13, <1>16, <2>1, <2>2, <2>3
<1>18. Listed' = Listed /\ ~Undoing /\ ~Undoing'
  <2>1. enq'.chain = enq.chain
    BY <1>1, <1>4 DEF EnqueueRecords
  <2> QED
    BY <1>1, <2>1, SameTail DEF Listed, Undoing
<1>19. Top = Listed - 1 /\ Top' = Listed - 1
  BY <1>1, <1>18 DEF Top
<1>20. Origin' = n - 1 - (Listed - 1)
  BY <1>17, <1>19 DEF Origin
<1>21. ASSUME NEW m \in Int PROVE Entry(m)' = g[(n - Listed + m) % k]
  <2>1. (n - 1 - (Listed - 1)) + m = n - Listed + m
    BY <1>3, <1>4
  <2> QED
    BY <1>13, <1>17, <1>20, <2>1 DEF Entry
<1>22. ASSUME NEW m \in Int, Listed - 1 < m + n, m < Listed PROVE Entry(m)' = Entry(m)
  <2>1. PICK i \in Int : i = n - Listed + m
    BY <1>4
  <2>2. i \in 0 .. n - 1 /\ i \in 0 .. k - 1 /\ i < n /\ i \in 0 .. 2 * n - 1
    <3>1. Listed \in Int /\ m \in Int /\ n \in Nat \ {0} /\ n = Capacity(Last)
      BY <1>3, <1>4, <1>22
    <3>2. i \in 0 .. n - 1
      BY <1>22, <2>1, <3>1
    <3>3. i \in 0 .. k - 1 /\ i < n
      BY <1>13, <3>1, <3>2
    <3> QED
      BY <1>13, <3>2, <3>3
  <2>3. i % k = i
    BY <1>13, <2>2, RingWrap
  <2>4. Entry(m)' = f[(t + 1 + i) % n]
    BY <1>8, <1>21, <2>1, <2>2, <2>3
  <2>5. PICK o \in Int : o = Origin + m
    BY <1>4, <1>5, <1>19
  <2>6. t + 1 + i = o + n
    <3>1. t \in Int /\ Listed \in Int /\ m \in Int /\ n \in Int
      BY <1>3, <1>4, <1>5, <1>22
    <3>2. o = t - (Listed - 1) + m
      BY <1>4, <1>5, <1>19, <2>5
    <3> QED
      BY <2>1, <3>1, <3>2
  <2>7. (o + n) % n = o % n
    BY <1>3, RingWrap
  <2>8. Entry(m) = f[o % n]
    BY <1>3, <1>6, <2>5 DEF Entry
  <2> QED
    BY <2>4, <2>6, <2>7, <2>8
<1>23. ASSUME NEW m \in Int, m = Listed PROVE Entry(m)' = n
  <2>1. n - Listed + m = n
    BY <1>3, <1>4, <1>23
  <2>2. n \in 0 .. k - 1 /\ n \in 0 .. 2 * n - 1 /\ n \in Int
    BY <1>3, <1>13
  <2>3. n % k = n
    BY <1>13, <2>2, RingWrap
  <2> QED
    BY <1>9, <1>21, <2>1, <2>2, <2>3
<1>24. n \in Entries \ DOMAIN Last.index
  BY <1>1, <1>3, <1>4, ImplicitAssumption DEF Entries, ImplicitAssumption
<1>25. \A i, j \in DOMAIN Last'.index : Last'.index[i] = Last'.index[j] => i = j
  BY <1>11, <1>12, <1>17
<1>26. DOMAIN Last'.index = 0 .. n + n - 1
  BY <1>12, <1>13, <1>17
<1> QED
  BY <1>2, <1>3, <1>15, <1>17, <1>18, <1>19, <1>22, <1>23, <1>24, <1>25, <1>26

LEMMA GrowStep ==
  ASSUME WindowsFit, ShareIInv, ClaimsOK, StoreOK, Grow
  PROVE  StoreOK'
<1> HIDE DEF Numbers
<1> USE DEF StoreOK
<1>1. /\ ppc = "grow" /\ ppc' = "key" /\ enq' = [enq EXCEPT !.entry = Capacity(Last)]
      /\ UNCHANGED <<tailIndex, key, value, freeBlocks, dequeued>> /\ ClaimsStill
  BY DEF Grow, ProducerGoto, storage, claimVars, counters, ClaimsStill
<1>2. /\ headers # << >> /\ headers' \in Seq(Headers) /\ Len(headers') = Len(headers) + 1
      /\ \A h \in 1 .. Len(headers) : headers'[h] = headers[h]
      /\ Capacity(Last)' = Capacity(Last) + Capacity(Last)
      /\ DOMAIN Last'.index = 0 .. Capacity(Last) + Capacity(Last) - 1
      /\ \A i, j \in DOMAIN Last'.index : Last'.index[i] = Last'.index[j] => i = j
      /\ Listed' = Listed /\ Top = Listed - 1 /\ Top' = Listed - 1
      /\ \A m \in Int : Listed - 1 < m + Capacity(Last) /\ m < Listed => Entry(m)' = Entry(m)
      /\ \A m \in Int : m = Listed => Entry(m)' = Capacity(Last)
      /\ Capacity(Last) \in Entries \ DOMAIN Last.index
  BY GrownIndex
<1>3. PICK n \in Nat \ {0} : n = Capacity(Last)
  BY <1>2, EntryFacts
<1>4. /\ Listed \in Nat /\ Committed \in Nat /\ Committed <= Listed /\ enq \in EnqueueRecords
      /\ Len(headers) \in Nat \ {0}
      /\ DOMAIN Last.index = 0 .. n - 1 /\ Last = headers[Len(headers)]
      /\ Origin = Last.tail - Top /\ Last.tail \in 0 .. n - 1
  BY <1>2, <1>3, ListedFacts, EntryFacts DEF EnqOK
<1>5. /\ enq' \in EnqueueRecords /\ enq'.entry = n
      /\ enq'.base = enq.base /\ enq'.count = enq.count /\ enq'.fresh = enq.fresh
      /\ enq'.chain = enq.chain
  BY <1>1, <1>3, <1>4 DEF EnqueueRecords
<1>6. Filled' = Filled /\ Committed' = Committed
  BY <1>1, SameTail
<1>7. ~Undoing /\ ~Undoing' /\ Reach = Listed - 1 /\ Reach' = Listed
  BY <1>1, <1>2 DEF Undoing, Reach, InsertPcs
<1>8. headers' # << >>
  BY <1>2, <1>4
<1>9. \A m \in Nat : m < Listed /\ Live(m) => Listed - 1 < m + n
  <2>1. ASSUME NEW m \in Nat, m < Listed, Live(m) PROVE Listed - 1 < m + n
    BY <1>3, <1>7, <2>1, LiveWindow
  <2> QED
    BY <2>1
<1>10. ASSUME NEW m \in Nat, m < Listed, Live(m), NEW q \in m .. Listed - 1
       PROVE  Entry(q)' = Entry(q) /\ q \in Nat
  <2>1. q \in Int /\ Listed - 1 < q + n /\ q < Listed
    BY <1>3, <1>4, <1>9, <1>10
  <2> QED
    BY <1>2, <1>3, <1>10, <2>1
<1>11. EnqOK'
  <2>1. (ppc \in InsertPcs \cup {"room", "slot", "grow"} =>
          enq.base = BaseOf(Listed) /\ Listed * BlockSize < Filled + enq.count)'
    BY <1>1, <1>2, <1>5, <1>6 DEF EnqOK, BaseOf
  <2>2. enq'.fresh = NoBlock
    BY <1>1, <1>5 DEF EnqOK
  <2>3. (Listed * BlockSize < MaxEnqueued + BlockSize)'
    BY <1>2 DEF EnqOK
  <2> QED
    BY <1>1, <1>5, <1>7, <1>8, <2>1, <2>2, <2>3 DEF EnqOK
<1>12. RingOK'
  <2>1. RingTyped'
    <3>1. DOMAIN key' = Entries /\ DOMAIN value' = Entries
      BY <1>1 DEF RingOK, RingTyped
    <3>2. ASSUME NEW h \in 1 .. Len(headers')
          PROVE  \A i, j \in DOMAIN headers'[h].index :
                   headers'[h].index[i] = headers'[h].index[j] => i = j
      <4>1. CASE h \in 1 .. Len(headers)
        BY <1>2, <4>1 DEF RingOK, RingTyped
      <4>2. CASE h = Len(headers')
        BY <1>2, <4>2 DEF Last
      <4> QED
        BY <1>2, <1>4, <4>1, <4>2
    <3>3. \A e \in Entries : key'[e] = InvalidBlockBase => value'[e] = NoBlock
      BY <1>1 DEF RingOK, RingTyped
    <3>4. \A e \in Entries \ DOMAIN Last'.index : key'[e] = InvalidBlockBase
      <4>1. DOMAIN Last.index \subseteq DOMAIN Last'.index
        BY <1>2, <1>3, <1>4
      <4> QED
        BY <1>1, <1>2, <4>1 DEF RingOK, RingTyped
    <3> QED
      BY <1>2, <3>1, <3>2, <3>3, <3>4 DEF RingTyped
  <2>2. RingLive'
    <3>1. ASSUME NEW m \in Nat, m < Listed, Live(m)
          PROVE  /\ Reach' < m + Capacity(Last)'
                 /\ \A q \in m .. Listed - 1 : key'[Entry(q)'] = BaseOf(q)
      <4>1. Listed < m + (n + n)
        BY <1>3, <1>4, <1>9, <3>1
      <4>2. \A q \in m .. Listed - 1 : key[Entry(q)] = BaseOf(q)
        BY <3>1, LiveWindow
      <4> QED
        BY <1>1, <1>2, <1>3, <1>7, <1>10, <3>1, <4>1, <4>2
    <3>2. \A m : Live(m)' <=> Live(m)
      BY <1>1, SameClaims
    <3>3. \A m \in 0 .. Listed - 1 : m \in Nat /\ m < Listed
      BY <1>4
    <3> QED
      BY <1>2, <3>1, <3>2, <3>3 DEF RingLive, BaseOf
  <2>3. Inserting'
    <3>1. PICK m \in Int : m = Listed
      BY <1>4
    <3>2. Entry(Listed)' = n
      BY <1>2, <1>3, <3>1
    <3>3. key[n] = InvalidBlockBase /\ value[n] = NoBlock
      BY <1>2, <1>3 DEF RingOK, RingTyped
    <3> QED
      BY <1>1, <1>5, <3>2, <3>3 DEF Inserting, InsertPcs
  <2>4. Removing'
    BY <1>7 DEF Removing
  <2> QED
    BY <2>1, <2>2, <2>3, <2>4 DEF RingOK
<1>13. OwnersOK'
  <2>1. ASSUME NEW m \in LiveNos PROVE value'[Entry(m)'] = value[Entry(m)]
    <3>1. m \in Nat /\ m < Listed /\ Live(m) /\ m \in m .. Listed - 1
      BY <1>4, <1>7, <2>1 DEF LiveNos, Limit
    <3> QED
      BY <1>1, <1>10, <3>1
  <2>2. Limit' = Limit
    BY <1>2, <1>7 DEF Limit
  <2> QED
    BY <1>1, <1>5, <1>6, <1>7, <2>1, <2>2, OwnersStill
<1>14. LookupsOK'
  <2> SUFFICES ASSUME NEW c \in Consumers, cpc'[c] \in LookupPcs
               PROVE  LookupOK(c)'
    BY DEF LookupsOK
  <2>1. cpc' = cpc /\ call' = call
    BY <1>1 DEF ClaimsStill
  <2>2. LookupOK(c) /\ cpc[c] \in LookupPcs /\ ClaimOK(c) /\ cpc[c] \in ClaimedPcs
    BY <2>1 DEF LookupsOK, ClaimsOK, ClaimedPcs
  <2>3. /\ Here(c)' = Here(c) /\ LastBlock(c)' = LastBlock(c)
        /\ Here(c) \in Nat /\ LastBlock(c) \in Nat
    BY <1>1, <2>2, SameClaims, ClaimFacts
  <2>4. PICK h : h = headers[call[c].header]
    OBVIOUS
  <2>5. /\ call[c].header \in 1 .. Len(headers) /\ call[c].header \in 1 .. Len(headers')
        /\ headers'[call[c].header] = h /\ call[c].header # Len(headers')
    BY <1>2, <1>4, <2>2, <2>4 DEF LookupOK
  <2>6. ASSUME cpc[c] \in {"slotTail", "slotKey"}, NEW t, NEW T \in Nat, T \in BlockNos, T < Listed,
               LastBlock(c) <= T,
               \A m \in Here(c) .. T : key[Entry(m)] = BaseOf(m),
               \A m \in Here(c) .. T : h.index[(t + (m - T)) % Capacity(h)] = Entry(m)
        PROVE  Seen(c, t, T)'
    <3>1. Here(c) < Listed /\ Live(Here(c))
      <4>1. cpc[c] \in LookupPcs \ {"free"}
        BY <2>6 DEF LookupPcs
      <4>2. Live(Here(c)) /\ Here(c) <= LastBlock(c)
        BY <4>1, LookupFacts
      <4> QED
        BY <1>4, <2>3, <2>6, <4>2
    <3>2. \A m \in Here(c) .. T : Entry(m)' = Entry(m)
      <4>1. \A m \in Here(c) .. T : m \in Here(c) .. Listed - 1
        BY <1>4, <2>3, <2>6
      <4> QED
        BY <1>10, <2>3, <3>1, <4>1
    <3>3. T < Here(c) + (n + n)
      BY <1>3, <1>4, <1>9, <2>3, <2>6, <3>1
    <3>4. Leads(c, t, T)'
      BY <2>1, <2>3, <2>5, <2>6, <3>2 DEF Leads, Capacity
    <3>5. Keyed(c, T)'
      BY <1>1, <1>2, <1>3, <2>1, <2>3, <2>6, <3>2, <3>3 DEF Keyed, BaseOf
    <3> QED
      BY <3>4, <3>5 DEF Seen
  <2>7. ASSUME cpc[c] \in {"slotTail", "slotKey"}, NEW t, NEW T \in BlockNos, Seen(c, t, T)
        PROVE  Seen(c, t, T)'
    <3>1. T < Listed /\ T \in Nat
      BY <1>1, <2>7 DEF Seen, Keyed, BlockNos
    <3>2. LastBlock(c) <= T /\ \A m \in Here(c) .. T : key[Entry(m)] = BaseOf(m)
      BY <2>7 DEF Seen, Keyed
    <3>3. \A m \in Here(c) .. T : h.index[(t + (m - T)) % Capacity(h)] = Entry(m)
      BY <2>4, <2>7 DEF Seen, Leads
    <3> QED
      BY <2>6, <2>7, <3>1, <3>2, <3>3
  <2>8. ASSUME cpc[c] = "slotTail" PROVE \E T \in BlockNos : Seen(c, h.tail, T)'
    <3>1. CASE call[c].header = Len(headers)
      <4>1. cpc[c] \in LookupPcs \ {"free"}
        BY <2>8 DEF LookupPcs
      <4>2. Live(Here(c)) /\ Here(c) <= LastBlock(c) /\ LastBlock(c) < Committed
        BY <4>1, LookupFacts
      <4>3. PICK T \in Nat : T = Listed - 1
        BY <1>4, <2>3, <4>2
      <4>4. T \in BlockNos /\ T < Listed /\ LastBlock(c) <= T
        BY <1>4, <2>3, <4>2, <4>3, BlockNear
      <4>5. \A m \in Here(c) .. T : key[Entry(m)] = BaseOf(m)
        BY <1>4, <2>3, <4>2, <4>3, <4>4, LiveWindow
      <4>6. h = Last
        BY <1>4, <2>4, <3>1
      <4>7. ASSUME NEW m \in Here(c) .. T
            PROVE  h.index[(h.tail + (m - T)) % Capacity(h)] = Entry(m)
        <5>1. h.tail + (m - T) = Origin + m
          BY <1>2, <1>4, <2>3, <4>3, <4>6
        <5> QED
          BY <4>6, <5>1 DEF Entry
      <4> QED
        BY <2>6, <2>8, <4>4, <4>5, <4>7
    <3>2. CASE call[c].header # Len(headers)
      <4>1. PICK T \in BlockNos : Seen(c, h.tail, T)
        BY <2>2, <2>4, <2>8, <3>2 DEF LookupOK
      <4> QED
        BY <2>7, <2>8, <4>1
    <3> QED
      BY <3>1, <3>2
  <2>9. ASSUME cpc[c] = "slotKey" PROVE \E T \in BlockNos : Seen(c, call[c].slot, T)'
    <3>1. PICK t : t = call[c].slot
      OBVIOUS
    <3>2. t = call'[c].slot
      BY <2>1, <3>1
    <3>3. PICK T \in BlockNos : Seen(c, t, T)
      BY <2>2, <2>9, <3>1 DEF LookupOK
    <3>4. Seen(c, t, T)'
      BY <2>7, <2>9, <3>3
    <3> QED
      BY <3>2, <3>4
  <2>10. ASSUME NEW m \in Here(c) .. LastBlock(c), m # Here(c) \/ cpc[c] # "free"
         PROVE  Entry(m)' = Entry(m)
    <3>1. m \in Nat /\ m < Committed /\ Live(m)
      BY <2>2, <2>10, LiveHere
    <3>2. m < Listed /\ m \in m .. Listed - 1
      BY <1>4, <3>1
    <3> QED
      BY <1>10, <3>1, <3>2
  <2>11. cpc[c] \in {"empty", "unlink"} => Entry(Here(c))' = Entry(Here(c))
    <3>1. ASSUME cpc[c] \in {"empty", "unlink"} PROVE Here(c) \in Here(c) .. LastBlock(c)
      <4>1. cpc[c] \in LookupPcs \ {"free"}
        BY <3>1 DEF LookupPcs
      <4> QED
        BY <2>3, <4>1, LookupFacts
    <3> QED
      BY <2>3, <2>10, <3>1
  <2>12. cpc'[c] \in {"entry", "empty", "unlink", "free"} =>
           \A m \in Here(c)' .. LastBlock(c)' :
             (m = Here(c)' /\ cpc'[c] = "free") \/
             h.index[(call'[c].slot + (m - Here(c)')) % Capacity(h)] = Entry(m)'
    BY <2>1, <2>2, <2>3, <2>4, <2>10 DEF LookupOK
  <2>13. cpc'[c] \in {"empty", "unlink"} => call'[c].block = value'[Entry(Here(c))']
    BY <1>1, <2>1, <2>2, <2>11 DEF LookupOK
  <2>14. cpc'[c] # "slotTail" => call'[c].slot \in DOMAIN h.index
    BY <2>1, <2>2, <2>4 DEF LookupOK
  <2>15. cpc'[c] = "slotTail" => \E T \in BlockNos : Seen(c, h.tail, T)'
    BY <2>1, <2>8
  <2>16. cpc'[c] = "slotKey" => \E T \in BlockNos : Seen(c, call[c].slot, T)'
    BY <2>1, <2>9
  <2> QED
    BY <2>1, <2>3, <2>5, <2>12, <2>13, <2>14, <2>15, <2>16 DEF LookupOK, Capacity
<1> QED
  BY <1>11, <1>12, <1>13, <1>14

------------------------------------------------------------------------------
(* The steps of a consumer.                                                *)

ConsumerStep(c) ==
  /\ UNCHANGED <<tailIndex, headers, key, producerVars>> /\ OnlyCaller(c)
  /\ DOMAIN value' = DOMAIN value /\ \A e : value'[e] = value[e] \/ value'[e] = NoBlock

LEMMA FrameFacts ==
  ASSUME NEW c \in Consumers, ConsumerStep(c)
  PROVE  /\ Filled' = Filled /\ Committed' = Committed /\ Listed' = Listed /\ Top' = Top
         /\ Reach' = Reach /\ Limit' = Limit /\ Gone' = Gone /\ (Undoing' <=> Undoing)
         /\ enq' = enq /\ ppc' = ppc /\ headers' = headers /\ key' = key /\ Chained' = Chained
         /\ Capacity(Last)' = Capacity(Last) /\ \A m : Entry(m)' = Entry(m)
         /\ BlockNo(enq.base)' = BlockNo(enq.base)
         /\ \A d \in Consumers \ {c} :
              /\ cpc'[d] = cpc[d] /\ call'[d] = call[d]
              /\ At(d)' = At(d) /\ First(d)' = First(d) /\ Until(d)' = Until(d)
              /\ Here(d)' = Here(d) /\ LastBlock(d)' = LastBlock(d)
              /\ Open(d)' = Open(d) /\ Taken(d)' = Taken(d)
<1>1. /\ tailIndex' = tailIndex /\ headers' = headers /\ key' = key /\ enq' = enq /\ ppc' = ppc
  BY DEF ConsumerStep, producerVars
<1>2. Filled' = Filled /\ Committed' = Committed /\ Listed' = Listed /\ Gone' = Gone
  BY <1>1, SameCall
<1>3. /\ Top' = Top /\ Reach' = Reach /\ Limit' = Limit /\ (Undoing' <=> Undoing)
      /\ Chained' = Chained /\ BlockNo(enq.base)' = BlockNo(enq.base)
  BY <1>1, <1>2 DEF Top, Reach, Limit, Undoing, Chained, BlockNo, Number
<1>4. Capacity(Last)' = Capacity(Last) /\ \A m : Entry(m)' = Entry(m)
  BY <1>1, <1>3, UnmovedIndex DEF Last, Capacity
<1>5. ASSUME NEW d \in Consumers \ {c}
      PROVE  /\ cpc'[d] = cpc[d] /\ call'[d] = call[d]
             /\ At(d)' = At(d) /\ First(d)' = First(d) /\ Until(d)' = Until(d)
             /\ Here(d)' = Here(d) /\ LastBlock(d)' = LastBlock(d)
             /\ Open(d)' = Open(d) /\ Taken(d)' = Taken(d)
  <2>1. cpc'[d] = cpc[d] /\ call'[d] = call[d]
    BY DEF ConsumerStep, OnlyCaller
  <2> QED
    BY <2>1 DEF At, First, Until, Here, LastBlock, From, Open, Taken
<1> QED
  BY <1>1, <1>2, <1>3, <1>4, <1>5

\* The claims of the other consumers stay what they are.
LEMMA ClaimsKept ==
  ASSUME ClaimsOK, NEW c \in Consumers, ConsumerStep(c), ppc # "destroyed",
         Emptied \in Nat, Emptied' \in Nat, Emptied <= Emptied',
         \A d \in Consumers : cpc[d] \in ClaimedPcs => Until(d) \in Nat /\ Here(d) \in Nat,
         \A n \in Nat : Consumed(n) => Consumed(n)',
         ClaimOK(c)', \A d \in Consumers \ {c} : Taken(c)' \cap Taken(d) = {},
         cpc'[c] = "unlink" =>
           \A d \in Consumers \ {c} : cpc[d] = "unlink" => Here(d) # Here(c)'
  PROVE  ClaimsOK'
<1>1. ASSUME NEW d \in Consumers \ {c} PROVE ClaimOK(d)'
  <2>1. ClaimOK(d)
    BY DEF ClaimsOK
  <2>2. /\ cpc'[d] = cpc[d] /\ call'[d] = call[d]
        /\ At(d)' = At(d) /\ First(d)' = First(d) /\ Until(d)' = Until(d) /\ Here(d)' = Here(d)
    BY FrameFacts
  <2>3. PICK a \in Nat, b \in Nat : a = Emptied /\ b = Emptied'
    OBVIOUS
  <2>4. cpc[d] \in ClaimedPcs => Until(d) <= Emptied'
    <3>1. ASSUME cpc[d] \in ClaimedPcs PROVE Until(d) <= b
      <4>1. Until(d) \in Nat /\ Until(d) <= a /\ a <= b
        BY <2>1, <2>3, <3>1 DEF ClaimOK
      <4> QED
        BY <4>1
    <3> QED
      BY <2>3, <3>1
  <2>5. cpc[d] = "unlink" => \A n \in Within(Here(d)) : Consumed(n)'
    <3>1. ASSUME cpc[d] = "unlink", NEW n \in Within(Here(d)) PROVE Consumed(n)'
      <4>1. Consumed(n) /\ Here(d) \in Nat
        BY <2>1, <3>1 DEF ClaimOK, ClaimedPcs, LookupPcs
      <4>2. n \in Nat
        BY <3>1, <4>1, WithinValue
      <4> QED
        BY <4>1, <4>2
    <3> QED
      BY <3>1
  <2>6. Within(Here(d))' = Within(Here(d))
    BY <2>2 DEF Within
  <2> QED
    BY <2>1, <2>2, <2>4, <2>5, <2>6 DEF ClaimOK
<1>2. \A d \in Consumers : ClaimOK(d)'
  BY <1>1
<1>3. \A d, e \in Consumers : d # e => Taken(d)' \cap Taken(e)' = {}
  <2>1. \A d \in Consumers \ {c} : Taken(d)' = Taken(d)
    BY FrameFacts
  <2> QED
    BY <2>1 DEF ClaimsOK
<1>4. \A d, e \in Consumers :
        cpc'[d] = "unlink" /\ cpc'[e] = "unlink" /\ Here(d)' = Here(e)' => d = e
  <2>1. \A d \in Consumers \ {c} : Here(d)' = Here(d) /\ cpc'[d] = cpc[d]
    BY FrameFacts
  <2> QED
    BY <2>1 DEF ClaimsOK
<1>5. ppc' # "destroyed"
  BY FrameFacts
<1> QED
  BY <1>2, <1>3, <1>4, <1>5 DEF ClaimsOK

LEMMA FramedRing ==
  ASSUME WindowsFit, ShareIInv, StoreOK, NEW c \in Consumers, ConsumerStep(c),
         \A m \in Nat : Live(m)' => Live(m),
         ppc = "value" => dequeued'[enq.fresh] = dequeued[enq.fresh]
  PROVE  EnqOK' /\ RingOK'
<1> HIDE DEF Numbers
<1> USE DEF StoreOK
<1>1. /\ Filled' = Filled /\ Committed' = Committed /\ Listed' = Listed /\ Top' = Top
      /\ Reach' = Reach /\ Limit' = Limit /\ Gone' = Gone /\ (Undoing' <=> Undoing)
      /\ enq' = enq /\ ppc' = ppc /\ headers' = headers /\ key' = key
      /\ Capacity(Last)' = Capacity(Last) /\ \A m : Entry(m)' = Entry(m)
      /\ BlockNo(enq.base)' = BlockNo(enq.base)
  BY FrameFacts
<1>2. DOMAIN value' = DOMAIN value /\ \A e : value'[e] = value[e] \/ value'[e] = NoBlock
  BY DEF ConsumerStep
<1>3. EnqOK'
  BY <1>1 DEF EnqOK, BaseOf
<1>4. RingTyped'
  BY <1>1, <1>2 DEF RingOK, RingTyped, Last
<1>5. RingLive'
  <2>1. ASSUME NEW m \in 0 .. Listed - 1, Live(m)'
        PROVE  Reach < m + Capacity(Last) /\ \A q \in m .. Listed - 1 : key[Entry(q)] = BaseOf(q)
    <3>1. m \in Nat
      BY ListedFacts
    <3>2. Live(m)
      BY <2>1, <3>1
    <3> QED
      BY <3>2 DEF RingOK, RingLive
  <2> QED
    BY <1>1, <2>1 DEF RingLive, BaseOf
<1>6. Inserting'
  <2>1. PICK n : n = Listed
    OBVIOUS
  <2>2. Entry(Listed)' = Entry(Listed)
    BY <1>1, <2>1
  <2> QED
    BY <1>1, <1>2, <2>2 DEF RingOK, Inserting
<1>7. Removing'
  BY <1>1, <1>2 DEF RingOK, Removing
<1> QED
  BY <1>3, <1>4, <1>5, <1>6, <1>7 DEF RingOK

\* What another consumer has looked up is still right.
LEMMA FramedLookup ==
  ASSUME NEW c \in Consumers, ConsumerStep(c), NEW d \in Consumers \ {c}, LookupOK(d),
         cpc[d] \in {"empty", "unlink"} => value'[Entry(Here(d))] = value[Entry(Here(d))]
  PROVE  LookupOK(d)'
<1>1. /\ Listed' = Listed /\ ppc' = ppc /\ headers' = headers /\ key' = key
      /\ Capacity(Last)' = Capacity(Last) /\ \A m : Entry(m)' = Entry(m)
      /\ cpc'[d] = cpc[d] /\ call'[d] = call[d]
      /\ Here(d)' = Here(d) /\ LastBlock(d)' = LastBlock(d)
  BY FrameFacts
<1>2. \A e : value'[e] = value[e] \/ value'[e] = NoBlock
  BY DEF ConsumerStep
<1>3. ASSUME NEW t, NEW T, Seen(d, t, T) PROVE Seen(d, t, T)'
  <2>1. Keyed(d, T)'
    BY <1>1, <1>2, <1>3 DEF Seen, Keyed, BaseOf
  <2>2. Leads(d, t, T)'
    BY <1>1, <1>3 DEF Seen, Leads, Capacity
  <2> QED
    BY <2>1, <2>2 DEF Seen
<1>4. PICK h : h = headers[call[d].header]
  OBVIOUS
<1>5. h = headers'[call'[d].header]
  BY <1>1, <1>4
<1>6. cpc[d] = "slotTail" /\ call[d].header # Len(headers) =>
        \E T \in BlockNos : Seen(d, h.tail, T)'
  <2>1. ASSUME cpc[d] = "slotTail", call[d].header # Len(headers)
        PROVE  \E T \in BlockNos : Seen(d, h.tail, T)'
    <3>1. PICK T \in BlockNos : Seen(d, h.tail, T)
      BY <1>4, <2>1 DEF LookupOK
    <3>2. PICK t : t = h.tail
      OBVIOUS
    <3> QED
      BY <1>3, <3>1, <3>2
  <2> QED
    BY <2>1
<1>7. cpc[d] = "slotKey" => \E T \in BlockNos : Seen(d, call[d].slot, T)'
  <2>1. ASSUME cpc[d] = "slotKey" PROVE \E T \in BlockNos : Seen(d, call[d].slot, T)'
    <3>1. PICK t : t = call[d].slot
      OBVIOUS
    <3>2. t = call'[d].slot
      BY <1>1, <3>1
    <3>3. PICK T \in BlockNos : Seen(d, t, T)
      BY <2>1, <3>1 DEF LookupOK
    <3>4. Seen(d, t, T)'
      BY <1>3, <3>3
    <3> QED
      BY <3>2, <3>4
  <2> QED
    BY <2>1
<1>8. cpc'[d] \in {"entry", "empty", "unlink", "free"} =>
        \A m \in Here(d)' .. LastBlock(d)' :
          (m = Here(d)' /\ cpc'[d] = "free") \/
          h.index[(call'[d].slot + (m - Here(d)')) % Capacity(h)] = Entry(m)'
  BY <1>1, <1>4 DEF LookupOK
<1>9. cpc'[d] \in {"empty", "unlink"} => call'[d].block = value'[Entry(Here(d))']
  <2>1. Entry(Here(d))' = Entry(Here(d))
    <3>1. PICK n : n = Here(d)
      OBVIOUS
    <3> QED
      BY <1>1, <3>1
  <2> QED
    BY <1>1, <2>1 DEF LookupOK
<1>10. call'[d].header \in 1 .. Len(headers') /\ (cpc'[d] # "slotTail" => call'[d].slot \in DOMAIN h.index)
  BY <1>1, <1>4 DEF LookupOK
<1> QED
  BY <1>1, <1>5, <1>6, <1>7, <1>8, <1>9, <1>10 DEF LookupOK, Capacity

\* The owners of the blocks stay the same.
LEMMA FramedOwners ==
  ASSUME WindowsFit, ShareIInv, EnqOK, OwnersOK, NEW c \in Consumers, ConsumerStep(c), UNCHANGED <<value, freeBlocks>>,
         DOMAIN dequeued' = DOMAIN dequeued, \A m \in Nat : Live(m)' <=> Live(m),
         \A m \in LiveNos : dequeued'[value[Entry(m)]] = Cardinality(ConsumedIn(m)'),
         Freeing' = Freeing, \A d \in Freeing : call'[d].block = call[d].block
  PROVE  OwnersOK'
<1>1. /\ Committed' = Committed /\ Limit' = Limit /\ (Undoing' <=> Undoing)
      /\ enq' = enq /\ Chained' = Chained /\ \A m : Entry(m)' = Entry(m)
  BY FrameFacts
<1>2. LiveNos' = LiveNos /\ LiveNos \subseteq Nat
  <2>1. \A m \in 0 .. Limit - 1 : m \in Nat
    BY ListedFacts DEF Limit
  <2> QED
    BY <1>1, <2>1 DEF LiveNos
<1>3. ASSUME NEW i \in 1 .. Len(enq.chain) PROVE Entry(Committed + i - 1)' = Entry(Committed + i - 1)
  <2>1. PICK n : n = Committed + i - 1
    OBVIOUS
  <2>2. n = (Committed + i - 1)'
    BY <1>1, <2>1
  <2> QED
    BY <1>1, <2>1, <2>2
<1>4. /\ \A m \in LiveNos' : value'[Entry(m)'] \in Blocks \ freeBlocks'
      /\ \A m \in LiveNos' : dequeued'[value'[Entry(m)']] = Cardinality(ConsumedIn(m)')
      /\ \A m, q \in LiveNos' : value'[Entry(m)'] = value'[Entry(q)'] => m = q
      /\ \A m \in LiveNos' : value'[Entry(m)'] # enq'.fresh
  BY <1>1, <1>2 DEF OwnersOK
<1>5. /\ ~Undoing' => \A i \in 1 .. Len(enq'.chain) : value'[Entry(Committed + i - 1)'] = enq'.chain[i]
      /\ Undoing' => \A m \in LiveNos' : value'[Entry(m)'] \notin Chained'
  BY <1>1, <1>2, <1>3 DEF OwnersOK
<1>6. /\ Chained' \cap freeBlocks' = {} /\ enq'.fresh \notin freeBlocks' /\ enq'.fresh \notin Chained'
      /\ freeBlocks' \subseteq Blocks /\ DOMAIN dequeued' = Blocks
  BY <1>1 DEF OwnersOK
<1>7. \A d \in Freeing' : /\ call'[d].block \in Blocks \ freeBlocks'
                          /\ call'[d].block \notin Chained' /\ call'[d].block # enq'.fresh
                          /\ \A m \in LiveNos' : value'[Entry(m)'] # call'[d].block
  BY <1>1, <1>2 DEF OwnersOK
<1>8. \A d, e \in Freeing' : call'[e].block = call'[d].block => d = e
  BY DEF OwnersOK
<1> QED
  BY <1>4, <1>5, <1>6, <1>7, <1>8 DEF OwnersOK

\* A consumer that takes no element away and frees nothing leaves the blocks to their owners.
LEMMA QuietStep ==
  ASSUME WindowsFit, ShareIInv, ClaimsOK, StoreOK, ppc # "destroyed",
         NEW c \in Consumers, ConsumerStep(c), UNCHANGED <<value, freeBlocks, dequeued>>,
         Emptied' \in Nat, Emptied <= Emptied', \A n \in Nat : Consumed(n)' <=> Consumed(n),
         cpc[c] \notin {"unlink", "free"}, cpc'[c] \notin {"unlink", "free"},
         ClaimOK(c)', cpc'[c] \in LookupPcs => LookupOK(c)',
         \A d \in Consumers \ {c} : Taken(c)' \cap Taken(d) = {}
  PROVE  ClaimsOK' /\ StoreOK'
<1> HIDE DEF Numbers
<1>1. ClaimsOK'
  <2>1. Emptied \in Nat
    BY Basics
  <2>2. \A d \in Consumers : cpc[d] \in ClaimedPcs => Until(d) \in Nat /\ Here(d) \in Nat
    BY ClaimFacts DEF ClaimsOK
  <2> QED
    BY <2>1, <2>2, ClaimsKept
<1>2. ASSUME NEW m \in Nat PROVE ConsumedIn(m)' = ConsumedIn(m) /\ (Live(m)' <=> Live(m))
  <2>1. ConsumedIn(m)' = ConsumedIn(m)
    BY <1>2, WithinValue DEF ConsumedIn, Within
  <2>2. \A d \in Consumers : cpc'[d] = "unlink" /\ Here(d)' = m <=> cpc[d] = "unlink" /\ Here(d) = m
    BY FrameFacts
  <2>3. \A n \in Within(m) : Consumed(n)' <=> Consumed(n)
    BY <1>2, WithinValue
  <2> QED
    BY <2>1, <2>2, <2>3 DEF Live, Within
<1>3. Freeing' = Freeing /\ \A d \in Freeing : call'[d].block = call[d].block
  <2>1. \A d \in Consumers \ {c} : cpc'[d] = cpc[d] /\ call'[d] = call[d]
    BY FrameFacts
  <2> QED
    BY <2>1 DEF Freeing
<1>4. OwnersOK'
  <2>1. \A m \in LiveNos : m \in Nat
    <3>1. \A m \in 0 .. Limit - 1 : m \in Nat
      BY ListedFacts DEF StoreOK, Limit
    <3> QED
      BY <3>1 DEF LiveNos
  <2>2. \A m \in LiveNos : dequeued'[value[Entry(m)]] = Cardinality(ConsumedIn(m)')
    BY <1>2, <2>1 DEF StoreOK, OwnersOK
  <2> QED
    BY <1>2, <1>3, <2>2, FramedOwners DEF StoreOK
<1>5. EnqOK' /\ RingOK'
  BY <1>2, FramedRing
<1>6. LookupsOK'
  <2>1. ASSUME NEW d \in Consumers \ {c}, cpc'[d] \in LookupPcs PROVE LookupOK(d)'
    <3>1. LookupOK(d)
      BY <2>1, FrameFacts DEF StoreOK, LookupsOK
    <3> QED
      BY <3>1, FramedLookup
  <2> QED
    BY <2>1 DEF LookupsOK
<1> QED
  BY <1>1, <1>4, <1>5, <1>6 DEF StoreOK

\* A consumer that has not claimed has nothing to look up.
LEMMA OutsideClaims ==
  ASSUME WindowsFit, ShareIInv, ClaimsOK, StoreOK, ppc # "destroyed",
         NEW c \in Consumers, ConsumerStep(c),
         UNCHANGED <<value, freeBlocks, dequeued, headIndex>>,
         cpc[c] \notin ClaimedPcs, cpc'[c] \notin ClaimedPcs
  PROVE  ClaimsOK' /\ StoreOK'
<1>1. Emptied' = Emptied /\ Emptied \in Nat
  BY Basics DEF Emptied
<1>2. Open(c)' = {} /\ Open(c) = {} /\ Taken(c)' = {}
  BY DEF Open, Taken
<1>3. \A n : Consumed(n)' <=> Consumed(n)
  <2>1. \A d \in Consumers : Open(d)' = Open(d)
    BY <1>2, FrameFacts
  <2> QED
    BY <1>1, <2>1 DEF Consumed
<1>4. cpc'[c] \notin LookupPcs \cup {"unlink", "free"} /\ cpc[c] \notin {"unlink", "free"}
  BY DEF ClaimedPcs, LookupPcs
<1>5. ClaimOK(c)'
  BY DEF ClaimOK
<1>6. Emptied' \in Nat /\ Emptied <= Emptied'
  BY <1>1
<1> QED
  BY <1>2, <1>3, <1>4, <1>5, <1>6, QuietStep

LEMMA ClaimFromHead ==
  ASSUME WindowsFit, ShareIInv, ClaimsOK, StoreOK, ppc # "destroyed",
         NEW c \in Consumers, Claim(c), ConsumerStep(c),
         UNCHANGED <<value, freeBlocks, dequeued>>
  PROVE  /\ ClaimsOK' /\ StoreOK'
         /\ call[c].count \in Nat /\ Emptied' = Emptied + call[c].count
         /\ At(c)' = Emptied /\ Until(c)' = Emptied + call[c].count /\ cpc'[c] = "claimed"
         /\ \A m \in Nat : Consumed(m)' <=> Consumed(m)
<1> HIDE DEF Numbers
<1>1. /\ cpc[c] = "claim" /\ cpc'[c] = "claimed" /\ headIndex' = Plus(headIndex, call[c].count)
      /\ call'[c].count = call[c].count /\ call'[c].index = headIndex
  BY Basics DEF Claim, ConsumerGoto, NoCall
<1>2. PICK n \in Nat \ {0} : n = call[c].count
  <2>1. call[c] \in Calls /\ call[c].count \in 1 .. call[c].desired
    BY <1>1 DEF ShareIInv, ShareInv, ShareTyped, Unsettled
  <2>2. call[c].desired \in Nat
    BY <2>1, HalfRange DEF Calls
  <2> QED
    BY <2>1, <2>2
<1>3. PICK a \in Nat : a = Emptied
  BY Basics
<1>4. a + n <= Filled
  <2>1. Emptied + Before(c) + n <= Filled
    BY <1>1, <1>2 DEF ShareIInv, ShareInv, Covers, Cover
  <2>2. Before(c) \in Nat
    BY ShareTypes DEF ShareIInv, ShareInv, ShareFacts
  <2>3. Filled \in Nat
    BY Basics
  <2> QED
    BY <1>2, <1>3, <2>1, <2>2, <2>3
<1>5. Emptied' = a + n
  <2>1. a + n < Numbers
    BY <1>2, <1>3, <1>4, Basics
  <2>2. headIndex \in Index /\ StartIndex \in Index /\ Minus(headIndex, StartIndex) = a
    BY <1>3, Basics, HalfRange DEF Emptied
  <2> QED
    BY <1>1, <1>2, <1>3, <2>1, <2>2, Advanced DEF Emptied
<1>6. At(c)' = a /\ First(c)' = a /\ Until(c)' = a + n
  <2>1. At(c)' = a
    BY <1>1, <1>3 DEF At, Number, Emptied
  <2>2. First(c)' = a
    BY <1>1, <2>1 DEF First
  <2> QED
    BY <1>1, <1>2, <2>1, <2>2 DEF Until
<1>7. Open(c) = {} /\ Open(c)' = a .. a + n - 1 /\ Taken(c)' = a .. a + n - 1
  BY <1>1, <1>6 DEF Open, Taken, From, ClaimedPcs, LookupPcs
<1>8. \A m \in Nat : Consumed(m)' <=> Consumed(m)
  <2> SUFFICES ASSUME NEW m \in Nat PROVE Consumed(m)' <=> Consumed(m)
    OBVIOUS
  <2>1. \A d \in Consumers \ {c} : Open(d)' = Open(d)
    BY FrameFacts
  <2>2. \A d \in Consumers : m \in Open(d) => m < a
    <3>1. ASSUME NEW d \in Consumers, m \in Open(d) PROVE m < a
      <4>1. cpc[d] \in ClaimedPcs /\ m \in From(d) .. Until(d) - 1
        BY <3>1 DEF Open
      <4>2. From(d) \in Nat /\ Until(d) \in Nat /\ Until(d) <= a
        BY <1>3, <4>1, ClaimFacts DEF ClaimsOK
      <4> QED
        BY <1>3, <4>1, <4>2
    <3> QED
      BY <3>1
  <2>3. m < a + n /\ m \notin a .. a + n - 1 <=> m < a
    BY <1>2
  <2> QED
    BY <1>3, <1>5, <1>7, <2>1, <2>2, <2>3 DEF Consumed
<1>9. \A d \in Consumers \ {c} : Taken(c)' \cap Taken(d) = {}
  <2>1. ASSUME NEW d \in Consumers, NEW m \in Taken(d) PROVE m \notin a .. a + n - 1
    <3>1. cpc[d] \in ClaimedPcs /\ m \in First(d) .. Until(d) - 1
      BY <2>1 DEF Taken
    <3>2. First(d) \in Nat /\ Until(d) \in Nat /\ Until(d) <= a
      BY <1>3, <3>1, ClaimFacts DEF ClaimsOK
    <3> QED
      BY <1>3, <3>1, <3>2
  <2> QED
    BY <1>7, <2>1
<1>10. ClaimOK(c)'
  <2>1. call'[c].index \in Index /\ call'[c].count \in Nat
    BY <1>1, <1>2, Basics
  <2>2. PICK e \in Nat, f \in Nat : e = Until(c)' /\ f = Emptied'
    BY <1>5, <1>6
  <2>3. e <= f /\ a \in a .. e - 1
    BY <1>5, <1>6, <2>2
  <2> QED
    BY <1>1, <1>6, <2>1, <2>2, <2>3 DEF ClaimOK, LookupPcs
<1>11. Emptied' \in Nat /\ Emptied <= Emptied'
  BY <1>3, <1>5
<1>12. cpc[c] \notin {"unlink", "free"} /\ cpc'[c] \notin LookupPcs \cup {"unlink", "free"}
  BY <1>1 DEF LookupPcs
<1>13. ClaimsOK' /\ StoreOK'
  BY <1>8, <1>9, <1>10, <1>11, <1>12, QuietStep
<1> QED
  BY <1>1, <1>2, <1>3, <1>5, <1>6, <1>8, <1>13

\* A call begins, and shares out the elements with the others.
LEMMA ShareOutStep ==
  ASSUME WindowsFit, ShareIInv, ClaimsOK, StoreOK, ppc # "destroyed",
         NEW c \in Consumers, Begin(c) \/ Share(c)
  PROVE  ClaimsOK' /\ StoreOK'
<1> HIDE DEF Numbers
<1>1. DOMAIN cpc = Consumers /\ DOMAIN call = Consumers
  BY Basics
<1>2. UNCHANGED <<tailIndex, headers, key, producerVars, value, freeBlocks, dequeued>>
  BY DEF Begin, Share, BeginDequeue, Sharing, LoadOvercommit, Examine, Promise, Reload, GiveBack,
     Claim, storage, indexVars, producerVars
<1>3. OnlyCaller(c)
  <2>1. CASE Begin(c)
    BY <1>1, <2>1 DEF Begin, BeginDequeue, ConsumerGoto, OnlyCaller
  <2>2. CASE Share(c)
    BY <1>1, <2>2 DEF Share, Sharing, LoadOvercommit, Examine, Promise, Reload, GiveBack, Claim,
       ConsumerGoto, ReturnFrom, OnlyCaller
  <2> QED
    BY <2>1, <2>2
<1>4. ConsumerStep(c)
  BY <1>2, <1>3 DEF ConsumerStep
<1>5. CASE Begin(c)
  <2>1. cpc[c] = "idle" /\ cpc'[c] = "overcommit" /\ headIndex' = headIndex
    BY <1>1, <1>5 DEF Begin, BeginDequeue, ConsumerGoto, counters
  <2>2. cpc[c] \notin ClaimedPcs /\ cpc'[c] \notin ClaimedPcs
    BY <2>1 DEF ClaimedPcs, LookupPcs
  <2> QED
    BY <1>2, <1>4, <2>1, <2>2, OutsideClaims
<1>6. CASE Share(c) /\ ~Claim(c)
  <2>1. /\ cpc[c] \in {"overcommit", "examine", "promise", "reload", "giveBack"}
        /\ cpc'[c] \in {"examine", "promise", "reload", "giveBack", "claim", "idle"}
        /\ headIndex' = headIndex
    BY <1>1, <1>6 DEF Share, Sharing, LoadOvercommit, Examine, Promise, Reload, GiveBack,
       ConsumerGoto, ReturnFrom, counters
  <2>2. cpc[c] \notin ClaimedPcs /\ cpc'[c] \notin ClaimedPcs
    BY <2>1 DEF ClaimedPcs, LookupPcs
  <2> QED
    BY <1>2, <1>4, <2>1, <2>2, OutsideClaims
<1>7. CASE Claim(c)
  BY <1>2, <1>4, <1>7, ClaimFromHead
<1> QED
  BY <1>5, <1>6, <1>7

\* A consumer goes on within the block that it is at.
LEMMA LookingStep ==
  ASSUME WindowsFit, ShareIInv, ClaimsOK, StoreOK, ppc # "destroyed",
         NEW c \in Consumers, ConsumerStep(c),
         UNCHANGED <<value, freeBlocks, dequeued, headIndex>>,
         cpc[c] \in ClaimedPcs \ {"unlink", "free"}, cpc'[c] \in LookupPcs \ {"unlink", "free"},
         call'[c].index = call[c].index, call'[c].count = call[c].count,
         call'[c].first = IF cpc[c] = "claimed" THEN call[c].index ELSE call[c].first,
         DOMAIN call'[c] = CallFields, LookupOK(c)'
  PROVE  ClaimsOK' /\ StoreOK' /\ Here(c)' = Here(c) /\ LastBlock(c)' = LastBlock(c)
<1> HIDE DEF Numbers
<1>1. Emptied' = Emptied /\ Emptied \in Nat
  BY Basics DEF Emptied
<1>2. cpc[c] \in ClaimedPcs /\ cpc'[c] \in ClaimedPcs /\ cpc'[c] # "claimed"
  BY DEF ClaimedPcs, LookupPcs
<1>3. At(c)' = At(c) /\ Here(c)' = Here(c)
  BY DEF At, Here, Number, BlockNo
<1>4. First(c)' = First(c) /\ Until(c)' = Until(c)
  <2>1. First(c)' = First(c)
    BY <1>2, <1>3 DEF First, At, Number
  <2> QED
    BY <2>1 DEF Until
<1>5. LastBlock(c)' = LastBlock(c)
  BY <1>4 DEF LastBlock
<1>6. Open(c)' = Open(c) /\ Taken(c)' = Taken(c)
  BY <1>2, <1>3, <1>4 DEF Open, Taken, From
<1>7. \A n \in Nat : Consumed(n)' <=> Consumed(n)
  <2>1. \A d \in Consumers : Open(d)' = Open(d)
    BY <1>6, FrameFacts
  <2> QED
    BY <1>1, <2>1 DEF Consumed
<1>8. ClaimOK(c)'
  <2>1. ClaimOK(c)
    BY DEF ClaimsOK
  <2>2. call'[c].first \in Index
    BY <1>2, <2>1 DEF ClaimOK, ClaimedPcs
  <2> QED
    BY <1>1, <1>2, <1>3, <1>4, <2>1, <2>2 DEF ClaimOK
<1>9. \A d \in Consumers \ {c} : Taken(c)' \cap Taken(d) = {}
  BY <1>6 DEF ClaimsOK
<1>10. Emptied' \in Nat /\ Emptied <= Emptied'
  BY <1>1
<1> QED
  BY <1>3, <1>5, <1>7, <1>8, <1>9, <1>10, QuietStep

LEMMA LoadHeaderStep ==
  ASSUME WindowsFit, ShareIInv, ClaimsOK, StoreOK, ppc # "destroyed",
         NEW c \in Consumers, LoadHeader(c)
  PROVE  ClaimsOK' /\ StoreOK'
<1> HIDE DEF Numbers
<1>1. DOMAIN cpc = Consumers /\ DOMAIN call = Consumers
  BY Basics
<1>2. /\ cpc[c] = "claimed" /\ cpc'[c] = "slotTail"
      /\ call'[c] = [count |-> call[c].count, index |-> call[c].index, header |-> Len(headers),
                     slot |-> 0, first |-> call[c].index, block |-> NoBlock, got |-> << >>]
      /\ UNCHANGED <<tailIndex, headers, key, producerVars, value, freeBlocks, dequeued, headIndex>>
      /\ OnlyCaller(c)
  BY <1>1 DEF LoadHeader, ConsumerGoto, counters, storage, indexVars, OnlyCaller
<1>3. ConsumerStep(c)
  BY <1>2 DEF ConsumerStep
<1>4. cpc[c] \in ClaimedPcs /\ cpc[c] \in ClaimedPcs \ {"unlink", "free"}
      /\ cpc'[c] \in LookupPcs \ {"unlink", "free"}
  BY <1>2 DEF ClaimedPcs, LookupPcs
<1>5. headers # << >>
  <2>1. PICK m \in Nat : m = Here(c)
    BY <1>4, ClaimFacts DEF ClaimsOK
  <2>2. At(c) \in Within(m) /\ m < Listed
    <3>1. /\ At(c) \in Within(Here(c)) /\ Here(c) <= LastBlock(c) /\ LastBlock(c) < Committed
          /\ LastBlock(c) \in Nat
      BY <1>4, ClaimFacts DEF ClaimsOK
    <3>2. Committed <= Listed /\ Committed \in Nat /\ Listed \in Nat
      BY ListedFacts DEF StoreOK
    <3> QED
      BY <2>1, <3>1, <3>2
  <2>3. At(c) \in Open(c)
    <3>1. At(c) \in Nat /\ Until(c) \in Nat /\ At(c) < Until(c)
      BY <1>4, ClaimFacts DEF ClaimsOK
    <3> QED
      BY <1>2, <1>4, <3>1 DEF Open, From
  <2>4. Live(m)
    BY <2>2, <2>3 DEF Live, Consumed
  <2> QED
    BY <2>2, <2>4, LiveWindow DEF StoreOK
<1>6. LookupOK(c)'
  <2>1. Len(headers) \in Nat \ {0}
    BY <1>5, EntryFacts DEF StoreOK
  <2> QED
    BY <1>2, <2>1 DEF LookupOK
<1>7. DOMAIN call'[c] = CallFields
  BY <1>2 DEF CallFields
<1>8. /\ call'[c].index = call[c].index /\ call'[c].count = call[c].count
      /\ call'[c].first = IF cpc[c] = "claimed" THEN call[c].index ELSE call[c].first
  BY <1>2
<1> QED
  BY <1>2, <1>3, <1>4, <1>6, <1>7, <1>8, LookingStep

\* The tail of the block index leads to the blocks that a consumer has claimed, whatever
\* the producer is doing.
LEMMA TailSeen ==
  ASSUME WindowsFit, ShareIInv, ClaimsOK, StoreOK, NEW c \in Consumers, cpc[c] = "slotTail",
         call[c].header = Len(headers)
  PROVE  Top \in BlockNos /\ Seen(c, Last.tail, Top)
<1> HIDE DEF Numbers
<1> USE DEF StoreOK
<1>1. /\ Here(c) \in Nat /\ LastBlock(c) \in Nat /\ Here(c) <= LastBlock(c)
      /\ LastBlock(c) < Committed /\ Committed <= Listed /\ Listed \in Nat
      /\ Live(Here(c)) /\ headers # << >> /\ Reach < Here(c) + Capacity(Last)
      /\ Capacity(Last) \in Nat \ {0}
  BY LookupFacts DEF LookupPcs
<1>2. /\ Top \in Int /\ Reach \in Int /\ Committed \in Nat
      /\ Undoing => Top \in Committed .. Listed - 1
      /\ Top <= Listed /\ Top <= Reach
      /\ ~Undoing => Listed - 1 <= Top
  BY TopFacts, ListedFacts
<1>3. LastBlock(c) <= Top
  <2>1. CASE Undoing
    BY <1>1, <1>2, <2>1
  <2>2. CASE ~Undoing
    BY <1>1, <1>2, <2>2
  <2> QED
    BY <2>1, <2>2
<1>4. PICK m \in Nat : m = Here(c)
  BY <1>1
<1>5. PICK T \in Nat : T = Top
  <2>1. Top \in Nat
    BY <1>1, <1>2, <1>3
  <2> QED
    BY <2>1
<1>6. /\ m < Listed /\ Live(m) /\ m <= T /\ LastBlock(c) <= T /\ T < m + Capacity(Last)
      /\ T <= Listed
  BY <1>1, <1>2, <1>3, <1>4, <1>5
<1>7. ASSUME T = Listed
      PROVE  key[Entry(T)] = BaseOf(T) /\ value[Entry(T)] = NoBlock /\ ppc # "grow" /\ T \in BlockNos
  <2>1. ppc \in {"requisition", "value", "rewind"}
    <3>1. ~Undoing
      BY <1>1, <1>2, <1>5, <1>7
    <3> QED
      BY <1>1, <1>5, <1>7, <3>1 DEF Top
  <2>2. enq.entry = Entry(Listed) /\ value[enq.entry] = NoBlock /\ key[enq.entry] = enq.base
    BY <2>1 DEF RingOK, Inserting, InsertPcs
  <2>3. enq.base = BaseOf(Listed) /\ Listed * BlockSize < Filled + enq.count
    BY <2>1 DEF EnqOK, InsertPcs
  <2>4. Filled + enq.count <= MaxEnqueued /\ enq.count \in Nat /\ Filled \in Nat /\ MaxEnqueued \in Nat
    BY Basics DEF ShareIInv, EnqueueFits
  <2>5. T * BlockSize < MaxEnqueued
    <3>1. Listed * BlockSize \in Nat
      BY ListedFacts
    <3> QED
      BY <1>7, <2>3, <2>4, <3>1
  <2>6. T \in BlockNos
    BY <2>5, BlockNumber
  <2> QED
    BY <1>7, <2>1, <2>2, <2>3, <2>6
<1>8. T \in BlockNos
  <2>1. T < Listed => T \in BlockNos
    BY BlockNear
  <2> QED
    BY <1>1, <1>6, <1>7, <2>1
<1>9. \A q \in m .. T : key[Entry(q)] = BaseOf(q)
  <2>1. \A q \in m .. Listed - 1 : key[Entry(q)] = BaseOf(q)
    BY <1>6, LiveWindow
  <2>2. ASSUME NEW q \in m .. T PROVE key[Entry(q)] = BaseOf(q)
    <3>1. CASE q = Listed
      <4>1. q = T
        BY <1>6, <2>2, <3>1
      <4> QED
        BY <1>7, <3>1, <4>1
    <3>2. CASE q # Listed
      <4>1. q \in m .. Listed - 1
        BY <1>1, <1>6, <2>2, <3>2
      <4> QED
        BY <2>1, <4>1
    <3> QED
      BY <3>1, <3>2
  <2> QED
    BY <2>2
<1>10. Keyed(c, T)
  <2>1. T < Listed \/ (ppc # "grow" /\ \A q \in Listed .. T : value[Entry(q)] = NoBlock)
    <3>1. CASE T < Listed
      BY <3>1
    <3>2. CASE T = Listed
      <4>1. \A q \in Listed .. T : q = T
        BY <1>1, <3>2
      <4> QED
        BY <1>7, <3>2, <4>1
    <3> QED
      BY <1>1, <1>6, <3>1, <3>2
  <2> QED
    BY <1>4, <1>6, <1>9, <2>1 DEF Keyed
<1>11. Leads(c, Last.tail, T)
  <2>1. Origin = Last.tail - Top /\ Last.tail \in 0 .. Capacity(Last) - 1
    BY <1>1, EntryFacts
  <2>2. PICK t \in Int : t = Last.tail
    BY <1>1, <2>1
  <2>3. \A q \in Int : t + (q - T) = Origin + q
    BY <1>5, <2>1, <2>2
  <2>4. headers[call[c].header] = Last
    BY DEF Last
  <2>5. \A q \in m .. T : Last.index[(t + (q - T)) % Capacity(Last)] = Entry(q)
    <3>1. ASSUME NEW q \in m .. T PROVE Last.index[(t + (q - T)) % Capacity(Last)] = Entry(q)
      <4>1. t + (q - T) = Origin + q
        BY <2>3
      <4> QED
        BY <4>1 DEF Entry
    <3> QED
      BY <3>1
  <2> QED
    BY <1>4, <2>2, <2>4, <2>5 DEF Leads
<1> QED
  BY <1>5, <1>8, <1>10, <1>11 DEF Seen

\* The header that a consumer has loaded.
LEMMA HeaderOf ==
  ASSUME StoreOK, NEW c \in Consumers, cpc[c] \in LookupPcs
  PROVE  /\ LookupOK(c) /\ headers[call[c].header] \in Headers
         /\ cpc[c] # "slotTail" =>
              call[c].slot \in DOMAIN headers[call[c].header].index
              /\ call[c].slot \in 0 .. Capacity(headers[call[c].header]) - 1
<1>1. LookupOK(c) /\ headers \in Seq(Headers)
  BY DEF StoreOK, LookupsOK, RingOK, RingTyped
<1>2. headers[call[c].header] \in Headers
  BY <1>1 DEF LookupOK
<1> QED
  BY <1>1, <1>2, HeaderFacts DEF LookupOK

LEMMA LoadSlotTailStep ==
  ASSUME WindowsFit, ShareIInv, ClaimsOK, StoreOK, ppc # "destroyed",
         NEW c \in Consumers, LoadSlotTail(c)
  PROVE  ClaimsOK' /\ StoreOK'
<1> HIDE DEF Numbers
<1>0. /\ DOMAIN cpc = Consumers /\ DOMAIN call = Consumers
  BY Basics
<1>1. cpc[c] = "slotTail" /\ cpc[c] \in LookupPcs \ {"free", "unlink"} /\ cpc[c] \in LookupPcs
  BY DEF LoadSlotTail, LookupPcs
<1>2. DOMAIN call[c] = CallFields
  BY <1>1 DEF ClaimsOK, ClaimOK, ClaimedPcs
<1>3. /\ cpc'[c] = "slotKey"
      /\ call'[c] = [call[c] EXCEPT !.slot = headers[call[c].header].tail]
      /\ UNCHANGED <<tailIndex, headers, key, producerVars, value, freeBlocks, dequeued, headIndex>>
      /\ OnlyCaller(c)
  BY <1>0 DEF LoadSlotTail, ConsumerGoto, counters, storage, indexVars, OnlyCaller
<1>4. /\ call'[c].slot = headers[call[c].header].tail
      /\ call'[c].index = call[c].index /\ call'[c].count = call[c].count
      /\ call'[c].first = call[c].first /\ call'[c].header = call[c].header
      /\ DOMAIN call'[c] = CallFields
  BY <1>2, <1>3 DEF CallFields
<1>5. ConsumerStep(c)
  BY <1>3 DEF ConsumerStep
<1>6. PICK h \in Headers : h = headers[call[c].header]
  BY <1>1, HeaderOf
<1>7. PICK T \in BlockNos : Seen(c, h.tail, T)
  <2>1. CASE call[c].header = Len(headers)
    <3>1. h = Last
      BY <1>6, <2>1 DEF Last
    <3> QED
      BY <1>1, <2>1, <3>1, TailSeen
  <2>2. CASE call[c].header # Len(headers)
    BY <1>1, <1>6, <2>2, HeaderOf DEF LookupOK
  <2> QED
    BY <2>1, <2>2
<1>8. Here(c)' = Here(c) /\ LastBlock(c)' = LastBlock(c)
  <2>1. Here(c)' = Here(c)
    BY <1>4 DEF Here, BlockNo, Number
  <2>2. First(c)' = First(c)
    BY <1>1, <1>3, <1>4 DEF First, Number
  <2> QED
    BY <1>4, <2>1, <2>2 DEF LastBlock, Until
<1>9. Seen(c, h.tail, T)'
  <2>1. /\ Listed' = Listed /\ Capacity(Last)' = Capacity(Last) /\ \A m : Entry(m)' = Entry(m)
        /\ ppc' = ppc
    BY <1>5, FrameFacts
  <2>2. PICK t : t = h.tail
    OBVIOUS
  <2>3. Keyed(c, T)'
    BY <1>3, <1>7, <1>8, <2>1 DEF Seen, Keyed, BaseOf
  <2>4. Leads(c, t, T)'
    BY <1>3, <1>4, <1>7, <1>8, <2>1, <2>2 DEF Seen, Leads, Capacity
  <2> QED
    BY <2>2, <2>3, <2>4 DEF Seen
<1>10. LookupOK(c)'
  <2>1. call'[c].header \in 1 .. Len(headers') /\ headers'[call'[c].header] = h
    BY <1>1, <1>3, <1>4, <1>6, HeaderOf DEF LookupOK
  <2>2. call'[c].slot \in DOMAIN h.index
    BY <1>4, <1>6, HeaderFacts
  <2>3. PICK t : t = h.tail
    OBVIOUS
  <2>4. t = call'[c].slot
    BY <1>4, <1>6, <2>3
  <2>5. \E U \in BlockNos : Seen(c, call[c].slot, U)'
    BY <1>9, <2>3, <2>4
  <2> QED
    BY <1>3, <2>1, <2>2, <2>5 DEF LookupOK
<1>11. /\ cpc[c] \in ClaimedPcs \ {"unlink", "free"} /\ cpc'[c] \in LookupPcs \ {"unlink", "free"}
       /\ call'[c].first = IF cpc[c] = "claimed" THEN call[c].index ELSE call[c].first
  BY <1>1, <1>3, <1>4 DEF ClaimedPcs, LookupPcs
<1> QED
  BY <1>3, <1>4, <1>5, <1>10, <1>11, LookingStep

LEMMA LoadSlotKeyStep ==
  ASSUME WindowsFit, ShareIInv, ClaimsOK, StoreOK, ppc # "destroyed",
         NEW c \in Consumers, LoadSlotKey(c)
  PROVE  ClaimsOK' /\ StoreOK'
<1> HIDE DEF Numbers
<1>0. /\ DOMAIN cpc = Consumers /\ DOMAIN call = Consumers
  BY Basics
<1>1. cpc[c] = "slotKey" /\ cpc[c] \in LookupPcs \ {"free", "unlink"} /\ cpc[c] \in LookupPcs
      /\ cpc[c] \in ClaimedPcs
  BY DEF LoadSlotKey, LookupPcs, ClaimedPcs
<1>2. DOMAIN call[c] = CallFields
  BY <1>1 DEF ClaimsOK, ClaimOK, ClaimedPcs
<1>20. PICK h \in Headers : h = headers[call[c].header]
  BY <1>1, HeaderOf
<1>6. PICK s : h = headers[call[c].header]
        /\ s = SlotFor(h, call[c].slot, key[h.index[call[c].slot]], call[c].index)
  BY <1>20
<1>3. /\ cpc'[c] = "entry"
      /\ call'[c] = [call[c] EXCEPT !.slot = s]
      /\ UNCHANGED <<tailIndex, headers, key, producerVars, value, freeBlocks, dequeued, headIndex>>
      /\ OnlyCaller(c)
  BY <1>0, <1>6 DEF LoadSlotKey, ConsumerGoto, counters, storage, indexVars, OnlyCaller
<1>4. /\ call'[c].slot = s
      /\ call'[c].index = call[c].index /\ call'[c].count = call[c].count
      /\ call'[c].first = call[c].first /\ call'[c].header = call[c].header
      /\ DOMAIN call'[c] = CallFields
  BY <1>2, <1>3 DEF CallFields
<1>5. ConsumerStep(c)
  BY <1>3 DEF ConsumerStep
<1>7. PICK T \in BlockNos : Seen(c, call[c].slot, T)
  BY <1>1, HeaderOf DEF LookupOK
<1>8. Here(c)' = Here(c) /\ LastBlock(c)' = LastBlock(c)
  <2>1. Here(c)' = Here(c)
    BY <1>4 DEF Here, BlockNo, Number
  <2>2. First(c)' = First(c)
    BY <1>1, <1>3, <1>4 DEF First, Number
  <2> QED
    BY <1>4, <2>1, <2>2 DEF LastBlock, Until
<1>9. /\ T \in Nat /\ T * BlockSize < Numbers \div 2 /\ Number(call[c].index) < Numbers \div 2
      /\ call[c].index \in Index
  <2>1. MaxEnqueued \in Nat /\ MaxEnqueued < Numbers \div 2 /\ Numbers \div 2 \in Nat
        /\ BlockSize \in Nat /\ Filled \in Nat /\ Emptied \in Nat /\ Emptied <= Filled
        /\ Filled <= MaxEnqueued
    BY Basics
  <2>2. T \in Nat /\ T * BlockSize < MaxEnqueued
    BY <2>1 DEF BlockNos
  <2>3. T * BlockSize \in Nat
    BY <2>1, <2>2
  <2>4. At(c) \in Nat /\ Until(c) \in Nat /\ At(c) < Until(c) /\ Until(c) <= Emptied
    BY <1>1, ClaimFacts DEF ClaimsOK
  <2>5. At(c) = Number(call[c].index) /\ call[c].index \in Index
    BY <1>1 DEF At, ClaimsOK, ClaimOK
  <2> QED
    BY <2>1, <2>2, <2>3, <2>4, <2>5
<1>10. /\ Here(c) \in Nat /\ LastBlock(c) \in Nat /\ Here(c) <= LastBlock(c) /\ LastBlock(c) <= T
  BY <1>1, <1>7, ClaimFacts DEF ClaimsOK, Seen, Keyed
<1>11. /\ Capacity(h) \in Nat \ {0} /\ call[c].slot \in DOMAIN h.index
       /\ call[c].slot \in 0 .. Capacity(h) - 1 /\ DOMAIN h.index = 0 .. Capacity(h) - 1
  BY <1>1, <1>6, HeaderOf, HeaderFacts
<1>12. PICK t \in Int : t = call[c].slot
  BY <1>11
<1>13. \A m \in Here(c) .. T : h.index[(t + (m - T)) % Capacity(h)] = Entry(m)
  BY <1>6, <1>7, <1>12 DEF Seen, Leads
<1>14. key[h.index[t]] = BaseOf(T)
  <2>1. T \in Here(c) .. T
    BY <1>9, <1>10
  <2>2. (t + (T - T)) % Capacity(h) = t
    <3>1. t + (T - T) = t
      BY <1>9, <1>12
    <3> QED
      BY <1>11, <1>12, <3>1, RingWrap
  <2>3. h.index[t] = Entry(T)
    BY <1>13, <2>1, <2>2
  <2>4. key[Entry(T)] = BaseOf(T)
    BY <1>7, <2>1 DEF Seen, Keyed
  <2> QED
    BY <2>3, <2>4
<1>15. s = (t + (Here(c) - T)) % Capacity(h)
  <2>1. SlotFor(h, t, BaseOf(T), call[c].index) = (t + (BlockNo(call[c].index) - T)) % Capacity(h)
    BY <1>9, <1>11, <1>12, SlotValue
  <2> QED
    BY <1>6, <1>12, <1>14, <2>1 DEF Here
<1>16. s \in DOMAIN h.index
  BY <1>9, <1>10, <1>11, <1>12, <1>15
<1>17. \A m \in Here(c) .. LastBlock(c) : h.index[(s + (m - Here(c))) % Capacity(h)] = Entry(m)
  <2>1. ASSUME NEW m \in Here(c) .. LastBlock(c)
        PROVE  h.index[(s + (m - Here(c))) % Capacity(h)] = Entry(m)
    <3>1. m \in Here(c) .. T /\ m \in Int /\ t + (Here(c) - T) \in Int /\ m - Here(c) \in Int
      BY <1>9, <1>10, <1>12, <2>1
    <3>2. (s + (m - Here(c))) % Capacity(h) = ((t + (Here(c) - T)) + (m - Here(c))) % Capacity(h)
      BY <1>11, <1>15, <3>1, RingShift
    <3>3. (t + (Here(c) - T)) + (m - Here(c)) = t + (m - T)
      BY <1>9, <1>10, <1>12, <3>1
    <3> QED
      BY <1>13, <3>1, <3>2, <3>3
  <2> QED
    BY <2>1
<1>18. LookupOK(c)'
  <2>1. call'[c].header \in 1 .. Len(headers') /\ headers'[call'[c].header] = h
    BY <1>1, <1>3, <1>4, <1>6, HeaderOf DEF LookupOK
  <2>2. \A m : Entry(m)' = Entry(m)
    BY <1>5, FrameFacts
  <2>3. Capacity(h)' = Capacity(h)
    BY DEF Capacity
  <2> QED
    BY <1>3, <1>4, <1>8, <1>16, <1>17, <2>1, <2>2, <2>3 DEF LookupOK, Capacity
<1>19. /\ cpc[c] \in ClaimedPcs \ {"unlink", "free"} /\ cpc'[c] \in LookupPcs \ {"unlink", "free"}
       /\ call'[c].first = IF cpc[c] = "claimed" THEN call[c].index ELSE call[c].first
  BY <1>1, <1>3, <1>4 DEF ClaimedPcs, LookupPcs
<1> QED
  BY <1>3, <1>4, <1>5, <1>18, <1>19, LookingStep

\* What a consumer has found.
LEMMA EntryOfValue ==
  ASSUME WindowsFit, ShareIInv, ClaimsOK, StoreOK, NEW c \in Consumers,
         cpc[c] \in {"entry", "empty", "unlink"}
  PROVE  EntryOf(c) = Entry(Here(c)) /\ value[EntryOf(c)] \in Blocks /\ Here(c) \in LiveNos
<1>1. cpc[c] \in LookupPcs /\ cpc[c] \in LookupPcs \ {"free"} /\ cpc[c] \notin {"slotTail", "free"}
  BY DEF LookupPcs
<1>2. PICK h \in Headers : h = headers[call[c].header]
  BY <1>1, HeaderOf
<1>3. Capacity(h) \in Nat \ {0} /\ call[c].slot \in 0 .. Capacity(h) - 1
  BY <1>1, <1>2, HeaderOf, HeaderFacts
<1>4. PICK t \in Int : t = call[c].slot
  BY <1>3
<1>5. /\ Here(c) \in Nat /\ Here(c) <= LastBlock(c) /\ LastBlock(c) \in Nat /\ Live(Here(c))
      /\ LastBlock(c) < Committed /\ Committed <= Listed /\ Listed \in Nat
  BY <1>1, LookupFacts DEF StoreOK
<1>6. EntryOf(c) = Entry(Here(c))
  <2>1. Here(c) \in Here(c) .. LastBlock(c)
    BY <1>5
  <2>2. h.index[(t + (Here(c) - Here(c))) % Capacity(h)] = Entry(Here(c))
    BY <1>1, <1>2, <1>4, <2>1, HeaderOf DEF LookupOK
  <2>3. (t + (Here(c) - Here(c))) % Capacity(h) = t
    <3>1. t + (Here(c) - Here(c)) = t
      BY <1>4, <1>5
    <3> QED
      BY <1>3, <1>4, <3>1, RingWrap
  <2> QED
    BY <1>2, <1>4, <2>2, <2>3 DEF EntryOf
<1>7. Here(c) \in LiveNos
  <2>1. Committed \in Nat
    BY CommittedValue
  <2>2. Here(c) \in 0 .. Limit - 1
    BY <1>5, <2>1 DEF Limit
  <2> QED
    BY <1>5, <2>2 DEF LiveNos
<1> QED
  BY <1>6, <1>7 DEF StoreOK, OwnersOK

LEMMA MoveStep ==
  ASSUME WindowsFit, ShareIInv, ClaimsOK, StoreOK, ppc # "destroyed",
         NEW c \in Consumers, Move(c)
  PROVE  ClaimsOK' /\ StoreOK'
<1> HIDE DEF Numbers
<1>0. /\ DOMAIN cpc = Consumers /\ DOMAIN call = Consumers
  BY Basics
<1>1. cpc[c] = "entry" /\ cpc[c] \in LookupPcs \ {"free", "unlink"} /\ cpc[c] \in LookupPcs
      /\ cpc[c] \in ClaimedPcs
  BY DEF Move, LookupPcs, ClaimedPcs
<1>2. DOMAIN call[c] = CallFields
  BY <1>1 DEF ClaimsOK, ClaimOK, ClaimedPcs
<1>3. /\ cpc'[c] = "empty"
      /\ \E got : call'[c] = [call[c] EXCEPT !.block = value[EntryOf(c)], !.got = got]
      /\ UNCHANGED <<tailIndex, headers, key, producerVars, value, freeBlocks, dequeued, headIndex>>
      /\ OnlyCaller(c)
  BY <1>0 DEF Move, ConsumerGoto, counters, indexVars, OnlyCaller
<1>4. /\ call'[c].slot = call[c].slot /\ call'[c].block = value[EntryOf(c)]
      /\ call'[c].index = call[c].index /\ call'[c].count = call[c].count
      /\ call'[c].first = call[c].first /\ call'[c].header = call[c].header
      /\ DOMAIN call'[c] = CallFields
  BY <1>2, <1>3 DEF CallFields
<1>5. ConsumerStep(c)
  BY <1>3 DEF ConsumerStep
<1>8. Here(c)' = Here(c) /\ LastBlock(c)' = LastBlock(c)
  <2>1. Here(c)' = Here(c)
    BY <1>4 DEF Here, BlockNo, Number
  <2>2. First(c)' = First(c)
    BY <1>1, <1>3, <1>4 DEF First, Number
  <2> QED
    BY <1>4, <2>1, <2>2 DEF LastBlock, Until
<1>9. LookupOK(c)'
  <2>1. LookupOK(c)
    BY <1>1, HeaderOf
  <2>2. \A m : Entry(m)' = Entry(m)
    BY <1>5, FrameFacts
  <2>3. PICK n : n = Here(c)
    OBVIOUS
  <2>4. Entry(Here(c))' = Entry(Here(c)) /\ EntryOf(c) = Entry(Here(c))
    BY <1>1, <1>8, <2>2, <2>3, EntryOfValue
  <2> QED
    BY <1>1, <1>3, <1>4, <1>8, <2>1, <2>2, <2>4 DEF LookupOK, Capacity
<1>10. /\ cpc[c] \in ClaimedPcs \ {"unlink", "free"} /\ cpc'[c] \in LookupPcs \ {"unlink", "free"}
       /\ call'[c].first = IF cpc[c] = "claimed" THEN call[c].index ELSE call[c].first
  BY <1>1, <1>3, <1>4 DEF ClaimedPcs, LookupPcs
<1> QED
  BY <1>3, <1>4, <1>5, <1>9, <1>10, LookingStep

\* Where the elements end that a consumer takes from the block that it is at.
Stop(c) == IF Until(c) < (Here(c) + 1) * BlockSize THEN Until(c) ELSE (Here(c) + 1) * BlockSize

LEMMA StopFacts ==
  ASSUME WindowsFit, ShareIInv, NEW c \in Consumers, ClaimOK(c), cpc[c] \in ClaimedPcs
  PROVE  /\ Stop(c) \in Nat /\ At(c) < Stop(c) /\ Stop(c) <= Until(c)
         /\ Stop(c) <= (Here(c) + 1) * BlockSize /\ (Here(c) + 1) * BlockSize \in Nat
         /\ (Here(c) + 1) * BlockSize = Here(c) * BlockSize + BlockSize
         /\ Stop(c) = Until(c) \/ Stop(c) = (Here(c) + 1) * BlockSize
         /\ At(c) .. Stop(c) - 1 \subseteq Within(Here(c))
<1> HIDE DEF Numbers
<1>1. /\ At(c) \in Nat /\ Until(c) \in Nat /\ At(c) < Until(c) /\ Here(c) \in Nat
      /\ At(c) \in Within(Here(c))
  BY ClaimFacts
<1>2. PICK h \in Nat, g \in Nat : h = Here(c) * BlockSize /\ g = (Here(c) + 1) * BlockSize
  <2>1. Here(c) + 1 \in Nat
    BY <1>1
  <2> QED
    BY <1>1, <2>1, WithinValue
<1>3. g = h + BlockSize /\ h <= At(c) /\ At(c) < h + BlockSize /\ BlockSize \in Nat
  BY <1>1, <1>2, WithinValue, BlockFacts
<1>4. Stop(c) = IF Until(c) < g THEN Until(c) ELSE g
  BY <1>2 DEF Stop
<1>5. At(c) .. Stop(c) - 1 \subseteq h .. h + BlockSize - 1
  BY <1>1, <1>2, <1>3, <1>4
<1>6. Within(Here(c)) = h .. h + BlockSize - 1
  BY <1>2 DEF Within
<1> QED
  BY <1>1, <1>2, <1>3, <1>4, <1>5, <1>6

\* What a consumer takes from a block.
LEMMA InBlockElements ==
  ASSUME WindowsFit, ShareIInv, NEW c \in Consumers, ClaimOK(c), cpc[c] \in LookupPcs
  PROVE  /\ InBlock(c) = {Element(n) : n \in At(c) .. Stop(c) - 1}
         /\ \A n \in At(c) .. Stop(c) - 1 : n \in Index
         /\ \A k \in 0 .. call[c].count - 1 : Plus(call[c].first, k) = Element(First(c) + k)
<1> HIDE DEF Numbers
<1>1. cpc[c] \in ClaimedPcs /\ cpc[c] # "claimed"
  BY DEF ClaimedPcs, LookupPcs
<1>2. PICK a \in Nat, f \in Nat, u \in Nat, s \in Nat :
        a = At(c) /\ f = First(c) /\ u = Until(c) /\ s = Stop(c)
  BY <1>1, ClaimFacts, StopFacts
<1>3. f <= a /\ a < u /\ u <= Emptied /\ a < s /\ s <= u
  BY <1>1, <1>2, ClaimFacts, StopFacts
<1>4. PICK m \in Nat, g \in Nat : m = Here(c) /\ g = (Here(c) + 1) * BlockSize
  BY <1>1, ClaimFacts, StopFacts
<1>5. u < Numbers /\ \A n \in 0 .. u : n \in Index
  <2>1. u < Numbers /\ Numbers \in Nat
    BY <1>2, <1>3, Basics
  <2> QED
    BY <2>1 DEF Index
<1>6. /\ call[c].index \in Index /\ call[c].first \in Index /\ f = Number(call[c].first)
      /\ a = Number(call[c].index) /\ u = f + call[c].count /\ call[c].count \in Nat
      /\ a = f \/ a = m * BlockSize
  BY <1>1, <1>2, <1>4 DEF ClaimOK, At, First, Until
<1>7. Base(call[c].index) = BaseOf(m)
  BY <1>4, <1>6, BlockNoValue DEF Here
<1>8. \A k \in 0 .. call[c].count - 1 : Plus(call[c].first, k) = Element(f + k) /\ f + k \in Index
  <2>1. ASSUME NEW k \in 0 .. call[c].count - 1
        PROVE  Plus(call[c].first, k) = Element(f + k) /\ f + k \in Index
    <3>1. f + k \in 0 .. u /\ f + k < Numbers /\ k \in Nat
      <4>1. PICK n \in Nat : n = call[c].count
        BY <1>6
      <4>2. k \in 0 .. n - 1 /\ u = f + n
        BY <1>6, <2>1, <4>1
      <4> QED
        BY <1>5, <4>2, Basics
    <3>2. Minus(call[c].first, StartIndex) + k < Numbers /\ StartIndex \in Index
      BY <1>6, <3>1, HalfRange DEF Number
    <3>3. /\ Plus(call[c].first, k) \in Index
          /\ Minus(Plus(call[c].first, k), StartIndex) = Minus(call[c].first, StartIndex) + k
      BY <1>6, <3>1, <3>2, Advanced
    <3>4. Number(Plus(call[c].first, k)) = f + k
      BY <1>6, <3>3 DEF Number
    <3>5. Element(Number(Plus(call[c].first, k))) = Plus(call[c].first, k)
      BY <3>3, NumberValue
    <3> QED
      BY <1>5, <3>1, <3>4, <3>5
  <2> QED
    BY <2>1
<1>9. \A n \in a .. s - 1 : Element(n) \in InBlock(c)
  <2>1. ASSUME NEW n \in a .. s - 1 PROVE Element(n) \in InBlock(c)
    <3>1. n - f \in 0 .. call[c].count - 1 /\ f + (n - f) = n /\ n \in 0 .. u
      BY <1>2, <1>3, <1>6
    <3>2. Element(n) = Plus(call[c].first, n - f)
      BY <1>8, <3>1
    <3>3. n \in Index /\ n \in Within(m)
      BY <1>1, <1>2, <1>4, <1>5, <3>1, StopFacts
    <3>4. Base(Element(n)) = BaseOf(m)
      BY <1>4, <3>3, ElementBase
    <3> QED
      BY <1>7, <3>1, <3>2, <3>4 DEF InBlock, Claimed
  <2> QED
    BY <2>1
<1>10. \A i \in InBlock(c) : Number(i) \in a .. s - 1 /\ i \in Index
  <2>1. ASSUME NEW i \in InBlock(c) PROVE Number(i) \in a .. s - 1 /\ i \in Index
    <3>1. PICK k \in 0 .. call[c].count - 1 : i = Plus(call[c].first, k)
      BY DEF InBlock, Claimed
    <3>2. PICK n \in Index : n = f + k
      BY <1>8, <3>1
    <3>3. i = Element(n) /\ i \in Index /\ Number(i) = n
      BY <1>8, <3>1, <3>2, ElementValue
    <3>4. BaseOf(BlockNo(i)) = BaseOf(m)
      BY <1>7, <3>3, BlockNoValue DEF InBlock
    <3>5. BlockNo(i) = m
      <4>1. BlockNo(i) \in Nat /\ BlockNo(i) * BlockSize \in Index
        BY <3>3, BlockNoValue
      <4>2. m * BlockSize \in Index
        BY <1>4, <1>6, BlockNoValue DEF Here
      <4> QED
        BY <1>4, <3>4, <4>1, <4>2, BaseSame
    <3>6. n \in Within(m)
      BY <3>3, <3>5, BlockNoValue
    <3>7. m * BlockSize \in Nat /\ m * BlockSize <= n /\ n < m * BlockSize + BlockSize
          /\ g = m * BlockSize + BlockSize
      BY <1>4, <3>6, WithinValue
    <3>8. s = u \/ s = g
      BY <1>1, <1>2, <1>4, StopFacts
    <3>9. f <= n /\ n < u /\ n \in Nat
      BY <1>6, <3>1, <3>2, HalfRange DEF Index
    <3>10. a <= n /\ n < s
      BY <1>6, <3>7, <3>8, <3>9
    <3> QED
      BY <3>3, <3>9, <3>10
  <2> QED
    BY <2>1
<1>11. InBlock(c) = {Element(n) : n \in a .. s - 1}
  <2>1. \A i \in InBlock(c) : \E n \in a .. s - 1 : i = Element(n)
    BY <1>10, NumberValue
  <2> QED
    BY <1>9, <2>1
<1>12. \A n \in a .. s - 1 : n \in Index
  <2>1. \A n \in a .. s - 1 : n \in 0 .. u
    BY <1>3
  <2> QED
    BY <1>5, <2>1
<1> QED
  BY <1>2, <1>8, <1>11, <1>12

\* A consumer takes as many elements from a block as it has claimed there.
LEMMA InBlockCount ==
  ASSUME WindowsFit, ShareIInv, NEW c \in Consumers, ClaimOK(c), cpc[c] \in LookupPcs
  PROVE  Cardinality(InBlock(c)) = Stop(c) - At(c)
<1> HIDE DEF Numbers
<1>1. cpc[c] \in ClaimedPcs
  BY DEF ClaimedPcs
<1>2. PICK a \in Nat, s \in Nat : a = At(c) /\ s = Stop(c) /\ a < s
  BY <1>1, ClaimFacts, StopFacts
<1>3. InBlock(c) = {Element(n) : n \in a .. s - 1} /\ \A n \in a .. s - 1 : n \in Index
  BY <1>2, InBlockElements
<1>4. [n \in a .. s - 1 |-> Element(n)] \in Bijection(a .. s - 1, InBlock(c))
  <2>1. \A n \in a .. s - 1 : Number(Element(n)) = n
    BY <1>3, ElementValue
  <2>2. \A i \in InBlock(c) : \E n \in a .. s - 1 : Element(n) = i
    BY <1>3
  <2> QED
    BY <1>3, <2>1, <2>2, Fun_IsBij
<1>5. ExistsBijection(a .. s - 1, InBlock(c))
  BY <1>4, Fun_ExistsBij
<1>6. Cardinality(a .. s - 1) = s - a /\ IsFiniteSet(a .. s - 1)
  <2>1. a \in Int /\ s - 1 \in Int /\ ~(a > s - 1)
    BY <1>2
  <2>2. Cardinality(a .. s - 1) = s - 1 - a + 1 /\ IsFiniteSet(a .. s - 1)
    BY <2>1, FS_Interval
  <2> QED
    BY <1>2, <2>2
<1> QED
  BY <1>2, <1>5, <1>6, FS_Bijection

\* A consumer that is done with a block returns, or goes on to the next block and its entry.
LEMMA NextBlockStep ==
  ASSUME WindowsFit, ShareIInv, ClaimsOK, StoreOK, NEW c \in Consumers,
         cpc[c] \in {"empty", "free"}, NextBlock(c), ConsumerStep(c), headIndex' = headIndex
  PROVE  /\ cpc'[c] \in {"idle", "entry"} /\ Open(c)' = Stop(c) .. Until(c) - 1
         /\ Taken(c)' \subseteq Taken(c) /\ ClaimOK(c)'
         /\ cpc'[c] = "entry" =>
              /\ LookupOK(c)' /\ call'[c].got = call[c].got /\ call'[c].first = call[c].first
              /\ At(c)' = Stop(c) /\ First(c)' = First(c) /\ Until(c)' = Until(c)
         /\ cpc'[c] = "idle" => Stop(c) = Until(c)
<1> HIDE DEF Numbers
<1>0. DOMAIN cpc = Consumers /\ DOMAIN call = Consumers
  BY Basics
<1>1. cpc[c] \in LookupPcs /\ cpc[c] \in ClaimedPcs /\ cpc[c] # "claimed" /\ ClaimOK(c)
  BY DEF ClaimedPcs, LookupPcs, ClaimsOK
<1>2. PICK a \in Nat, f \in Nat, u \in Nat, s \in Nat :
        a = At(c) /\ f = First(c) /\ u = Until(c) /\ s = Stop(c)
  BY <1>1, ClaimFacts, StopFacts
<1>3. f <= a /\ a < u /\ u <= Emptied /\ a < s /\ s <= u /\ u < Numbers /\ s < Numbers
  <2>1. f <= a /\ a < u /\ u <= Emptied /\ a < s /\ s <= u
    BY <1>1, <1>2, ClaimFacts, StopFacts
  <2> QED
    BY <1>2, <2>1, Basics
<1>4. PICK m \in Nat : m = Here(c)
  BY <1>1, ClaimFacts
<1>13. PICK i, e : /\ i = Plus(call[c].index, Cardinality(InBlock(c)))
                   /\ e = Plus(call[c].first, call[c].count)
  OBVIOUS
<1>5. PICK n \in Nat : /\ n = Cardinality(InBlock(c)) /\ i = Plus(call[c].index, n)
                       /\ e = Plus(call[c].first, call[c].count)
  <2>1. Cardinality(InBlock(c)) = Stop(c) - At(c)
    BY <1>1, InBlockCount
  <2>2. s - a \in Nat
    BY <1>3
  <2> QED
    BY <1>2, <1>13, <2>1, <2>2
<1>6. /\ call[c].index \in Index /\ call[c].first \in Index /\ f = Number(call[c].first)
      /\ a = Number(call[c].index) /\ u = f + call[c].count /\ call[c].count \in Nat
      /\ n = s - a /\ DOMAIN call[c] = CallFields
  <2>1. n = s - a
    BY <1>1, <1>2, <1>5, InBlockCount
  <2> QED
    BY <1>1, <1>2, <2>1 DEF ClaimOK, At, First, Until
<1>7. i \in Index /\ Number(i) = s
  <2>1. Minus(call[c].index, StartIndex) + n = s
    BY <1>3, <1>6 DEF Number
  <2>2. StartIndex \in Index /\ Minus(call[c].index, StartIndex) + n < Numbers
    BY <1>3, <2>1, HalfRange
  <2> QED
    BY <1>5, <1>6, <2>1, <2>2, Advanced DEF Number
<1>8. e \in Index /\ Number(e) = u
  <2>1. Minus(call[c].first, StartIndex) + call[c].count = u
    BY <1>6 DEF Number
  <2>2. StartIndex \in Index /\ Minus(call[c].first, StartIndex) + call[c].count < Numbers
    BY <1>3, <2>1, HalfRange
  <2> QED
    BY <1>5, <1>6, <2>1, <2>2, Advanced DEF Number
<1>9. i = e <=> s = u
  BY <1>7, <1>8, NumberValue
<1>10. Taken(c) = f .. u - 1
  BY <1>1, <1>2 DEF Taken
<1>11. CASE s = u
  <2>1. ReturnFrom(c)
    BY <1>5, <1>9, <1>11 DEF NextBlock
  <2>2. cpc'[c] = "idle"
    BY <1>0, <2>1 DEF ReturnFrom, ConsumerGoto
  <2>3. Open(c)' = {} /\ Taken(c)' = {} /\ ClaimOK(c)'
    BY <2>2 DEF Open, Taken, ClaimOK, ClaimedPcs, LookupPcs
  <2>4. Stop(c) .. Until(c) - 1 = {}
    BY <1>2, <1>11
  <2> QED
    BY <1>2, <1>11, <2>2, <2>3, <2>4
<1>12. CASE s # u
  <2>1. PICK h \in Headers : h = headers[call[c].header]
    BY <1>1, HeaderOf
  <2>2. /\ cpc'[c] = "entry"
        /\ call'[c] = [call[c] EXCEPT !.index = i, !.block = NoBlock,
                                      !.slot = (@ + 1) % Capacity(h)]
    BY <1>0, <1>5, <1>9, <1>12, <2>1 DEF NextBlock, ConsumerGoto
  <2>3. /\ call'[c].index = i /\ call'[c].first = call[c].first
        /\ call'[c].count = call[c].count /\ call'[c].header = call[c].header
        /\ call'[c].slot = (call[c].slot + 1) % Capacity(h) /\ DOMAIN call'[c] = CallFields
        /\ call'[c].got = call[c].got
    BY <1>6, <2>2 DEF CallFields
  <2>4. At(c)' = s /\ First(c)' = f /\ Until(c)' = u
    <3>1. At(c)' = s
      BY <1>7, <2>3 DEF At, Number
    <3>2. First(c)' = f
      BY <1>6, <2>2, <2>3 DEF First, Number
    <3> QED
      BY <1>6, <2>3, <3>1, <3>2 DEF Until
  <2>5. s \in Within(m + 1) /\ s = (m + 1) * BlockSize
    <3>1. s = (m + 1) * BlockSize /\ m + 1 \in Nat
      BY <1>1, <1>2, <1>4, <1>12, StopFacts
    <3> QED
      BY <3>1, WithinValue
  <2>6. Here(c)' = m + 1
    <3>1. BlockNo(i) \in Nat /\ s \in Within(BlockNo(i)) /\ m + 1 \in Nat
      BY <1>7, BlockNoValue
    <3>2. BlockNo(i) = m + 1
      BY <2>5, <3>1, WithinUnique
    <3> QED
      BY <2>3, <3>2 DEF Here, BlockNo, Number
  <2>7. LastBlock(c)' = LastBlock(c)
    BY <1>2, <2>4 DEF LastBlock
  <2>8. Open(c)' = s .. u - 1 /\ Taken(c)' = f .. u - 1
    BY <2>2, <2>4 DEF Open, Taken, From, ClaimedPcs, LookupPcs
  <2>9. ClaimOK(c)'
    <3>1. Emptied' = Emptied
      BY DEF Emptied
    <3>2. PICK k : k = m + 1
      OBVIOUS
    <3>3. Here(c)' * BlockSize = s
      BY <2>5, <2>6
    <3>4. s \in f .. u - 1
      BY <1>3, <1>12
    <3> QED
      BY <1>3, <1>6, <1>7, <2>2, <2>3, <2>4, <3>1, <3>3, <3>4 DEF ClaimOK
  <2>10. LookupOK(c)'
    <3>1. Capacity(h) \in Nat \ {0} /\ DOMAIN h.index = 0 .. Capacity(h) - 1
          /\ call[c].slot \in 0 .. Capacity(h) - 1 /\ LookupOK(c)
      BY <1>1, <2>1, HeaderOf, HeaderFacts
    <3>2. PICK t \in Int : t = call[c].slot
      BY <3>1
    <3>3. (t + 1) % Capacity(h) \in DOMAIN h.index
      BY <3>1, <3>2
    <3>4. LastBlock(c) \in Nat
      BY <1>1, ClaimFacts
    <3>5. ASSUME NEW q \in m + 1 .. LastBlock(c)
          PROVE  h.index[(((t + 1) % Capacity(h)) + (q - (m + 1))) % Capacity(h)] = Entry(q)
      <4>1. q \in m .. LastBlock(c) /\ q # m /\ q \in Int
        BY <3>4, <3>5
      <4>2. h.index[(t + (q - m)) % Capacity(h)] = Entry(q)
        BY <1>4, <2>1, <3>1, <3>2, <4>1 DEF LookupOK
      <4>3. t + 1 \in Int /\ q - (m + 1) \in Int /\ (t + 1) + (q - (m + 1)) = t + (q - m)
        BY <3>2, <4>1
      <4>4. (((t + 1) % Capacity(h)) + (q - (m + 1))) % Capacity(h)
              = ((t + 1) + (q - (m + 1))) % Capacity(h)
        BY <3>1, <4>3, RingShift
      <4> QED
        BY <4>2, <4>3, <4>4
    <3>6. headers' = headers /\ \A q : Entry(q)' = Entry(q)
      BY FrameFacts
    <3>7. call'[c].header \in 1 .. Len(headers') /\ headers'[call'[c].header] = h
      BY <2>1, <2>3, <3>1, <3>6 DEF LookupOK
    <3>8. PICK w : w = (t + 1) % Capacity(h)
      OBVIOUS
    <3>9. call'[c].slot = w /\ w \in DOMAIN h.index
      BY <2>3, <3>2, <3>3, <3>8
    <3>10. \A q \in m + 1 .. LastBlock(c) :
             h.index[(w + (q - (m + 1))) % Capacity(h)] = Entry(q)
      BY <3>5, <3>8
    <3> QED
      BY <2>2, <2>6, <2>7, <3>6, <3>7, <3>9, <3>10 DEF LookupOK, Capacity
  <2> QED
    BY <1>2, <1>10, <2>2, <2>3, <2>4, <2>8, <2>9, <2>10
<1> QED
  BY <1>11, <1>12

\* What a consumer takes out of a block, it alone had yet to take.
LEMMA ElementsLeft ==
  ASSUME WindowsFit, ShareIInv, ClaimsOK, NEW c \in Consumers, cpc[c] \in ClaimedPcs,
         cpc[c] \notin {"unlink", "free"}
  PROVE  /\ \A n \in At(c) .. Stop(c) - 1 :
              /\ n \in Nat /\ n < Emptied /\ n \in Open(c) /\ ~Consumed(n)
              /\ \A d \in Consumers \ {c} : n \notin Open(d)
         /\ Open(c) = At(c) .. Until(c) - 1
<1> HIDE DEF Numbers
<1>1. PICK a \in Nat, u \in Nat, s \in Nat, f \in Nat :
        a = At(c) /\ u = Until(c) /\ s = Stop(c) /\ f = First(c)
  BY ClaimFacts, StopFacts DEF ClaimsOK
<1>2. f <= a /\ a < s /\ s <= u /\ u <= Emptied /\ Emptied \in Nat
  BY <1>1, ClaimFacts, StopFacts, Basics DEF ClaimsOK
<1>3. Open(c) = a .. u - 1 /\ Taken(c) = f .. u - 1
  BY <1>1 DEF Open, Taken, From
<1>4. \A d \in Consumers : Open(d) \subseteq Taken(d)
  <2>1. ASSUME NEW d \in Consumers, cpc[d] \in ClaimedPcs PROVE Open(d) \subseteq Taken(d)
    <3>1. First(d) \in Nat /\ Until(d) \in Nat /\ From(d) \in Nat /\ First(d) <= At(d)
          /\ At(d) <= From(d) /\ At(d) \in Nat
      BY <2>1, ClaimFacts DEF ClaimsOK
    <3> QED
      BY <2>1, <3>1 DEF Open, Taken
  <2> QED
    BY <2>1 DEF Open
<1>5. ASSUME NEW n \in a .. s - 1
      PROVE  /\ n \in Nat /\ n < Emptied /\ n \in Open(c) /\ ~Consumed(n)
             /\ \A d \in Consumers \ {c} : n \notin Open(d)
  <2>1. n \in a .. u - 1 /\ n \in f .. u - 1 /\ n \in Nat /\ n < Emptied
    BY <1>2
  <2>2. \A d \in Consumers \ {c} : n \notin Open(d)
    BY <1>3, <1>4, <2>1 DEF ClaimsOK
  <2> QED
    BY <1>3, <2>1, <2>2 DEF Consumed
<1> QED
  BY <1>1, <1>3, <1>5

\* The counts of the blocks once a consumer has counted what it took from block m.
LEMMA TakenCounts ==
  ASSUME WindowsFit, ShareIInv, ClaimsOK, StoreOK, NEW c \in Consumers, cpc[c] = "empty",
         ConsumerStep(c), headIndex' = headIndex, Open(c)' = Stop(c) .. Until(c) - 1,
         NEW m \in Nat, m = Here(c)
  PROVE  /\ \A n \in Nat : Consumed(n)' <=> Consumed(n) \/ n \in At(c) .. Stop(c) - 1
         /\ \A q \in Nat : q # m => ConsumedIn(q)' = ConsumedIn(q)
         /\ Cardinality(ConsumedIn(m)') = Cardinality(ConsumedIn(m)) + (Stop(c) - At(c))
         /\ Cardinality(ConsumedIn(m)') = BlockSize <=> \A n \in Within(m) : Consumed(n)'
<1> HIDE DEF Numbers
<1>1. cpc[c] \in ClaimedPcs /\ cpc[c] \notin {"unlink", "free"} /\ ClaimOK(c)
  BY DEF ClaimedPcs, LookupPcs, ClaimsOK
<1>2. PICK a \in Nat, u \in Nat, s \in Nat : a = At(c) /\ u = Until(c) /\ s = Stop(c)
  BY <1>1, ClaimFacts, StopFacts
<1>3. a < s /\ s <= u /\ Open(c) = a .. u - 1 /\ a .. s - 1 \subseteq Within(m)
  BY <1>1, <1>2, ClaimFacts, StopFacts, ElementsLeft
<1>4. \A n \in a .. s - 1 : /\ n \in Nat /\ n < Emptied /\ ~Consumed(n)
                            /\ \A d \in Consumers \ {c} : n \notin Open(d)
  BY <1>1, <1>2, ElementsLeft
<1>5. Emptied' = Emptied /\ Open(c)' = s .. u - 1
  BY <1>2 DEF Emptied
<1>6. ASSUME NEW n \in Nat PROVE Consumed(n)' <=> Consumed(n) \/ n \in a .. s - 1
  <2>1. \A d \in Consumers \ {c} : Open(d)' = Open(d)
    BY FrameFacts
  <2>2. n \in Open(c)' <=> n \in Open(c) /\ n \notin a .. s - 1
    BY <1>2, <1>3, <1>5
  <2>3. CASE n \in a .. s - 1
    BY <1>4, <1>5, <2>1, <2>2, <2>3 DEF Consumed
  <2>4. CASE n \notin a .. s - 1
    BY <1>5, <2>1, <2>2, <2>4 DEF Consumed
  <2> QED
    BY <2>3, <2>4
<1>7. ASSUME NEW q \in Nat, q # m PROVE ConsumedIn(q)' = ConsumedIn(q)
  <2>1. ASSUME NEW n \in Within(q) PROVE Consumed(n)' <=> Consumed(n)
    <3>1. n \in Nat
      BY <1>7, <2>1, WithinValue
    <3>2. n \notin a .. s - 1
      BY <1>3, <1>7, <2>1, WithinUnique
    <3> QED
      BY <1>6, <3>1, <3>2
  <2>2. Within(q)' = Within(q)
    BY DEF Within
  <2> QED
    BY <2>1, <2>2 DEF ConsumedIn
<1>8. PICK W, B : W = Within(m) /\ B = a .. s - 1
  OBVIOUS
<1>9. W \subseteq Nat /\ W = Within(m)' /\ B \subseteq W
  BY <1>3, <1>8, WithinValue DEF Within
<1>10. IsFiniteSet(W) /\ Cardinality(W) = BlockSize
  <2>1. PICK x \in Nat, k \in Nat \ {0} : x = m * BlockSize /\ k = BlockSize
    BY WithinValue, BlockFacts
  <2>2. PICK y \in Int : y = x + k - 1
    BY <2>1
  <2>3. IsFiniteSet(x .. y) /\ Cardinality(x .. y) = y - x + 1
    <3>1. x \in Int /\ y \in Int /\ ~(x > y)
      BY <2>1, <2>2
    <3> QED
      BY <3>1, FS_Interval
  <2>4. y - x + 1 = k /\ W = x .. y
    BY <1>8, <2>1, <2>2 DEF Within
  <2> QED
    BY <1>8, <2>1, <2>3, <2>4 DEF Within
<1>11. PICK C, D : C = ConsumedIn(m) /\ D = ConsumedIn(m)'
  OBVIOUS
<1>12. D = C \cup B /\ C \cap B = {} /\ D \subseteq W
  <2>1. C = {n \in W : Consumed(n)} /\ D = {n \in W : Consumed(n)'}
    BY <1>8, <1>9, <1>11 DEF ConsumedIn
  <2>2. \A n \in W : Consumed(n)' <=> Consumed(n) \/ n \in B
    BY <1>6, <1>8, <1>9
  <2>3. \A n \in B : ~Consumed(n)
    BY <1>4, <1>8
  <2> QED
    BY <1>9, <2>1, <2>2, <2>3
<1>13. Cardinality(D) = Cardinality(C) + (s - a)
  <2>1. IsFiniteSet(C) /\ IsFiniteSet(B)
    BY <1>9, <1>10, <1>12, FS_Subset
  <2>2. Cardinality(B) = s - a
    <3>1. a \in Int /\ s - 1 \in Int /\ ~(a > s - 1)
      BY <1>2, <1>3
    <3>2. Cardinality(a .. s - 1) = s - 1 - a + 1
      BY <3>1, FS_Interval
    <3> QED
      BY <1>2, <1>8, <3>2
  <2>3. Cardinality(C \cup B) = Cardinality(C) + Cardinality(B) - Cardinality(C \cap B)
    BY <2>1, FS_Union
  <2>4. Cardinality(C \cap B) = 0 /\ Cardinality(C) \in Nat
    BY <1>12, <2>1, FS_EmptySet, FS_CardinalityType
  <2> QED
    BY <1>2, <1>12, <2>2, <2>3, <2>4
<1>14. Cardinality(D) = BlockSize <=> \A n \in W : Consumed(n)'
  <2>1. D = {n \in W : Consumed(n)'}
    BY <1>8, <1>9, <1>11 DEF ConsumedIn
  <2>2. Cardinality(D) = BlockSize => D = W
    BY <1>10, <1>12, FS_Subset
  <2>3. D = W => Cardinality(D) = BlockSize
    BY <1>10
  <2> QED
    BY <2>1, <2>2, <2>3
<1> QED
  BY <1>2, <1>6, <1>7, <1>8, <1>11, <1>13, <1>14

LEMMA SetEmptyStep ==
  ASSUME WindowsFit, ShareIInv, ClaimsOK, StoreOK, ppc # "destroyed",
         NEW c \in Consumers, SetEmpty(c)
  PROVE  /\ ClaimsOK' /\ StoreOK' /\ ConsumerStep(c)
         /\ \A q \in Nat : Live(q)' <=> Live(q)
         /\ cpc'[c] = "unlink" => call' = call
         /\ cpc'[c] # "unlink" => NextBlock(c)
<1> HIDE DEF Numbers
<1>0. DOMAIN cpc = Consumers /\ DOMAIN call = Consumers
  BY Basics
<1>1. /\ cpc[c] = "empty" /\ cpc[c] \in LookupPcs /\ cpc[c] \in ClaimedPcs /\ cpc[c] # "claimed"
      /\ cpc[c] \notin {"unlink", "free"} /\ cpc[c] # "slotTail" /\ ClaimOK(c)
  BY DEF SetEmpty, LookupPcs, ClaimedPcs, ClaimsOK
<1>2. PICK a \in Nat, s \in Nat, u \in Nat, m \in Nat :
        a = At(c) /\ s = Stop(c) /\ u = Until(c) /\ m = Here(c)
  BY <1>1, ClaimFacts, StopFacts
<1>3. PICK b \in Blocks : b = call[c].block /\ b = value[Entry(m)] /\ m \in LiveNos
  <2>1. EntryOf(c) = Entry(Here(c)) /\ value[EntryOf(c)] \in Blocks /\ Here(c) \in LiveNos
    BY <1>1, EntryOfValue
  <2>2. call[c].block = value[Entry(Here(c))]
    BY <1>1, HeaderOf DEF LookupOK
  <2> QED
    BY <1>2, <2>1, <2>2
<1>4. PICK n \in Nat : n = Cardinality(InBlock(c)) /\ n = s - a
  <2>1. s - a \in Nat
    BY <1>1, <1>2, StopFacts
  <2> QED
    BY <1>1, <1>2, <2>1, InBlockCount
<1>5. /\ dequeued' = [dequeued EXCEPT ![b] = @ + n]
      /\ UNCHANGED <<tailIndex, headers, key, producerVars, value, freeBlocks, headIndex>>
      /\ IF dequeued[b] + n = BlockSize
         THEN ConsumerGoto(c, "unlink") /\ call' = call
         ELSE NextBlock(c)
  BY <1>3, <1>4 DEF SetEmpty, counters, indexVars
<1>6. OnlyCaller(c)
  BY <1>0, <1>5 DEF ConsumerGoto, NextBlock, ReturnFrom, OnlyCaller
<1>7. ConsumerStep(c)
  BY <1>5, <1>6 DEF ConsumerStep
<1>8. DOMAIN dequeued = Blocks /\ dequeued[b] = Cardinality(ConsumedIn(m))
  BY <1>3 DEF StoreOK, OwnersOK
<1>9. /\ cpc'[c] \in {"unlink", "idle", "entry"} /\ Open(c)' = Stop(c) .. Until(c) - 1
      /\ Taken(c)' \subseteq Taken(c)
      /\ cpc'[c] # "unlink" => ClaimOK(c)' /\ (cpc'[c] = "entry" => LookupOK(c)')
      /\ dequeued[b] + n = BlockSize <=> cpc'[c] = "unlink"
      /\ cpc'[c] = "unlink" => call' = call
      /\ cpc'[c] # "unlink" => NextBlock(c)
  <2>1. CASE dequeued[b] + n = BlockSize
    <3>1. cpc'[c] = "unlink" /\ call' = call
      BY <1>0, <1>5, <2>1 DEF ConsumerGoto
    <3>2. At(c)' = At(c) /\ First(c)' = First(c) /\ Until(c)' = Until(c) /\ Here(c)' = Here(c)
      BY <1>1, <3>1 DEF At, First, Until, Here, Number, BlockNo
    <3>3. PICK g \in Nat : g = (m + 1) * BlockSize
      BY <1>1, <1>2, StopFacts
    <3>4. Open(c)' = g .. u - 1
      BY <1>2, <3>1, <3>2, <3>3 DEF Open, From, ClaimedPcs, LookupPcs
    <3>5. s <= u /\ s <= g /\ (s = u \/ s = g)
      BY <1>1, <1>2, <3>3, StopFacts
    <3>6. g .. u - 1 = s .. u - 1
      BY <1>2, <3>3, <3>5
    <3>7. Taken(c)' = Taken(c)
      BY <1>1, <3>1, <3>2 DEF Taken, ClaimedPcs, LookupPcs
    <3> QED
      BY <1>2, <2>1, <3>1, <3>4, <3>6, <3>7
  <2>2. CASE dequeued[b] + n # BlockSize
    <3>1. NextBlock(c)
      BY <1>5, <2>2
    <3> QED
      BY <1>1, <1>5, <1>7, <2>2, <3>1, NextBlockStep
  <2> QED
    BY <2>1, <2>2
<1>10. /\ \A q \in Nat : Consumed(q)' <=> Consumed(q) \/ q \in a .. s - 1
       /\ \A q \in Nat : q # m => ConsumedIn(q)' = ConsumedIn(q)
       /\ Cardinality(ConsumedIn(m)') = Cardinality(ConsumedIn(m)) + n
       /\ Cardinality(ConsumedIn(m)') = BlockSize <=> \A q \in Within(m) : Consumed(q)'
  BY <1>1, <1>2, <1>4, <1>5, <1>7, <1>9, TakenCounts
<1>11. a \in Within(m) /\ ~Consumed(a)
  <2>1. a \in a .. s - 1 /\ At(c) .. Stop(c) - 1 \subseteq Within(Here(c))
    BY <1>1, <1>2, StopFacts
  <2> QED
    BY <1>1, <1>2, <2>1, ElementsLeft
<1>12. cpc'[c] = "unlink" => Here(c)' = m /\ \A q \in Within(m) : Consumed(q)'
  BY <1>1, <1>2, <1>8, <1>9, <1>10 DEF Here, BlockNo, Number
<1>13. ClaimOK(c)'
  <2>1. ASSUME cpc'[c] = "unlink" PROVE ClaimOK(c)'
    <3>1. At(c)' = At(c) /\ First(c)' = First(c) /\ Until(c)' = Until(c) /\ Here(c)' = Here(c)
          /\ call' = call /\ Emptied' = Emptied
      BY <1>1, <1>5, <1>9, <2>1 DEF At, First, Until, Here, Number, BlockNo, Emptied
    <3>2. \A q \in Within(Here(c))' : Consumed(q)'
      BY <1>2, <1>12, <2>1, <3>1 DEF Within
    <3> QED
      BY <1>1, <2>1, <3>1, <3>2 DEF ClaimOK
  <2> QED
    BY <1>9, <2>1
<1>14. ClaimsOK'
  <2>1. Emptied' = Emptied /\ Emptied \in Nat
    BY <1>5, Basics DEF Emptied
  <2>2. Emptied' \in Nat /\ Emptied <= Emptied'
    BY <2>1
  <2>3. \A d \in Consumers : cpc[d] \in ClaimedPcs => Until(d) \in Nat /\ Here(d) \in Nat
    BY ClaimFacts DEF ClaimsOK
  <2>4. \A d \in Consumers \ {c} : Taken(c)' \cap Taken(d) = {}
    BY <1>9 DEF ClaimsOK
  <2>5. cpc'[c] = "unlink" => \A d \in Consumers \ {c} : cpc[d] = "unlink" => Here(d) # Here(c)'
    <3>1. ASSUME NEW d \in Consumers, cpc[d] = "unlink" PROVE Here(d) # m
      <4>1. \A q \in Within(Here(d)) : Consumed(q)
        BY <3>1 DEF ClaimsOK, ClaimOK, ClaimedPcs, LookupPcs
      <4> QED
        BY <1>11, <4>1
    <3> QED
      BY <1>12, <3>1
  <2>6. \A q \in Nat : Consumed(q) => Consumed(q)'
    BY <1>10
  <2> QED
    BY <1>7, <1>13, <2>1, <2>2, <2>3, <2>4, <2>5, <2>6, ClaimsKept
<1>15. ASSUME NEW q \in Nat PROVE Live(q)' <=> Live(q)
  <2>0. Within(q)' = Within(q)
    BY DEF Within
  <2>1. CASE q = m
    <3>1. Live(q)
      BY <1>11, <2>1 DEF Live
    <3>2. CASE cpc'[c] = "unlink"
      BY <1>12, <2>1, <3>1, <3>2 DEF Live
    <3>3. CASE cpc'[c] # "unlink"
      <4>1. ~(\A k \in Within(m) : Consumed(k)')
        BY <1>8, <1>9, <1>10, <3>3
      <4> QED
        BY <2>0, <2>1, <3>1, <4>1 DEF Live
    <3> QED
      BY <3>2, <3>3
  <2>2. CASE q # m
    <3>1. ConsumedIn(q)' = ConsumedIn(q)
      BY <1>10, <2>2
    <3>2. \A k \in Within(q) : Consumed(k)' <=> Consumed(k)
      BY <2>0, <3>1 DEF ConsumedIn
    <3>3. \A d \in Consumers : cpc'[d] = "unlink" /\ Here(d)' = q <=> cpc[d] = "unlink" /\ Here(d) = q
      BY <1>1, <1>7, <1>12, <2>2, FrameFacts
    <3> QED
      BY <2>0, <3>2, <3>3 DEF Live
  <2> QED
    BY <2>1, <2>2
<1>16. OwnersOK'
  <2>1. \A q \in LiveNos : q \in Nat
    <3>1. \A q \in 0 .. Limit - 1 : q \in Nat
      BY ListedFacts DEF StoreOK, Limit
    <3> QED
      BY <3>1 DEF LiveNos
  <2>2. ASSUME NEW q \in LiveNos PROVE dequeued'[value[Entry(q)]] = Cardinality(ConsumedIn(q)')
    <3>1. CASE q = m
      BY <1>3, <1>5, <1>8, <1>10, <3>1
    <3>2. CASE q # m
      <4>1. value[Entry(q)] # b
        BY <1>3, <2>2, <3>2 DEF StoreOK, OwnersOK
      <4>2. dequeued'[value[Entry(q)]] = dequeued[value[Entry(q)]]
        BY <1>5, <4>1 DEF StoreOK, OwnersOK
      <4>3. dequeued[value[Entry(q)]] = Cardinality(ConsumedIn(q))
        BY DEF StoreOK, OwnersOK
      <4> QED
        BY <1>10, <2>1, <3>2, <4>2, <4>3
    <3> QED
      BY <3>1, <3>2
  <2>3. DOMAIN dequeued' = DOMAIN dequeued /\ UNCHANGED <<value, freeBlocks>>
    BY <1>5
  <2>4. Freeing' = Freeing /\ \A d \in Freeing : call'[d].block = call[d].block
    <3>1. \A d \in Consumers \ {c} : cpc'[d] = cpc[d] /\ call'[d] = call[d]
      BY <1>7, FrameFacts
    <3> QED
      BY <1>1, <1>9, <3>1 DEF Freeing
  <2> QED
    BY <1>7, <1>15, <2>2, <2>3, <2>4, FramedOwners DEF StoreOK
<1>17. EnqOK' /\ RingOK'
  <2>1. ppc = "value" => dequeued'[enq.fresh] = dequeued[enq.fresh]
    <3>1. enq.fresh # b
      BY <1>3 DEF StoreOK, OwnersOK
    <3> QED
      BY <1>5, <3>1
  <2> QED
    BY <1>7, <1>15, <2>1, FramedRing
<1>18. LookupsOK'
  <2>1. ASSUME NEW d \in Consumers \ {c}, cpc'[d] \in LookupPcs PROVE LookupOK(d)'
    <3>1. LookupOK(d)
      BY <1>7, <2>1, FrameFacts DEF StoreOK, LookupsOK
    <3> QED
      BY <1>5, <1>7, <3>1, FramedLookup
  <2>2. ASSUME cpc'[c] = "unlink" PROVE LookupOK(c)'
    <3>1. LookupOK(c)
      BY <1>1, HeaderOf
    <3>2. call' = call /\ value' = value /\ headers' = headers
      BY <1>5, <1>9, <2>2
    <3>3. Here(c)' = Here(c) /\ LastBlock(c)' = LastBlock(c)
      BY <1>1, <2>2, <3>2 DEF Here, LastBlock, Until, First, At, Number, BlockNo
    <3>4. \A q : Entry(q)' = Entry(q)
      BY <1>7, FrameFacts
    <3>5. Entry(Here(c))' = Entry(m)
      BY <1>2, <3>3, <3>4
    <3> QED
      BY <1>1, <1>2, <2>2, <3>1, <3>2, <3>3, <3>4, <3>5 DEF LookupOK, Capacity
  <2>3. cpc'[c] \in LookupPcs => cpc'[c] \in {"unlink", "entry"}
    BY <1>9 DEF LookupPcs
  <2> QED
    BY <1>9, <2>1, <2>2, <2>3 DEF LookupsOK
<1> QED
  BY <1>7, <1>9, <1>14, <1>15, <1>16, <1>17, <1>18 DEF StoreOK

LEMMA UnlinkBlockStep ==
  ASSUME WindowsFit, ShareIInv, ClaimsOK, StoreOK, ppc # "destroyed",
         NEW c \in Consumers, UnlinkBlock(c)
  PROVE  /\ ClaimsOK' /\ StoreOK' /\ ConsumerStep(c)
         /\ \A q \in Nat : Live(q)' => Live(q)
         /\ LiveNos' = LiveNos \ {Here(c)} /\ Freeing' = Freeing \cup {c}
         /\ \A q \in LiveNos' : value'[Entry(q)'] = value[Entry(q)]
         /\ value[Entry(Here(c))] = call[c].block
         /\ At(c)' = At(c) /\ First(c)' = First(c) /\ Until(c)' = Until(c) /\ Here(c)' = Here(c)
<1> HIDE DEF Numbers
<1>0. DOMAIN cpc = Consumers /\ DOMAIN call = Consumers
  BY Basics
<1>1. /\ cpc[c] = "unlink" /\ cpc[c] \in LookupPcs /\ cpc[c] \in ClaimedPcs /\ ClaimOK(c)
  BY DEF UnlinkBlock, LookupPcs, ClaimedPcs, ClaimsOK
<1>2. PICK m \in Nat : m = Here(c)
  BY <1>1, ClaimFacts
<1>3. PICK b \in Blocks : b = call[c].block /\ b = value[Entry(m)] /\ m \in LiveNos
                          /\ EntryOf(c) = Entry(m)
  <2>1. EntryOf(c) = Entry(Here(c)) /\ value[EntryOf(c)] \in Blocks /\ Here(c) \in LiveNos
    BY <1>1, EntryOfValue
  <2>2. call[c].block = value[Entry(Here(c))]
    BY <1>1, HeaderOf DEF LookupOK
  <2> QED
    BY <1>2, <2>1, <2>2
<1>4. PICK e : e = Entry(m)
  OBVIOUS
<1>5. /\ value' = [value EXCEPT ![e] = NoBlock] /\ cpc'[c] = "free" /\ call' = call
      /\ UNCHANGED <<tailIndex, headers, key, producerVars, freeBlocks, dequeued, headIndex>>
      /\ OnlyCaller(c)
  BY <1>0, <1>3, <1>4 DEF UnlinkBlock, ConsumerGoto, counters, storage, OnlyCaller
<1>6. ConsumerStep(c)
  BY <1>5 DEF ConsumerStep
<1>7. /\ At(c)' = At(c) /\ First(c)' = First(c) /\ Until(c)' = Until(c) /\ Here(c)' = Here(c)
      /\ LastBlock(c)' = LastBlock(c) /\ Emptied' = Emptied
      /\ Open(c)' = Open(c) /\ Taken(c)' = Taken(c)
  BY <1>1, <1>5 DEF At, First, Until, Here, Number, BlockNo, LastBlock, Emptied, Open, Taken, From,
     ClaimedPcs, LookupPcs
<1>8. ASSUME NEW n PROVE Consumed(n)' <=> Consumed(n)
  <2>1. \A d \in Consumers : Open(d)' = Open(d)
    BY <1>6, <1>7, FrameFacts
  <2> QED
    BY <1>7, <2>1 DEF Consumed
<1>9. \A n \in Within(m) : Consumed(n)
  BY <1>1, <1>2 DEF ClaimOK
<1>10. ClaimsOK'
  <2>1. Emptied \in Nat /\ Emptied' \in Nat /\ Emptied <= Emptied'
    BY <1>7, Basics
  <2>2. \A d \in Consumers : cpc[d] \in ClaimedPcs => Until(d) \in Nat /\ Here(d) \in Nat
    BY ClaimFacts DEF ClaimsOK
  <2>3. \A d \in Consumers \ {c} : Taken(c)' \cap Taken(d) = {}
    BY <1>7 DEF ClaimsOK
  <2>4. ClaimOK(c)'
    BY <1>1, <1>5, <1>7 DEF ClaimOK
  <2> QED
    BY <1>5, <1>6, <1>8, <2>1, <2>2, <2>3, <2>4, ClaimsKept
<1>11. ASSUME NEW q \in Nat PROVE Live(q)' <=> Live(q) /\ q # m
  <2>1. \A n \in Within(q) : Consumed(n)' <=> Consumed(n)
    BY <1>8
  <2>2. Within(q)' = Within(q)
    BY DEF Within
  <2>3. \A d \in Consumers : cpc'[d] = "unlink" /\ Here(d)' = q <=>
                             d # c /\ cpc[d] = "unlink" /\ Here(d) = q
    BY <1>5, <1>6, FrameFacts
  <2>4. \A d \in Consumers : d # c /\ cpc[d] = "unlink" => Here(d) # m
    BY <1>1, <1>2 DEF ClaimsOK
  <2>5. CASE q = m
    BY <1>8, <1>9, <2>1, <2>2, <2>3, <2>4, <2>5 DEF Live
  <2>6. CASE q # m
    <3>1. cpc[c] = "unlink" /\ Here(c) # q
      BY <1>1, <1>2, <2>6
    <3> QED
      BY <2>1, <2>2, <2>3, <2>6, <3>1 DEF Live
  <2> QED
    BY <2>5, <2>6
<1>12. /\ Committed' = Committed /\ Limit' = Limit /\ (Undoing' <=> Undoing)
       /\ enq' = enq /\ Chained' = Chained /\ \A q : Entry(q)' = Entry(q)
  BY <1>6, FrameFacts
<1>13. \A q \in LiveNos : q \in Nat
  <2>1. \A q \in 0 .. Limit - 1 : q \in Nat
    BY ListedFacts DEF StoreOK, Limit
  <2> QED
    BY <2>1 DEF LiveNos
<1>14. LiveNos' = LiveNos \ {m}
  <2>1. \A q \in 0 .. Limit - 1 : q \in Nat
    BY ListedFacts DEF StoreOK, Limit
  <2> QED
    BY <1>11, <1>12, <2>1 DEF LiveNos
<1>15. \A q \in LiveNos : q # m => Entry(q) # e /\ value'[Entry(q)] = value[Entry(q)]
                                   /\ value[Entry(q)] # b
  BY <1>3, <1>4, <1>5 DEF StoreOK, OwnersOK
<1>16. ASSUME NEW q \in Nat PROVE ConsumedIn(q)' = ConsumedIn(q)
  BY <1>8 DEF ConsumedIn, Within
<1>17. ASSUME NEW i \in 1 .. Len(enq.chain), ~Undoing
       PROVE  /\ Entry(Committed + i - 1)' = Entry(Committed + i - 1)
              /\ value'[Entry(Committed + i - 1)] = enq.chain[i] /\ enq.chain[i] # b
  <2>1. PICK n : n = Committed + i - 1
    OBVIOUS
  <2>2. n = (Committed + i - 1)'
    BY <1>12, <2>1
  <2>3. n \in LiveNos
    <3>1. Committed \in Nat /\ Len(enq.chain) \in Nat /\ Listed = Committed + Len(enq.chain)
      BY ListedFacts DEF StoreOK
    <3>2. n \in Nat /\ Committed <= n /\ n \in 0 .. Listed - 1
      BY <1>17, <2>1, <3>1
    <3> QED
      BY <1>17, <3>2, LivePrepared DEF LiveNos, Limit
  <2>4. n # m
    <3>1. m < Committed /\ Committed \in Nat
      <4>1. Here(c) \in Nat /\ LastBlock(c) \in Nat /\ Here(c) <= LastBlock(c) /\ LastBlock(c) < Committed
            /\ Committed \in Nat
        BY <1>1, ClaimFacts, CommittedValue
      <4> QED
        BY <1>2, <4>1
    <3>2. Len(enq.chain) \in Nat
      BY ListedFacts DEF StoreOK
    <3> QED
      BY <1>17, <2>1, <3>1, <3>2
  <2>5. value[Entry(n)] = enq.chain[i]
    BY <1>17, <2>1 DEF StoreOK, OwnersOK
  <2> QED
    BY <1>12, <1>15, <2>1, <2>2, <2>3, <2>4, <2>5
<1>18. b \notin Chained
  BY <1>3, <1>17 DEF StoreOK, OwnersOK, Chained
<1>19. b \in Blocks \ freeBlocks /\ b # enq.fresh /\ \A d \in Freeing : call[d].block # b
  BY <1>3 DEF StoreOK, OwnersOK
<1>20. Freeing' = Freeing \cup {c} /\ c \notin Freeing
  <2>1. \A d \in Consumers \ {c} : cpc'[d] = cpc[d]
    BY <1>6, FrameFacts
  <2> QED
    BY <1>1, <1>5, <2>1 DEF Freeing
<1>21. OwnersOK'
  <2>1. /\ \A q \in LiveNos' : value'[Entry(q)'] \in Blocks \ freeBlocks'
        /\ \A q \in LiveNos' : dequeued'[value'[Entry(q)']] = Cardinality(ConsumedIn(q)')
        /\ \A q, r \in LiveNos' : value'[Entry(q)'] = value'[Entry(r)'] => q = r
        /\ \A q \in LiveNos' : value'[Entry(q)'] # enq'.fresh
    BY <1>5, <1>12, <1>13, <1>14, <1>15, <1>16 DEF StoreOK, OwnersOK
  <2>2. /\ ~Undoing' => \A i \in 1 .. Len(enq'.chain) : value'[Entry(Committed + i - 1)'] = enq'.chain[i]
        /\ Undoing' => \A q \in LiveNos' : value'[Entry(q)'] \notin Chained'
    BY <1>5, <1>12, <1>14, <1>15, <1>17 DEF StoreOK, OwnersOK
  <2>3. /\ Chained' \cap freeBlocks' = {} /\ enq'.fresh \notin freeBlocks' /\ enq'.fresh \notin Chained'
        /\ freeBlocks' \subseteq Blocks /\ DOMAIN dequeued' = Blocks
    BY <1>5, <1>12 DEF StoreOK, OwnersOK
  <2>4. \A d \in Freeing' : /\ call'[d].block \in Blocks \ freeBlocks'
                            /\ call'[d].block \notin Chained' /\ call'[d].block # enq'.fresh
                            /\ \A q \in LiveNos' : value'[Entry(q)'] # call'[d].block
    <3>1. \A q \in LiveNos' : q \in LiveNos /\ value'[Entry(q)'] = value[Entry(q)]
                              /\ value[Entry(q)] # b
      BY <1>12, <1>14, <1>15
    <3>2. ASSUME NEW d \in Freeing
          PROVE  /\ call[d].block \in Blocks \ freeBlocks
                 /\ call[d].block \notin Chained /\ call[d].block # enq.fresh
                 /\ \A q \in LiveNos : value[Entry(q)] # call[d].block
      BY DEF StoreOK, OwnersOK
    <3> QED
      BY <1>3, <1>5, <1>12, <1>18, <1>19, <1>20, <3>1, <3>2
  <2>5. \A d, f \in Freeing' : call'[f].block = call'[d].block => d = f
    <3>1. \A d, f \in Freeing : call[f].block = call[d].block => d = f
      BY DEF StoreOK, OwnersOK
    <3>2. \A d \in Freeing : d # c /\ call[d].block # call[c].block
      BY <1>3, <1>19, <1>20
    <3>3. ASSUME NEW d \in Freeing', NEW f \in Freeing', call[f].block = call[d].block
          PROVE  d = f
      <4>1. (d = c \/ d \in Freeing) /\ (f = c \/ f \in Freeing)
        BY <1>20
      <4> QED
        BY <3>1, <3>2, <3>3, <4>1
    <3> QED
      BY <1>5, <3>3
  <2> QED
    BY <2>1, <2>2, <2>3, <2>4, <2>5 DEF OwnersOK
<1>22. EnqOK' /\ RingOK'
  BY <1>5, <1>6, <1>11, FramedRing
<1>23. LookupsOK'
  <2>1. ASSUME NEW d \in Consumers \ {c}, cpc'[d] \in LookupPcs PROVE LookupOK(d)'
    <3>1. LookupOK(d)
      BY <1>6, <2>1, FrameFacts DEF StoreOK, LookupsOK
    <3>2. ASSUME cpc[d] \in {"empty", "unlink"} PROVE value'[Entry(Here(d))] = value[Entry(Here(d))]
      <4>1. Here(d) \in LiveNos
        BY <3>2, EntryOfValue
      <4>2. Here(d) # m
        <5>1. CASE cpc[d] = "unlink"
          BY <1>1, <1>2, <5>1 DEF ClaimsOK
        <5>2. CASE cpc[d] = "empty"
          <6>1. cpc[d] \in ClaimedPcs /\ cpc[d] \notin {"unlink", "free"} /\ ClaimOK(d)
            BY <5>2 DEF ClaimedPcs, LookupPcs, ClaimsOK
          <6>2. At(d) \in At(d) .. Stop(d) - 1 /\ At(d) .. Stop(d) - 1 \subseteq Within(Here(d))
            <7>1. At(d) \in Nat /\ Stop(d) \in Nat /\ At(d) < Stop(d)
              BY <6>1, ClaimFacts, StopFacts
            <7> QED
              BY <6>1, <7>1, StopFacts
          <6>3. ~Consumed(At(d)) /\ At(d) \in Within(Here(d))
            BY <6>1, <6>2, ElementsLeft
          <6> QED
            BY <1>9, <6>3
        <5> QED
          BY <3>2, <5>1, <5>2
      <4> QED
        BY <1>15, <4>1, <4>2
    <3> QED
      BY <1>6, <3>1, <3>2, FramedLookup
  <2>2. LookupOK(c)'
    <3>1. LookupOK(c)
      BY <1>1, HeaderOf
    <3> QED
      BY <1>1, <1>5, <1>7, <1>12, <3>1 DEF LookupOK, Capacity
  <2> QED
    BY <2>1, <2>2 DEF LookupsOK
<1> QED
  BY <1>2, <1>3, <1>6, <1>7, <1>10, <1>11, <1>12, <1>14, <1>15, <1>20, <1>21, <1>22, <1>23
     DEF StoreOK

LEMMA FreeBlockStep ==
  ASSUME WindowsFit, ShareIInv, ClaimsOK, StoreOK, ppc # "destroyed",
         NEW c \in Consumers, FreeBlock(c)
  PROVE  /\ ClaimsOK' /\ StoreOK' /\ ConsumerStep(c)
         /\ \A q \in Nat : Live(q)' <=> Live(q)
         /\ LiveNos' = LiveNos /\ Freeing' = Freeing \ {c}
<1> HIDE DEF Numbers
<1>0. DOMAIN cpc = Consumers /\ DOMAIN call = Consumers
  BY Basics
<1>1. /\ cpc[c] = "free" /\ cpc[c] \in LookupPcs /\ cpc[c] \in ClaimedPcs /\ ClaimOK(c)
      /\ c \in Freeing
  BY DEF FreeBlock, LookupPcs, ClaimedPcs, ClaimsOK, Freeing
<1>2. PICK b : b = call[c].block
  OBVIOUS
<1>3. /\ freeBlocks' = freeBlocks \cup {b} /\ NextBlock(c)
      /\ UNCHANGED <<tailIndex, headers, key, producerVars, value, dequeued, headIndex>>
  BY <1>2 DEF FreeBlock, counters, indexVars
<1>4. OnlyCaller(c)
  BY <1>0, <1>3 DEF ConsumerGoto, NextBlock, ReturnFrom, OnlyCaller
<1>5. ConsumerStep(c)
  BY <1>3, <1>4 DEF ConsumerStep
<1>6. /\ cpc'[c] \in {"idle", "entry"} /\ Open(c)' = Stop(c) .. Until(c) - 1
      /\ Taken(c)' \subseteq Taken(c) /\ ClaimOK(c)'
      /\ cpc'[c] = "entry" => LookupOK(c)'
  BY <1>1, <1>3, <1>5, NextBlockStep
<1>7. Open(c)' = Open(c)
  <2>1. PICK s \in Nat, u \in Nat, g \in Nat :
          s = Stop(c) /\ u = Until(c) /\ g = (Here(c) + 1) * BlockSize
    BY <1>1, ClaimFacts, StopFacts
  <2>2. s <= u /\ s <= g /\ (s = u \/ s = g)
    BY <1>1, <2>1, StopFacts
  <2>3. Open(c) = g .. u - 1
    BY <1>1, <2>1 DEF Open, From
  <2>4. g .. u - 1 = s .. u - 1
    BY <2>1, <2>2
  <2> QED
    BY <1>6, <2>1, <2>3, <2>4
<1>8. ASSUME NEW n PROVE Consumed(n)' <=> Consumed(n)
  <2>1. \A d \in Consumers : Open(d)' = Open(d)
    BY <1>5, <1>7, FrameFacts
  <2>2. Emptied' = Emptied
    BY <1>3 DEF Emptied
  <2> QED
    BY <2>1, <2>2 DEF Consumed
<1>9. ClaimsOK'
  <2>1. Emptied \in Nat /\ Emptied' \in Nat /\ Emptied <= Emptied'
    BY <1>3, Basics DEF Emptied
  <2>2. \A d \in Consumers : cpc[d] \in ClaimedPcs => Until(d) \in Nat /\ Here(d) \in Nat
    BY ClaimFacts DEF ClaimsOK
  <2>3. \A d \in Consumers \ {c} : Taken(c)' \cap Taken(d) = {}
    BY <1>6 DEF ClaimsOK
  <2> QED
    BY <1>5, <1>6, <1>8, <2>1, <2>2, <2>3, ClaimsKept
<1>10. ASSUME NEW q \in Nat PROVE ConsumedIn(q)' = ConsumedIn(q) /\ (Live(q)' <=> Live(q))
  <2>1. ConsumedIn(q)' = ConsumedIn(q)
    BY <1>8 DEF ConsumedIn, Within
  <2>2. \A d \in Consumers : cpc'[d] = "unlink" /\ Here(d)' = q <=> cpc[d] = "unlink" /\ Here(d) = q
    BY <1>1, <1>5, <1>6, FrameFacts
  <2> QED
    BY <1>8, <2>1, <2>2 DEF Live, Within
<1>11. /\ Committed' = Committed /\ Limit' = Limit /\ (Undoing' <=> Undoing)
       /\ enq' = enq /\ Chained' = Chained /\ \A q : Entry(q)' = Entry(q)
  BY <1>5, FrameFacts
<1>12. LiveNos' = LiveNos /\ \A q \in LiveNos : q \in Nat
  <2>1. \A q \in 0 .. Limit - 1 : q \in Nat
    BY ListedFacts DEF StoreOK, Limit
  <2> QED
    BY <1>10, <1>11, <2>1 DEF LiveNos
<1>13. Freeing' = Freeing \ {c} /\ \A d \in Freeing \ {c} : call'[d].block = call[d].block
  <2>1. \A d \in Consumers \ {c} : cpc'[d] = cpc[d] /\ call'[d] = call[d]
    BY <1>5, FrameFacts
  <2> QED
    BY <1>1, <1>6, <2>1 DEF Freeing
<1>14. ASSUME NEW i \in 1 .. Len(enq.chain) PROVE Entry(Committed + i - 1)' = Entry(Committed + i - 1)
  <2>1. PICK n : n = Committed + i - 1
    OBVIOUS
  <2>2. n = (Committed + i - 1)'
    BY <1>11, <2>1
  <2> QED
    BY <1>11, <2>1, <2>2
<1>15. /\ b \in Blocks /\ b \notin Chained /\ b # enq.fresh /\ \A q \in LiveNos : value[Entry(q)] # b
       /\ \A d \in Freeing \ {c} : call[d].block # b
  BY <1>1, <1>2 DEF StoreOK, OwnersOK
<1>16. OwnersOK'
  <2>1. /\ \A q \in LiveNos' : value'[Entry(q)'] \in Blocks \ freeBlocks'
        /\ \A q \in LiveNos' : dequeued'[value'[Entry(q)']] = Cardinality(ConsumedIn(q)')
        /\ \A q, r \in LiveNos' : value'[Entry(q)'] = value'[Entry(r)'] => q = r
        /\ \A q \in LiveNos' : value'[Entry(q)'] # enq'.fresh
    BY <1>3, <1>10, <1>11, <1>12, <1>15 DEF StoreOK, OwnersOK
  <2>2. /\ ~Undoing' => \A i \in 1 .. Len(enq'.chain) : value'[Entry(Committed + i - 1)'] = enq'.chain[i]
        /\ Undoing' => \A q \in LiveNos' : value'[Entry(q)'] \notin Chained'
    BY <1>3, <1>11, <1>12, <1>14 DEF StoreOK, OwnersOK
  <2>3. /\ Chained' \cap freeBlocks' = {} /\ enq'.fresh \notin freeBlocks' /\ enq'.fresh \notin Chained'
        /\ freeBlocks' \subseteq Blocks /\ DOMAIN dequeued' = Blocks
    BY <1>3, <1>11, <1>15 DEF StoreOK, OwnersOK
  <2>4. \A d \in Freeing' : /\ call'[d].block \in Blocks \ freeBlocks'
                            /\ call'[d].block \notin Chained' /\ call'[d].block # enq'.fresh
                            /\ \A q \in LiveNos' : value'[Entry(q)'] # call'[d].block
    BY <1>3, <1>11, <1>12, <1>13, <1>15 DEF StoreOK, OwnersOK
  <2>5. \A d, f \in Freeing' : call'[f].block = call'[d].block => d = f
    BY <1>13 DEF StoreOK, OwnersOK
  <2> QED
    BY <2>1, <2>2, <2>3, <2>4, <2>5 DEF OwnersOK
<1>17. EnqOK' /\ RingOK'
  BY <1>3, <1>5, <1>10, FramedRing
<1>18. LookupsOK'
  <2>1. ASSUME NEW d \in Consumers \ {c}, cpc'[d] \in LookupPcs PROVE LookupOK(d)'
    <3>1. LookupOK(d)
      BY <1>5, <2>1, FrameFacts DEF StoreOK, LookupsOK
    <3> QED
      BY <1>3, <1>5, <3>1, FramedLookup
  <2>2. cpc'[c] \in LookupPcs => LookupOK(c)'
    BY <1>6 DEF LookupPcs
  <2> QED
    BY <2>1, <2>2 DEF LookupsOK
<1> QED
  BY <1>5, <1>9, <1>10, <1>12, <1>13, <1>16, <1>17, <1>18 DEF StoreOK

------------------------------------------------------------------------------
(* The invariant.                                                          *)

\* No step, no change.
LEMMA StutterStep ==
  ASSUME WindowsFit, ShareIInv, StoreOK, UNCHANGED vars
  PROVE  StoreOK'
<1> HIDE DEF Numbers
<1>1. /\ tailIndex' = tailIndex /\ headIndex' = headIndex /\ cpc' = cpc /\ call' = call
      /\ headers' = headers /\ key' = key /\ value' = value /\ enq' = enq /\ ppc' = ppc
      /\ freeBlocks' = freeBlocks /\ dequeued' = dequeued
  BY DEF vars, claimVars, counters, storage, indexVars, producerVars
<1>2. ClaimsStill
  BY <1>1 DEF ClaimsStill
<1>3. /\ Emptied' = Emptied
      /\ \A c \in Consumers : Here(c)' = Here(c) /\ LastBlock(c)' = LastBlock(c)
      /\ \A m : ConsumedIn(m)' = ConsumedIn(m) /\ (Live(m)' <=> Live(m))
      /\ Freeing' = Freeing
  BY <1>2, SameClaims
<1>4. Filled' = Filled /\ Committed' = Committed /\ Listed' = Listed /\ Gone' = Gone
  BY <1>1, SameCall
<1>5. /\ Top' = Top /\ Reach' = Reach /\ Limit' = Limit /\ (Undoing' <=> Undoing)
      /\ Chained' = Chained /\ BlockNo(enq.base)' = BlockNo(enq.base)
  BY <1>1, <1>4 DEF Top, Reach, Limit, Undoing, Chained, BlockNo, Number
<1>6. Capacity(Last)' = Capacity(Last) /\ \A m : Entry(m)' = Entry(m)
  BY <1>1, <1>5, UnmovedIndex DEF Last, Capacity
<1>7. EnqOK'
  BY <1>1, <1>4, <1>5 DEF StoreOK, EnqOK, BaseOf
<1>8. RingTyped' /\ Removing'
  BY <1>1, <1>4, <1>5, <1>6 DEF StoreOK, RingOK, RingTyped, Removing, Last
<1>9. RingLive'
  BY <1>1, <1>3, <1>4, <1>5, <1>6 DEF StoreOK, RingOK, RingLive, BaseOf
<1>10. Inserting'
  <2>1. PICK n : n = Listed
    OBVIOUS
  <2>2. Entry(Listed)' = Entry(Listed)
    BY <1>4, <1>6, <2>1
  <2> QED
    BY <1>1, <2>2 DEF StoreOK, RingOK, Inserting
<1>11. OwnersOK'
  <2>1. \A m \in LiveNos : value'[Entry(m)'] = value[Entry(m)]
    BY <1>1, <1>6
  <2> QED
    BY <1>1, <1>2, <1>4, <1>5, <2>1, OwnersStill DEF StoreOK
<1>12. LookupsOK'
  <2>1. ASSUME NEW c \in Consumers, cpc[c] \in LookupPcs PROVE LookupOK(c)'
    <3>1. LookupOK(c)
      BY <2>1 DEF StoreOK, LookupsOK
    <3>2. ASSUME NEW t, NEW T, Seen(c, t, T) PROVE Seen(c, t, T)'
      BY <1>1, <1>3, <1>4, <1>6, <3>2 DEF Seen, Keyed, Leads, BaseOf, Capacity
    <3>3. PICK h, s : h = headers[call[c].header].tail /\ s = call[c].slot
      OBVIOUS
    <3>4. \A T : Seen(c, h, T) => Seen(c, headers[call[c].header].tail, T)'
      BY <1>1, <3>2, <3>3
    <3>5. \A T : Seen(c, s, T) => Seen(c, call[c].slot, T)'
      BY <1>1, <3>2, <3>3
    <3>6. /\ cpc'[c] = "slotTail" =>
               call'[c].header = Len(headers') \/
               \E T \in BlockNos : Seen(c, headers[call[c].header].tail, T)'
          /\ cpc'[c] = "slotKey" => \E T \in BlockNos : Seen(c, call[c].slot, T)'
      BY <1>1, <3>1, <3>3, <3>4, <3>5 DEF LookupOK
    <3>7. Entry(Here(c))' = Entry(Here(c))
      <4>1. PICK n : n = Here(c)
        OBVIOUS
      <4> QED
        BY <1>3, <1>6, <4>1
    <3> QED
      BY <1>1, <1>3, <1>6, <3>1, <3>6, <3>7 DEF LookupOK, Capacity
  <2> QED
    BY <1>1, <2>1 DEF LookupsOK
<1> QED
  BY <1>7, <1>8, <1>9, <1>10, <1>11, <1>12 DEF StoreOK, RingOK

LEMMA EnqueueInv ==
  ASSUME WindowsFit, IInv, Enqueue \/ Destroy
  PROVE  IInv'
<1> HIDE DEF Numbers
<1>1. ShareIInv'
  BY EnqueueStep DEF IInv
<1>2. /\ ClaimsStill /\ ppc # "destroyed"
      /\ ppc' = "destroyed" => \A c \in Consumers : cpc[c] = "idle"
  BY DEF Enqueue, InsertIndexEntry, Revert, BeginEnqueue, CheckRoom, FindSlot, Grow, CannotGrow,
     StoreKey, StoreIndexTail, Requisition, NoRequisition, StoreValue, Construct, Commit,
     ThrowUnpublished, ThrowInBatch, RewindTail, ClearValue, Undo, Unlink, Unwind, Destroy,
     EndCall, ProducerGoto, ClaimsStill, claimVars, counters
<1>3. ClaimsOK'
  BY <1>2, ClaimsStillStep DEF IInv
<1>4. ShareIInv /\ ClaimsOK /\ StoreOK
  BY <1>2 DEF IInv
<1>5. ppc' # "destroyed" => StoreOK'
  <2>1. CASE Destroy
    BY <2>1 DEF Destroy, ProducerGoto
  <2>2. CASE \E n \in {1, MaxBulk} : \E bulk \in BOOLEAN : BeginEnqueue(n, bulk)
    BY <1>4, <2>2, BeginEnqueueStep
  <2>3. CASE InsertIndexEntry
    BY <1>4, <2>3, FindSlotStep, GrowStep, WaitStep, StoreKeyStep, StoreIndexTailStep
       DEF InsertIndexEntry
  <2>4. CASE Revert
    BY <1>4, <2>4, StoreIndexTailStep, ClearValueStep, UndoStep, UnlinkStep, UnwindStep DEF Revert
  <2>5. CASE CheckRoom \/ NoRequisition \/ ThrowUnpublished \/ ThrowInBatch \/ Construct
    BY <1>4, <2>5, WaitStep
  <2>6. CASE Requisition \/ StoreValue \/ Commit
    BY <1>4, <2>6, RequisitionStep, StoreValueStep, CommitStep
  <2> QED
    BY <2>1, <2>2, <2>3, <2>4, <2>5, <2>6 DEF Enqueue
<1> QED
  BY <1>1, <1>3, <1>5 DEF IInv

LEMMA DequeueInv ==
  ASSUME WindowsFit, IInv, NEW c \in Consumers, Dequeue(c)
  PROVE  IInv'
<1> HIDE DEF Numbers
<1>1. ShareIInv'
  BY DequeueStep DEF IInv
<1>2. ppc # "destroyed"
  BY DEF IInv, ClaimsOK, Dequeue, Begin, Share, Sharing, LoadOvercommit, Examine, Promise, Reload,
     GiveBack, Claim, LoadHeader, LoadSlotTail, LoadSlotKey, Move, SetEmpty, UnlinkBlock, FreeBlock
<1>3. ShareIInv /\ ClaimsOK /\ StoreOK
  BY <1>2 DEF IInv
<1>4. ClaimsOK' /\ StoreOK'
  BY <1>2, <1>3, ShareOutStep, LoadHeaderStep, LoadSlotTailStep, LoadSlotKeyStep, MoveStep,
     SetEmptyStep, UnlinkBlockStep, FreeBlockStep DEF Dequeue
<1> QED
  BY <1>1, <1>4 DEF IInv

LEMMA IndexInit ==
  ASSUME WindowsFit, Init
  PROVE  IInv
<1> HIDE DEF Numbers
<1>1. ShareIInv
  <2>1. ShareInv
    BY ShareInit DEF Init
  <2>2. "count" \in DOMAIN enq /\ enq.count = 0
    BY DEF Init, NoEnqueue
  <2>3. Filled \in Nat /\ Filled <= MaxEnqueued
    BY <2>1, HalfRange, ShareTypes DEF ShareInv, ShareFacts, Index, Room
  <2> QED
    BY <2>1, <2>2, <2>3 DEF ShareIInv, EnqueueFits
<1>2. /\ \A c \in Consumers : cpc[c] = "idle"
      /\ ppc = "idle" /\ enq = NoEnqueue /\ freeBlocks = Blocks
      /\ dequeued = [b \in Blocks |-> 0]
      /\ key = [e \in Entries |-> InvalidBlockBase] /\ value = [e \in Entries |-> NoBlock]
      /\ tailIndex = StartIndex
  BY DEF Init, ClaimInit
<1>3. ClaimsOK
  BY <1>2 DEF ClaimsOK, ClaimOK, Taken, ClaimedPcs, LookupPcs
<1>4. Filled = 0 /\ Committed = 0 /\ Listed = 0
  <2>1. Filled = 0
    BY <1>2, HalfRange, MinusValue DEF Filled, Index
  <2>2. Committed = 0
    <3>1. PICK k \in Nat \ {0} : k = BlockSize
      BY BlockFacts
    <3>2. k - 1 \in Int /\ 0 \in Int /\ k - 1 \in 0 * k .. 0 * k + k - 1
      BY <3>1
    <3>3. (k - 1) \div k = 0
      BY <3>2, Quotient
    <3> QED
      BY <2>1, <3>1, <3>3 DEF Committed
  <2>3. Len(enq.chain) = 0
    BY <1>2 DEF NoEnqueue
  <2> QED
    BY <2>1, <2>2, <2>3 DEF Listed
<1>5. EnqOK
  <2>1. enq \in EnqueueRecords
    <3>1. 0 \in Index
      BY HalfRange DEF Index
    <3> QED
      BY <1>2, <3>1 DEF EnqueueRecords, NoEnqueue
  <2>2. Listed * BlockSize < MaxEnqueued + BlockSize
    BY <1>4, BlockFacts, HalfRange
  <2> QED
    BY <1>2, <1>4, <2>1, <2>2 DEF EnqOK, InsertPcs, Undoing, NoEnqueue
<1>6. RingTyped
  <2>1. CASE headers = << >>
    BY <1>2, <2>1 DEF RingTyped
  <2>2. CASE headers # << >>
    <3>1. PICK n \in Nat \ {0} : n = InitialIndexSize /\ n <= MaxIndexSize
      BY ImplicitAssumption DEF ImplicitAssumption
    <3>2. headers = <<Header(n - 1, [i \in 0 .. n - 1 |-> i])>>
      BY <2>2, <3>1 DEF Init
    <3>3. Header(n - 1, [i \in 0 .. n - 1 |-> i]) \in Headers
      <4>1. n \in 1 .. MaxIndexSize
        BY <3>1, ImplicitAssumption DEF ImplicitAssumption
      <4>2. n - 1 \in 0 .. n - 1 /\ [i \in 0 .. n - 1 |-> i] \in [0 .. n - 1 -> 0 .. n - 1]
        BY <3>1
      <4>3. Header(n - 1, [i \in 0 .. n - 1 |-> i])
              \in [tail : 0 .. n - 1, index : [0 .. n - 1 -> 0 .. n - 1]]
        BY <4>2 DEF Header
      <4> QED
        BY <4>1, <4>3 DEF Headers
    <3>4. headers \in Seq(Headers) /\ Len(headers) = 1
      BY <3>2, <3>3
    <3>5. headers[1].index = [i \in 0 .. n - 1 |-> i]
      BY <3>2 DEF Header
    <3> QED
      BY <1>2, <3>4, <3>5 DEF RingTyped
  <2> QED
    BY <2>1, <2>2
<1>7. RingLive /\ Inserting /\ Removing
  BY <1>2, <1>4 DEF RingLive, Inserting, Removing, InsertPcs, Undoing
<1>8. OwnersOK
  <2>1. LiveNos = {} /\ Freeing = {} /\ Chained = {} /\ ~Undoing /\ Len(enq.chain) = 0
        /\ enq.fresh = NoBlock
    BY <1>2, <1>4 DEF LiveNos, Limit, Undoing, Freeing, Chained, NoEnqueue
  <2>2. NoBlock \notin Blocks
    BY ImplicitAssumption DEF ImplicitAssumption
  <2> QED
    BY <1>2, <2>1, <2>2 DEF OwnersOK
<1>9. LookupsOK
  BY <1>2 DEF LookupsOK, LookupPcs
<1> QED
  BY <1>1, <1>3, <1>5, <1>6, <1>7, <1>8, <1>9 DEF IInv, StoreOK, RingOK

LEMMA IndexInvariance ==
  ASSUME WindowsFit
  PROVE  Spec => []IInv
<1> HIDE DEF Numbers
<1>1. Init => IInv
  BY IndexInit
<1>2. IInv /\ [Next]_vars => IInv'
  <2> SUFFICES ASSUME IInv, [Next]_vars PROVE IInv'
    OBVIOUS
  <2>1. CASE Enqueue \/ Destroy
    BY <2>1, EnqueueInv
  <2>2. ASSUME NEW c \in Consumers, Dequeue(c) PROVE IInv'
    BY <2>2, DequeueInv
  <2>3. CASE UNCHANGED vars
    <3>1. ShareIInv'
      <4>1. Preparing
        BY <2>3 DEF vars, producerVars, Preparing, IInv, ShareIInv, EnqueueFits
      <4> QED
        BY <4>1, PreparingStep DEF IInv
    <3>2. ClaimsStill /\ ppc' = ppc
      BY <2>3 DEF vars, claimVars, counters, producerVars, ClaimsStill
    <3>3. ClaimsOK'
      BY <3>2, ClaimsStillStep DEF IInv, ClaimsOK
    <3> QED
      BY <2>3, <3>1, <3>2, <3>3, StutterStep DEF IInv
  <2> QED
    BY <2>1, <2>2, <2>3 DEF Next
<1> QED
  BY <1>1, <1>2, PTL DEF Spec

LEMMA LookupsAreSound ==
  ASSUME WindowsFit, IInv
  PROVE  LookupSound
<1> HIDE DEF Numbers
<1>0. ASSUME NEW c \in Consumers, cpc[c] \in {"slotKey", "entry"} PROVE StoreOK
  BY <1>0 DEF IInv, ClaimsOK
<1>1. ASSUME NEW c \in Consumers, cpc[c] = "slotKey"
      PROVE  key[headers[call[c].header].index[call[c].slot]] # InvalidBlockBase
  <2>1. StoreOK /\ cpc[c] \in LookupPcs /\ ClaimsOK /\ ShareIInv
    BY <1>0, <1>1 DEF LookupPcs, IInv
  <2>2. PICK h \in Headers : h = headers[call[c].header]
    BY <2>1, HeaderOf
  <2>3. Capacity(h) \in Nat \ {0} /\ call[c].slot \in 0 .. Capacity(h) - 1
    BY <1>1, <2>1, <2>2, HeaderOf, HeaderFacts
  <2>4. PICK t \in Int : t = call[c].slot
    BY <2>3
  <2>5. PICK T \in BlockNos : Seen(c, t, T)
    BY <1>1, <2>1, <2>4, HeaderOf DEF LookupOK
  <2>6. Here(c) \in Nat /\ LastBlock(c) \in Nat /\ Here(c) <= LastBlock(c) /\ LastBlock(c) <= T
    BY <2>1, <2>5, ClaimFacts DEF ClaimsOK, ClaimedPcs, Seen, Keyed
  <2>7. T \in Nat /\ T * BlockSize \in Index
    <3>1. MaxEnqueued \in Nat /\ MaxEnqueued + BlockSize <= Numbers /\ BlockSize \in Nat \ {0}
          /\ Numbers \in Nat
      BY <2>1, Basics
    <3>2. T \in Nat /\ T * BlockSize < MaxEnqueued
      BY <3>1 DEF BlockNos
    <3>3. PICK x \in Nat : x = T * BlockSize
      BY <3>1, <3>2
    <3> QED
      BY <3>1, <3>2, <3>3 DEF Index
  <2>8. T \in Here(c) .. T
    BY <2>6, <2>7
  <2>9. key[Entry(T)] = BaseOf(T)
    BY <2>5, <2>8 DEF Seen, Keyed
  <2>10. h.index[t] = Entry(T)
    <3>1. h.index[(t + (T - T)) % Capacity(h)] = Entry(T)
      BY <2>2, <2>5, <2>8 DEF Seen, Leads
    <3>2. t + (T - T) = t
      BY <2>4, <2>7
    <3>3. t % Capacity(h) = t
      BY <2>3, <2>4, RingWrap
    <3> QED
      BY <3>1, <3>2, <3>3
  <2>11. BaseOf(T) # 1
    BY <2>7, BaseOfValue
  <2> QED
    BY <2>2, <2>4, <2>9, <2>10, <2>11 DEF InvalidBlockBase
<1>2. ASSUME NEW c \in Consumers, cpc[c] = "entry"
      PROVE  key[EntryOf(c)] = Base(call[c].index) /\ value[EntryOf(c)] # NoBlock
  <2>1. StoreOK /\ cpc[c] \in LookupPcs \ {"free"} /\ cpc[c] \in LookupPcs /\ ClaimsOK /\ ShareIInv
    BY <1>0, <1>2 DEF LookupPcs, IInv
  <2>2. EntryOf(c) = Entry(Here(c)) /\ value[EntryOf(c)] \in Blocks
    BY <1>2, <2>1, EntryOfValue
  <2>3. PICK m \in Nat : m = Here(c) /\ m < Listed /\ Live(m)
    <3>1. /\ Here(c) \in Nat /\ LastBlock(c) \in Nat /\ Here(c) <= LastBlock(c)
          /\ LastBlock(c) < Committed /\ Committed <= Listed /\ Listed \in Nat /\ Live(Here(c))
      BY <2>1, LookupFacts DEF StoreOK
    <3>2. Committed \in Nat
      BY <2>1, CommittedValue
    <3> QED
      BY <3>1, <3>2
  <2>4. key[Entry(m)] = BaseOf(m)
    <3>1. m \in m .. Listed - 1
      BY <2>1, <2>3, ListedFacts DEF StoreOK
    <3> QED
      BY <2>1, <2>3, <3>1, LiveWindow DEF StoreOK
  <2>5. Base(call[c].index) = BaseOf(m)
    <3>1. call[c].index \in Index
      BY <2>1 DEF ClaimsOK, ClaimOK, ClaimedPcs
    <3> QED
      BY <2>3, <3>1, BlockNoValue DEF Here
  <2> QED
    BY <2>2, <2>3, <2>4, <2>5, ImplicitAssumption DEF ImplicitAssumption
<1> QED
  BY <1>1, <1>2 DEF LookupSound

\* The assertions of get_block_index_index_for_index (concurrentqueue.h:2853, :2858) hold
\* whatever the producer does to the index meanwhile: lists blocks, grows the index, takes
\* blocks back.
THEOREM LookupsAlwaysSound ==
  ASSUME WindowsFit
  PROVE  Spec => []LookupSound
<1>1. IInv => LookupSound
  BY LookupsAreSound
<1> QED
  BY <1>1, IndexInvariance, PTL

------------------------------------------------------------------------------
(* What is in the blocks.                                                  *)

\* A consumer has moved out its elements up to Moved.
Moved(c) == IF cpc[c] \in {"empty", "unlink", "free"} THEN Stop(c) ELSE At(c)
Unmoved(c) == IF cpc[c] \in ClaimedPcs THEN Moved(c) .. Until(c) - 1 ELSE {}

\* The elements that are constructed and not yet moved out.
Constructed == IF ppc = "commit" THEN Filled + enq.count ELSE Filled
Stored == {n \in 0 .. Constructed - 1 : n >= Emptied \/ \E c \in Consumers : n \in Unmoved(c)}

Home(n) == value[Entry(n \div BlockSize)]

\* Each is in its place, and nothing else is in any block.
CellsOK ==
  /\ DOMAIN cell = Blocks /\ \A b \in Blocks : DOMAIN cell[b] = Slots
  /\ \A n \in Stored : cell[Home(n)][n % BlockSize] = Element(n)
  /\ \A b \in Blocks : \A s \in Slots : cell[b][s] # Vacant =>
       \E n \in Stored : Home(n) = b /\ n % BlockSize = s

\* Where a block can be; no block is lost.
Places == freeBlocks \cup {value[Entry(m)] : m \in LiveNos} \cup Chained
          \cup {enq.fresh} \cup {call[c].block : c \in Freeing}
NoneMissing == Blocks \subseteq Places

\* The tail block is the last one of the index, once a call is through with it.
TailOK ==
  /\ ppc = "commit" => Listed > 0 /\ (Live(Listed - 1) => tailBlock = value[Entry(Listed - 1)])
  /\ ppc # "commit" /\ Committed > 0 /\ Live(Committed - 1) =>
       tailBlock = value[Entry(Committed - 1)]

\* What a consumer has got.
GotOK(c) ==
  cpc[c] \in LookupPcs =>
    call[c].got = [k \in 1 .. Moved(c) - First(c) |-> Plus(call[c].first, k - 1)]

\* A call asks for something.
CountOK == ppc # "idle" => enq.count # 0

HeldOK == CellsOK /\ NoneMissing /\ TailOK /\ CountOK

CInv ==
  /\ IInv /\ \A c \in Consumers : GotOK(c)
  /\ ppc # "destroyed" => HeldOK
  /\ DestroysAll

\* What a consumer has yet to move out.
LEMMA UnmovedFacts ==
  ASSUME WindowsFit, ShareIInv, NEW c \in Consumers, ClaimOK(c), cpc[c] \in ClaimedPcs
  PROVE  /\ Moved(c) \in Nat /\ First(c) <= Moved(c) /\ Moved(c) <= Until(c)
         /\ First(c) \in Nat /\ Until(c) \in Nat /\ Until(c) <= Emptied
         /\ Unmoved(c) \subseteq Open(c) /\ Unmoved(c) \subseteq Taken(c)
         /\ Unmoved(c) = Moved(c) .. Until(c) - 1
<1> HIDE DEF Numbers
<1>1. /\ At(c) \in Nat /\ First(c) \in Nat /\ Until(c) \in Nat /\ First(c) <= At(c)
      /\ At(c) < Until(c) /\ Until(c) <= Emptied
  BY ClaimFacts
<1>2. /\ Stop(c) \in Nat /\ At(c) < Stop(c) /\ Stop(c) <= Until(c)
      /\ Stop(c) = Until(c) \/ Stop(c) = (Here(c) + 1) * BlockSize
      /\ (Here(c) + 1) * BlockSize \in Nat
  BY StopFacts
<1>3. Moved(c) \in Nat /\ At(c) <= Moved(c) /\ Moved(c) <= Until(c)
  BY <1>1, <1>2 DEF Moved
<1>4. Unmoved(c) = Moved(c) .. Until(c) - 1
  BY DEF Unmoved
<1>5. Unmoved(c) \subseteq Open(c)
  <2>1. CASE cpc[c] \in {"unlink", "free"}
    <3>1. Open(c) = (Here(c) + 1) * BlockSize .. Until(c) - 1 /\ Moved(c) = Stop(c)
      BY <2>1 DEF Open, From, Moved
    <3> QED
      BY <1>1, <1>2, <1>4, <3>1
  <2>2. CASE ~(cpc[c] \in {"unlink", "free"})
    <3>1. Open(c) = At(c) .. Until(c) - 1
      BY <2>2 DEF Open, From
    <3> QED
      BY <1>1, <1>3, <1>4, <3>1
  <2> QED
    BY <2>1, <2>2
<1>6. Unmoved(c) \subseteq Taken(c)
  <2>1. Taken(c) = First(c) .. Until(c) - 1
    BY DEF Taken
  <2> QED
    BY <1>1, <1>3, <1>4, <2>1
<1> QED
  BY <1>1, <1>3, <1>4, <1>5, <1>6

\* The elements that are stored are in blocks that the index lists.
LEMMA StoredFacts ==
  ASSUME WindowsFit, ShareIInv, ClaimsOK, StoreOK, NEW n \in Stored
  PROVE  /\ n \in Nat /\ n < MaxEnqueued /\ n \in Index /\ ~Consumed(n)
         /\ n \div BlockSize \in LiveNos /\ n \div BlockSize \in Nat /\ n % BlockSize \in Slots
         /\ n \in Within(n \div BlockSize) /\ Home(n) \in Blocks \ freeBlocks
<1> HIDE DEF Numbers
<1>1. /\ Filled \in Nat /\ Emptied \in Nat /\ Emptied <= Filled /\ Filled <= MaxEnqueued
      /\ MaxEnqueued \in Nat /\ MaxEnqueued < Numbers \div 2
      /\ Numbers \div 2 < Numbers /\ Numbers \in Nat /\ Numbers \div 2 \in Nat
      /\ BlockSize \in Nat \ {0}
  BY Basics
<1>2. Filled + enq.count <= MaxEnqueued /\ enq.count \in Nat
  BY DEF ShareIInv, EnqueueFits
<1>3. Constructed \in Nat /\ Constructed <= MaxEnqueued /\ n \in 0 .. Constructed - 1
  BY <1>1, <1>2 DEF Constructed, Stored
<1>4. n \in Nat /\ n < MaxEnqueued /\ n \in Index
  BY <1>1, <1>3 DEF Index
<1>5. ~Consumed(n)
  <2>1. CASE n >= Emptied
    BY <1>1, <1>4, <2>1 DEF Consumed
  <2>2. CASE \E c \in Consumers : n \in Unmoved(c)
    <3>1. PICK c \in Consumers : n \in Unmoved(c)
      BY <2>2
    <3>2. ClaimOK(c) /\ cpc[c] \in ClaimedPcs
      BY <3>1 DEF ClaimsOK, Unmoved
    <3>3. n \in Open(c)
      BY <3>1, <3>2, UnmovedFacts
    <3> QED
      BY <3>3 DEF Consumed
  <2> QED
    BY <2>1, <2>2 DEF Stored
<1> DEFINE m == n \div BlockSize
<1>6. m \in Nat /\ n \in Within(m) /\ n % BlockSize \in Slots
  BY <1>4, QuotientWithin
<1> HIDE DEF m
<1>7. Live(m)
  BY <1>5, <1>6 DEF Live
<1>8. m < Limit /\ Limit \in Nat
  <2>1. /\ Committed \in Nat /\ Listed \in Nat /\ Committed <= Listed
        /\ Listed * BlockSize \in Nat
    BY ListedFacts DEF StoreOK
  <2>2. Filled <= Committed * BlockSize /\ Committed * BlockSize \in Nat
    BY CommittedValue
  <2>3. m * BlockSize \in Nat /\ m * BlockSize <= n
    BY <1>6, WithinValue
  <2>4. CASE ppc = "commit"
    <3>1. Limit = Listed /\ Constructed = Filled + enq.count /\ Filled + enq.count <= Listed * BlockSize
      BY <2>4 DEF Limit, Undoing, Constructed, StoreOK, EnqOK
    <3>2. m * BlockSize < Listed * BlockSize
      BY <1>1, <1>2, <1>3, <2>1, <2>3, <3>1
    <3> QED
      BY <1>1, <1>6, <2>1, <3>1, <3>2, Order
  <2>5. CASE ppc # "commit"
    <3>1. Limit \in {Committed, Listed} /\ Constructed = Filled
      BY <2>5 DEF Limit, Constructed
    <3>2. m * BlockSize < Committed * BlockSize
      BY <1>1, <1>3, <2>2, <2>3, <3>1
    <3>3. m < Committed
      BY <1>1, <1>6, <2>1, <3>2, Order
    <3> QED
      BY <1>6, <2>1, <3>1, <3>3
  <2> QED
    BY <2>4, <2>5
<1>9. m \in LiveNos
  BY <1>6, <1>7, <1>8 DEF LiveNos
<1>10. Home(n) \in Blocks \ freeBlocks
  BY <1>9 DEF Home, m, StoreOK, OwnersOK
<1> QED
  BY <1>4, <1>5, <1>6, <1>9, <1>10 DEF m

LEMMA StoredFactsAll ==
  WindowsFit /\ IInv /\ ppc # "destroyed" => \A n \in Stored : n \div BlockSize \in LiveNos
<1> SUFFICES ASSUME WindowsFit, IInv, ppc # "destroyed", NEW n \in Stored
             PROVE  n \div BlockSize \in LiveNos
  OBVIOUS
<1> QED
  BY StoredFacts DEF IInv

LEMMA StoredFactsNext ==
  ASSUME WindowsFit, IInv', ppc' # "destroyed"
  PROVE  \A n \in Stored' : n \div BlockSize \in LiveNos'
<1>1. WindowsFit' <=> WindowsFit
  BY DEF WindowsFit, Numbers
<1>2. (WindowsFit /\ IInv /\ ppc # "destroyed")' => (\A n \in Stored : n \div BlockSize \in LiveNos)'
  BY StoredFactsAll, PTL
<1> QED
  BY <1>1, <1>2

\* Two elements are in different places.
LEMMA StoredApart ==
  ASSUME WindowsFit, ShareIInv, ClaimsOK, StoreOK, NEW n \in Stored, NEW p \in Stored,
         Home(n) = Home(p), n % BlockSize = p % BlockSize
  PROVE  n = p
<1> HIDE DEF Numbers
<1>1. /\ n \in Nat /\ p \in Nat
      /\ n \div BlockSize \in LiveNos /\ p \div BlockSize \in LiveNos
  BY StoredFacts
<1>2. n \div BlockSize = p \div BlockSize
  BY <1>1 DEF Home, StoreOK, OwnersOK
<1>3. /\ n = (n \div BlockSize) * BlockSize + (n % BlockSize)
      /\ p = (p \div BlockSize) * BlockSize + (p % BlockSize)
  BY <1>1, QuotientWithin
<1> QED
  BY <1>2, <1>3

\* Elements and blocks that stay where they are.
LEMMA CellsStill ==
  ASSUME WindowsFit, IInv, IInv', ppc # "destroyed", ppc' # "destroyed", CellsOK,
         cell' = cell, Stored' = Stored,
         \A m \in LiveNos \cap LiveNos' : value'[Entry(m)'] = value[Entry(m)]
  PROVE  CellsOK'
<1>1. \A n \in Stored : n \div BlockSize \in LiveNos \cap LiveNos'
  BY StoredFactsAll, StoredFactsNext
<1>2. \A n \in Stored : Home(n)' = Home(n)
  BY <1>1 DEF Home
<1> QED
  BY <1>2 DEF CellsOK

------------------------------------------------------------------------------
(* What the steps of the producer do to the blocks.                        *)

\* Blocks that the index needs before and after a step stay in its lists.
HomesStill == \A m \in LiveNos \cap LiveNos' : value'[Entry(m)'] = value[Entry(m)]

LEMMA SameHomes ==
  ASSUME WindowsFit, ShareIInv, EnqOK, SameIndex, \A e : value'[e] = value[e]
  PROVE  \A m \in LiveNos : value'[Entry(m)'] = value[Entry(m)]
<1>1. ASSUME NEW m \in LiveNos PROVE value'[Entry(m)'] = value[Entry(m)]
  <2>1. m \in Int /\ headers # << >>
    <3>1. Limit \in {Committed, Listed} /\ m \in 0 .. Limit - 1
      BY <1>1 DEF LiveNos, Limit
    <3>2. /\ Committed \in Nat /\ Listed \in Nat /\ Committed <= Listed
          /\ headers = << >> => Listed = 0
      BY ListedFacts DEF EnqOK
    <3> QED
      BY <3>1, <3>2
  <2> QED
    BY <2>1 DEF SameIndex
<1> QED
  BY <1>1

LEMMA WaitHomes ==
  ASSUME WindowsFit, ShareIInv, StoreOK,
         \/ CheckRoom \/ FindSlot \/ CannotGrow \/ StoreKey \/ Requisition \/ NoRequisition
         \/ ThrowUnpublished \/ Construct \/ ThrowInBatch
  PROVE  /\ \A m \in LiveNos : value'[Entry(m)'] = value[Entry(m)]
         /\ \A m : Entry(m)' = Entry(m)
         /\ LiveNos' = LiveNos /\ Chained' = Chained /\ Listed' = Listed /\ ClaimsStill
<1> HIDE DEF Numbers
<1>1. /\ UNCHANGED <<tailIndex, headers, value>> /\ ClaimsStill
      /\ \/ {ppc, ppc'} \cap ({"requisition", "value", "rewind"}
                               \cup {"unlink", "unwind"}) = {}
         \/ {ppc, ppc'} \subseteq {"requisition", "value", "rewind"}
  BY DEF CheckRoom, FindSlot, CannotGrow, StoreKey, Requisition, NoRequisition, ThrowUnpublished,
     Construct, ThrowInBatch, ProducerGoto, storage, indexVars, claimVars, counters, ClaimsStill
<1>2. enq'.chain = enq.chain
  <2>1. enq \in EnqueueRecords
    BY DEF StoreOK, EnqOK
  <2>2. \/ enq' = enq \/ (\E e : enq' = [enq EXCEPT !.entry = e])
        \/ (\E b : enq' = [enq EXCEPT !.fresh = b])
    BY DEF CheckRoom, FindSlot, CannotGrow, StoreKey, Requisition, NoRequisition,
       ThrowUnpublished, Construct, ThrowInBatch
  <2> QED
    BY <2>1, <2>2 DEF EnqueueRecords
<1>3. Filled' = Filled /\ Committed' = Committed /\ Listed' = Listed
  BY <1>1, <1>2, SameTail DEF Listed
<1>4. Top' = Top /\ Limit' = Limit
  BY <1>1, <1>3 DEF Top, Limit, Undoing
<1>5. SameIndex /\ \A m : Entry(m)' = Entry(m)
  BY <1>1, <1>4, UnmovedIndex
<1>6. LiveNos' = LiveNos /\ Chained' = Chained
  BY <1>1, <1>2, <1>4, SameClaims DEF LiveNos, Chained
<1> QED
  BY <1>1, <1>3, <1>5, <1>6, SameHomes DEF StoreOK

\* The block that has been requisitioned joins the chain of the call.
LEMMA StoreValueHomes ==
  ASSUME WindowsFit, ShareIInv, StoreOK, StoreValue
  PROVE  /\ \A m \in LiveNos : value'[Entry(m)'] = value[Entry(m)] /\ m \in LiveNos'
         /\ Chained' = Chained \cup {enq.fresh}
<1> HIDE DEF Numbers
<1>1. /\ ppc = "value" /\ ppc' \in {"room", "construct"}
      /\ value' = [value EXCEPT ![enq.entry] = enq.fresh]
      /\ UNCHANGED <<tailIndex, headers>> /\ ClaimsStill
      /\ \E x : enq' = [enq EXCEPT !.chain = Append(@, enq.fresh), !.fresh = NoBlock, !.base = x]
  BY DEF StoreValue, ProducerGoto, storage, claimVars, counters, ClaimsStill
<1>2. enq \in EnqueueRecords /\ ppc \in InsertPcs
  BY <1>1 DEF StoreOK, EnqOK, InsertPcs
<1>3. enq'.chain = Append(enq.chain, enq.fresh) /\ enq.chain \in Seq(Blocks)
  BY <1>1, <1>2 DEF EnqueueRecords
<1>4. Filled' = Filled /\ Committed' = Committed /\ Listed' = Listed + 1
  <2>1. Filled' = Filled /\ Committed' = Committed /\ Committed \in Nat /\ Len(enq.chain) \in Nat
    BY <1>1, SameTail, ListedFacts DEF StoreOK
  <2>2. Len(enq'.chain) = Len(enq.chain) + 1
    BY <1>3
  <2> QED
    BY <2>1, <2>2 DEF Listed
<1>5. Listed \in Nat
  BY ListedFacts DEF StoreOK
<1>6. Top' = Top /\ Limit = Listed /\ Limit' = Listed + 1
  BY <1>1, <1>4, <1>5 DEF Top, Limit, Undoing
<1>7. \A m : Entry(m)' = Entry(m)
  BY <1>1, <1>6, UnmovedIndex
<1>8. /\ headers # << >> /\ \A m \in Nat : m < Listed /\ Live(m) => Entry(m) # Entry(Listed)
      /\ enq.entry = Entry(Listed)
  BY <1>2, ListedApart DEF StoreOK, RingOK, Inserting
<1>9. ASSUME NEW m \in LiveNos PROVE value'[Entry(m)'] = value[Entry(m)] /\ m \in LiveNos'
  <2>1. m \in Nat /\ m < Listed /\ Live(m) /\ m \in 0 .. Listed
    BY <1>5, <1>6 DEF LiveNos
  <2>2. Live(m)'
    BY <1>1, <2>1, SameClaims
  <2>3. m \in 0 .. Limit' - 1
    BY <1>5, <1>6, <2>1
  <2> QED
    BY <1>1, <1>7, <1>8, <2>1, <2>2, <2>3 DEF LiveNos
<1>10. Chained' = Chained \cup {enq.fresh}
  <2>1. /\ Len(enq'.chain) = Len(enq.chain) + 1 /\ Len(enq.chain) \in Nat
        /\ \A i \in 1 .. Len(enq.chain) : enq'.chain[i] = enq.chain[i]
        /\ enq'.chain[Len(enq.chain) + 1] = enq.fresh
    <3>1. enq.fresh \in Blocks
      BY <1>1, <1>2 DEF StoreOK, EnqOK, EnqueueRecords
    <3> QED
      BY <1>3, <3>1
  <2>2. 1 .. Len(enq'.chain) = (1 .. Len(enq.chain)) \cup {Len(enq.chain) + 1}
    BY <2>1
  <2> QED
    BY <2>1, <2>2 DEF Chained
<1> QED
  BY <1>9, <1>10

LEMMA GrowHomes ==
  ASSUME WindowsFit, ShareIInv, StoreOK, Grow
  PROVE  /\ \A m \in LiveNos : value'[Entry(m)'] = value[Entry(m)]
         /\ LiveNos' = LiveNos /\ Chained' = Chained
<1> HIDE DEF Numbers
<1>1. /\ ppc = "grow" /\ ppc' = "key" /\ ClaimsStill /\ UNCHANGED <<tailIndex, value>>
      /\ \E n : enq' = [enq EXCEPT !.entry = n]
  BY DEF Grow, ProducerGoto, claimVars, counters, ClaimsStill
<1>2. enq'.chain = enq.chain
  BY <1>1 DEF StoreOK, EnqOK, EnqueueRecords
<1>3. /\ headers # << >> /\ Listed' = Listed /\ Listed \in Nat
      /\ \A m \in Int : Listed - 1 < m + Capacity(Last) /\ m < Listed => Entry(m)' = Entry(m)
  BY GrownIndex, ListedFacts DEF StoreOK
<1>4. Limit = Listed /\ Limit' = Listed /\ Reach = Listed - 1
  BY <1>1, <1>3 DEF Limit, Undoing, Reach, InsertPcs
<1>5. LiveNos' = LiveNos /\ Chained' = Chained
  BY <1>1, <1>2, <1>4, SameClaims DEF LiveNos, Chained
<1>6. ASSUME NEW m \in LiveNos PROVE Entry(m)' = Entry(m)
  <2>1. m \in Nat /\ m < Listed /\ Live(m)
    BY <1>3, <1>4 DEF LiveNos
  <2>2. Reach < m + Capacity(Last)
    BY <2>1, LiveWindow DEF StoreOK
  <2> QED
    BY <1>3, <1>4, <2>1, <2>2
<1> QED
  BY <1>1, <1>5, <1>6

LEMMA EnqueueHomes ==
  ASSUME WindowsFit, ShareIInv, ClaimsOK, StoreOK, Enqueue
  PROVE  HomesStill
<1> HIDE DEF Numbers
<1>1. CASE \/ CheckRoom \/ FindSlot \/ CannotGrow \/ StoreKey \/ Requisition \/ NoRequisition
           \/ ThrowUnpublished \/ Construct \/ ThrowInBatch
  BY <1>1, WaitHomes DEF HomesStill
<1>2. CASE StoreValue
  BY <1>2, StoreValueHomes DEF HomesStill
<1>3. CASE Grow
  BY <1>3, GrowHomes DEF HomesStill
<1>4. CASE StoreIndexTail \/ RewindTail
  <2>1. SameIndex /\ value' = value
    BY <1>4, StoreIndexTailStep DEF StoreIndexTail, RewindTail
  <2> QED
    BY <2>1, SameHomes DEF StoreOK, HomesStill
<1>5. CASE ClearValue
  BY <1>5, ClearValueStep, SameHomes DEF StoreOK, HomesStill
<1>6. CASE Undo \/ Commit
  <2>1. Top' = Top /\ headers' = headers /\ value' = value
    BY <1>6, UndoStep, CommitStep DEF Undo, Commit, indexVars
  <2> QED
    BY <2>1, UnmovedIndex, SameHomes DEF StoreOK, HomesStill
<1>7. CASE Unlink
  BY <1>7, UnlinkStep DEF HomesStill
<1>8. CASE Unwind
  <2>1. SameIndex /\ value' = value
    BY <1>8, UnwindStep DEF Unwind
  <2> QED
    BY <2>1, SameHomes DEF StoreOK, HomesStill
<1>9. CASE \E n \in {1, MaxBulk} : \E bulk \in BOOLEAN : BeginEnqueue(n, bulk)
  <2>1. PICK n \in {1, MaxBulk}, bulk \in BOOLEAN : BeginEnqueue(n, bulk)
    BY <1>9
  <2>2. /\ ppc = "idle" /\ ppc' \in {"construct", "room"} /\ UNCHANGED <<tailIndex, headers, value>>
        /\ enq'.chain = << >>
    BY <2>1 DEF BeginEnqueue, ProducerGoto, indexVars, NoEnqueue
  <2>3. enq.chain = << >>
    BY <2>2 DEF StoreOK, EnqOK, NoEnqueue
  <2>4. Listed' = Listed
    BY <2>2, <2>3, SameTail DEF Listed
  <2>5. Top' = Top
    BY <2>2, <2>4 DEF Top, Undoing
  <2> QED
    BY <2>2, <2>5, UnmovedIndex, SameHomes DEF StoreOK, HomesStill
<1> QED
  BY <1>1, <1>2, <1>3, <1>4, <1>5, <1>6, <1>7, <1>8, <1>9 DEF Enqueue, InsertIndexEntry, Revert

LEMMA ListedFactsAll ==
  WindowsFit /\ IInv /\ ppc # "destroyed" => Committed <= Listed /\ Listed \in Nat
BY ListedFacts DEF IInv, StoreOK

LEMMA ListedFactsNext ==
  ASSUME WindowsFit, IInv', ppc' # "destroyed"
  PROVE  Committed' <= Listed' /\ Listed' \in Nat
<1>1. WindowsFit' <=> WindowsFit
  BY DEF WindowsFit, Numbers
<1>2. (WindowsFit /\ IInv /\ ppc # "destroyed")' => (Committed <= Listed /\ Listed \in Nat)'
  BY ListedFactsAll, PTL
<1> QED
  BY <1>1, <1>2

\* While the claims are still, so is what consumers have moved out.
LEMMA UnmovedStill ==
  ASSUME ClaimsStill
  PROVE  /\ Emptied' = Emptied
         /\ \A c \in Consumers : Unmoved(c)' = Unmoved(c) /\ Moved(c)' = Moved(c)
                                 /\ (GotOK(c) => GotOK(c)')
<1>1. /\ Emptied' = Emptied /\ cpc' = cpc /\ call' = call
      /\ \A c \in Consumers : /\ At(c)' = At(c) /\ First(c)' = First(c) /\ Until(c)' = Until(c)
                              /\ Here(c)' = Here(c)
  BY SameClaims DEF ClaimsStill
<1>2. \A c \in Consumers : Unmoved(c)' = Unmoved(c) /\ Moved(c)' = Moved(c)
  BY <1>1 DEF Unmoved, Moved, Stop
<1> QED
  BY <1>1, <1>2 DEF GotOK

\* The producer does not touch the elements while it prepares blocks.
LEMMA PreparingCells ==
  ASSUME WindowsFit, IInv, IInv', HeldOK, HomesStill, ClaimsStill,
         UNCHANGED <<tailIndex, cell, tailBlock>>,
         {ppc, ppc'} \cap {"commit", "destroyed"} = {}
  PROVE  CellsOK' /\ TailOK'
<1> HIDE DEF Numbers
<1>1. Filled' = Filled /\ Committed' = Committed
  BY SameTail
<1>2. Stored' = Stored
  BY <1>1, UnmovedStill DEF Stored, Constructed
<1>3. CellsOK'
  BY <1>2, CellsStill DEF HeldOK, HomesStill
<1>4. ASSUME Committed > 0, Live(Committed - 1) PROVE tailBlock = value'[Entry(Committed - 1)']
  <2>1. PICK m \in Nat : m = Committed - 1
    BY <1>4, CommittedValue DEF IInv
  <2>2. /\ Committed <= Listed /\ Listed \in Nat /\ Committed \in Nat
        /\ Committed' <= Listed' /\ Listed' \in Nat
    BY ListedFacts, ListedFactsNext DEF IInv, StoreOK
  <2>3. m \in LiveNos
    BY <1>4, <2>1, <2>2 DEF LiveNos, Limit
  <2>4. m \in LiveNos'
    <3>1. Live(m)'
      BY <1>4, <2>1, SameClaims
    <3>2. m \in 0 .. Limit' - 1
      <4>1. PICK l \in Nat : l = Listed'
        BY <2>2
      <4>2. Limit' = Committed \/ Limit' = l
        BY <1>1, <4>1 DEF Limit
      <4>3. m < Committed /\ m < l
        BY <1>1, <2>1, <2>2, <4>1
      <4> QED
        BY <2>2, <4>2, <4>3
    <3> QED
      BY <3>1, <3>2 DEF LiveNos
  <2>5. tailBlock = value[Entry(m)]
    BY <1>4, <2>1 DEF HeldOK, TailOK
  <2>6. m = (Committed - 1)'
    BY <1>1, <2>1
  <2> QED
    BY <2>3, <2>4, <2>5, <2>6 DEF HomesStill
<1>5. \A m : Live(m)' <=> Live(m)
  BY SameClaims
<1>6. TailOK'
  BY <1>1, <1>4, <1>5 DEF TailOK
<1> QED
  BY <1>3, <1>6

\* The producer loses no block.
LEMMA PlacesStill ==
  ASSUME NoneMissing, ClaimsStill, freeBlocks \subseteq Places', Chained \subseteq Places',
         enq.fresh \in Places' \cup {NoBlock},
         \A m \in LiveNos : value[Entry(m)] \in Places'
  PROVE  NoneMissing'
<1>1. Freeing' = Freeing /\ call' = call
  BY SameClaims DEF ClaimsStill
<1>2. \A c \in Freeing : call[c].block \in Places'
  BY <1>1 DEF Places
<1>3. NoBlock \notin Blocks
  BY ImplicitAssumption DEF ImplicitAssumption
<1>4. Places \subseteq Places' \cup {NoBlock}
  BY <1>2 DEF Places
<1> QED
  BY <1>3, <1>4 DEF NoneMissing

LEMMA LiveInPlaces ==
  ASSUME HomesStill, NEW m \in LiveNos, m \in LiveNos'
  PROVE  value[Entry(m)] \in Places'
BY DEF HomesStill, Places

LEMMA ChainInIndex ==
  ASSUME WindowsFit, ShareIInv, StoreOK, ~Undoing
  PROVE  /\ \A m \in LiveNos : m < Committed \/ value[Entry(m)] \in Chained
         /\ \A b \in Chained : \E m \in LiveNos : b = value[Entry(m)]
         /\ LiveNos = {m \in 0 .. Listed - 1 : Live(m)}
<1> HIDE DEF Numbers
<1>1. /\ Committed \in Nat /\ Listed \in Nat /\ Len(enq.chain) \in Nat
      /\ Listed = Committed + Len(enq.chain)
  BY ListedFacts DEF StoreOK
<1>2. LiveNos = {m \in 0 .. Listed - 1 : Live(m)}
  BY DEF LiveNos, Limit
<1>3. \A i \in 1 .. Len(enq.chain) : value[Entry(Committed + i - 1)] = enq.chain[i]
  BY DEF StoreOK, OwnersOK
<1>4. ASSUME NEW m \in LiveNos, ~(m < Committed) PROVE value[Entry(m)] \in Chained
  <2>1. PICK i \in Int : i = m - Committed + 1
    BY <1>1, <1>2
  <2>2. i \in 1 .. Len(enq.chain) /\ m = Committed + i - 1
    BY <1>1, <1>2, <1>4, <2>1
  <2> QED
    BY <1>3, <2>2 DEF Chained
<1>5. ASSUME NEW i \in 1 .. Len(enq.chain)
      PROVE  \E m \in LiveNos : enq.chain[i] = value[Entry(m)]
  <2>1. PICK m \in Int : m = Committed + i - 1
    BY <1>1
  <2>2. m \in 0 .. Listed - 1 /\ Committed <= m /\ m \in Nat
    BY <1>1, <2>1
  <2>3. m \in LiveNos
    BY <1>2, <2>2, LivePrepared
  <2> QED
    BY <1>3, <2>1, <2>3
<1> QED
  BY <1>2, <1>4, <1>5 DEF Chained

\* When a call fails, its blocks go back to the pool.
LEMMA ReturnedPlaces ==
  ASSUME WindowsFit, ShareIInv, ClaimsOK, StoreOK, NoneMissing, Undo \/ Unwind
  PROVE  NoneMissing'
<1> HIDE DEF Numbers
<1>1. /\ ClaimsStill /\ ppc \in {"undo", "unwind"} /\ tailIndex' = tailIndex
      /\ \/ freeBlocks' = freeBlocks \cup Prepared
         \/ freeBlocks' = freeBlocks /\ \E x : enq' = [enq EXCEPT !.base = x]
  BY DEF Undo, Unwind, ClaimsStill, claimVars, counters
<1>2. Limit' = Committed /\ HomesStill
  BY UndoStep, UnwindStep, EnqueueHomes DEF Enqueue, Revert
<1>3. enq \in EnqueueRecords
  BY DEF StoreOK, EnqOK
<1>4. Chained \subseteq Places' /\ enq.fresh \in Places' \cup {NoBlock} /\ freeBlocks \subseteq Places'
  <2>1. CASE freeBlocks' = freeBlocks \cup Prepared
    <3>1. 1 .. Len(enq.chain) = DOMAIN enq.chain
      BY <1>3 DEF EnqueueRecords
    <3>2. Chained \subseteq Prepared /\ enq.fresh \in Prepared \cup {NoBlock}
      BY <3>1 DEF Chained, Prepared
    <3> QED
      BY <2>1, <3>2 DEF Places
  <2>2. CASE freeBlocks' = freeBlocks /\ \E x : enq' = [enq EXCEPT !.base = x]
    <3>1. enq'.chain = enq.chain /\ enq'.fresh = enq.fresh
      BY <1>3, <2>2 DEF EnqueueRecords
    <3> QED
      BY <2>2, <3>1 DEF Places, Chained
  <2> QED
    BY <1>1, <2>1, <2>2
<1>5. ASSUME NEW m \in LiveNos PROVE value[Entry(m)] \in Places'
  <2>1. Committed \in Nat
    BY CommittedValue
  <2>2. CASE m < Committed
    <3>1. Live(m)' /\ m \in 0 .. Committed - 1
      <4>1. Live(m)
        BY DEF LiveNos
      <4>2. m \in Nat
        <5>1. PICK l \in Int : l = Limit
          BY ListedFacts DEF Limit, StoreOK
        <5> QED
          BY <5>1 DEF LiveNos
      <4> QED
        BY <1>1, <2>1, <2>2, <4>1, <4>2, SameClaims
    <3>2. m \in LiveNos'
      BY <1>2, <2>1, <3>1 DEF LiveNos
    <3> QED
      BY <1>2, <3>2, LiveInPlaces
  <2>3. CASE ~(m < Committed)
    <3>1. ~Undoing
      <4>1. ASSUME Undoing PROVE FALSE
        <5>1. Limit = Committed
          BY <4>1 DEF Limit
        <5> QED
          BY <2>1, <2>3, <5>1 DEF LiveNos
      <4> QED
        BY <4>1
    <3> QED
      BY <1>4, <2>3, <3>1, ChainInIndex
  <2> QED
    BY <2>2, <2>3
<1> QED
  BY <1>1, <1>4, <1>5, PlacesStill

LEMMA SameLimit ==
  ASSUME ClaimsStill, Limit' = Limit
  PROVE  LiveNos' = LiveNos
BY SameClaims DEF LiveNos

\* Blocks of the pool and of the index, and what the producer's thread holds, while it
\* returns none.
LEMMA KeptPlaces ==
  ASSUME NoneMissing, ClaimsStill, HomesStill, LiveNos \subseteq LiveNos',
         \/ freeBlocks' = freeBlocks /\ enq.fresh \in Places' \cup {NoBlock}
         \/ enq.fresh = NoBlock /\ freeBlocks \subseteq freeBlocks' \cup {enq'.fresh},
         Chained \subseteq Places'
  PROVE  NoneMissing'
<1>1. freeBlocks \subseteq Places' /\ enq.fresh \in Places' \cup {NoBlock}
  BY DEF Places
<1>2. \A m \in LiveNos : value[Entry(m)] \in Places'
  BY LiveInPlaces
<1> QED
  BY <1>1, <1>2, PlacesStill

\* The producer loses no block.
LEMMA EnqueuePlaces ==
  ASSUME WindowsFit, ShareIInv, ClaimsOK, StoreOK, NoneMissing, Enqueue
  PROVE  NoneMissing'
<1> HIDE DEF Numbers
<1>0. HomesStill
  BY EnqueueHomes
<1>1. CASE \/ CheckRoom \/ FindSlot \/ CannotGrow \/ StoreKey \/ Requisition \/ NoRequisition
           \/ ThrowUnpublished \/ Construct \/ ThrowInBatch
  <2>1. LiveNos' = LiveNos /\ Chained' = Chained /\ ClaimsStill
    BY <1>1, WaitHomes
  <2>2. enq \in EnqueueRecords
    BY DEF StoreOK, EnqOK
  <2>3. CASE Requisition
    <3>1. PICK b \in freeBlocks : freeBlocks' = freeBlocks \ {b} /\ enq' = [enq EXCEPT !.fresh = b]
      BY <2>3 DEF Requisition
    <3>2. enq'.fresh = b /\ enq.fresh = NoBlock
      BY <2>2, <2>3, <3>1 DEF EnqueueRecords, Requisition, StoreOK, EnqOK
    <3> QED
      BY <1>0, <2>1, <3>1, <3>2, KeptPlaces DEF Places
  <2>4. CASE ~Requisition
    <3>1. freeBlocks' = freeBlocks /\ (enq' = enq \/ \E e : enq' = [enq EXCEPT !.entry = e])
      BY <1>1, <2>4 DEF CheckRoom, FindSlot, CannotGrow, StoreKey, NoRequisition,
         ThrowUnpublished, Construct, ThrowInBatch, storage
    <3>2. enq'.fresh = enq.fresh
      BY <2>2, <3>1 DEF EnqueueRecords
    <3> QED
      BY <1>0, <2>1, <3>1, <3>2, KeptPlaces DEF Places
  <2> QED
    BY <2>3, <2>4
<1>2. CASE StoreValue
  <2>1. freeBlocks' = freeBlocks /\ ClaimsStill
    BY <1>2 DEF StoreValue, storage, claimVars, counters, ClaimsStill
  <2> QED
    BY <1>0, <1>2, <2>1, StoreValueHomes, KeptPlaces DEF Places
<1>3. CASE Grow
  <2>1. freeBlocks' = freeBlocks /\ ClaimsStill /\ \E e : enq' = [enq EXCEPT !.entry = e]
    BY <1>3 DEF Grow, storage, claimVars, counters, ClaimsStill
  <2>2. enq'.fresh = enq.fresh
    BY <2>1 DEF StoreOK, EnqOK, EnqueueRecords
  <2> QED
    BY <1>0, <1>3, <2>1, <2>2, GrowHomes, KeptPlaces DEF Places
<1>4. CASE StoreIndexTail \/ RewindTail \/ ClearValue
  <2>1. /\ freeBlocks' = freeBlocks /\ ClaimsStill /\ enq' = enq /\ tailIndex' = tailIndex
        /\ ppc \in {"indexTail", "rewind", "clear"} /\ ppc' \in {"requisition", "clear", "undo"}
    BY <1>4 DEF StoreIndexTail, RewindTail, ClearValue, ProducerGoto, storage, claimVars, counters,
       ClaimsStill
  <2>2. LiveNos' = LiveNos /\ Chained' = Chained /\ enq'.fresh = enq.fresh
    BY <2>1, SameCall, SameLimit DEF Limit, Undoing, Chained
  <2> QED
    BY <1>0, <2>1, <2>2, KeptPlaces DEF Places
<1>5. CASE Undo \/ Unwind
  BY <1>5, ReturnedPlaces
<1>6. CASE Unlink
  <2>1. /\ freeBlocks' = freeBlocks /\ ClaimsStill /\ enq' = enq /\ tailIndex' = tailIndex
    BY <1>6 DEF Unlink, storage, claimVars, counters, ClaimsStill
  <2>2. LiveNos' = LiveNos /\ Chained' = Chained /\ enq'.fresh = enq.fresh
    BY <1>6, <2>1, UnlinkStep, SameLimit DEF Limit, Chained
  <2> QED
    BY <1>0, <2>1, <2>2, KeptPlaces DEF Places
<1>7. CASE \E n \in {1, MaxBulk} : \E bulk \in BOOLEAN : BeginEnqueue(n, bulk)
  <2>1. PICK n \in {1, MaxBulk}, bulk \in BOOLEAN : BeginEnqueue(n, bulk)
    BY <1>7
  <2>2. /\ ppc = "idle" /\ ppc' \in {"construct", "room"} /\ tailIndex' = tailIndex
        /\ enq'.chain = << >> /\ freeBlocks' = freeBlocks /\ ClaimsStill
    BY <2>1 DEF BeginEnqueue, ProducerGoto, indexVars, NoEnqueue, storage, claimVars, counters,
       ClaimsStill
  <2>3. enq.chain = << >> /\ enq.fresh = NoBlock
    BY <2>2 DEF StoreOK, EnqOK, NoEnqueue
  <2>4. LiveNos' = LiveNos
    BY <2>2, <2>3, SameTail, SameLimit DEF Listed, Limit, Undoing
  <2>5. Chained = {}
    BY <2>3 DEF Chained
  <2> QED
    BY <1>0, <2>2, <2>3, <2>4, <2>5, KeptPlaces DEF Places
<1>8. CASE Commit
  <2>1. /\ ppc = "commit" /\ ppc' = "idle" /\ freeBlocks' = freeBlocks /\ ClaimsStill
    BY <1>8 DEF Commit, EndCall, ProducerGoto, storage, claimVars, counters, ClaimsStill
  <2>2. enq.fresh = NoBlock /\ ~Undoing
    BY <2>1 DEF StoreOK, EnqOK, Undoing
  <2>3. LiveNos' = LiveNos
    <3>1. Limit' = Limit
      BY <1>8, <2>1, CommitStep DEF Limit, Undoing
    <3> QED
      BY <2>1, <3>1, SameLimit
  <2>4. Chained \subseteq Places'
    BY <1>0, <2>2, <2>3, ChainInIndex, LiveInPlaces
  <2> QED
    BY <1>0, <2>1, <2>2, <2>3, <2>4, KeptPlaces
<1> QED
  BY <1>1, <1>2, <1>3, <1>4, <1>5, <1>6, <1>7, <1>8 DEF Enqueue, InsertIndexEntry, Revert

------------------------------------------------------------------------------
(* The elements of a batch.                                                *)

\* The block that the tail is in, or that it starts.
TailNo == Filled \div BlockSize

LEMMA TailBlockNo ==
  ASSUME WindowsFit, ShareIInv
  PROVE  /\ TailNo \in Nat /\ Filled \in Within(TailNo) /\ TailNo * BlockSize <= Filled
         /\ TailNo * BlockSize \in Index
         /\ Base(tailIndex) = BaseOf(TailNo) /\ Slot(tailIndex) \in Slots
         /\ Slot(tailIndex) = Filled - TailNo * BlockSize
         /\ Committed = IF Slot(tailIndex) = 0 THEN TailNo ELSE TailNo + 1
<1> HIDE DEF Numbers
<1>1. tailIndex \in Index /\ Filled \in Nat
  BY Basics
<1>2. /\ TailNo \in Nat /\ TailNo * BlockSize \in Index /\ Filled \in Within(TailNo)
      /\ Base(tailIndex) = BaseOf(TailNo) /\ Slot(tailIndex) = Filled % BlockSize
  BY <1>1, BlockNoValue DEF TailNo, BlockNo, Number, Filled
<1>3. Filled % BlockSize \in Slots /\ Filled = TailNo * BlockSize + (Filled % BlockSize)
  BY <1>1, QuotientWithin DEF TailNo
<1>4. PICK k \in Nat \ {0}, f \in Nat, p \in Nat, r \in Nat : r < k /\
        k = BlockSize /\ f = TailNo /\ p = TailNo * BlockSize /\ r = Filled % BlockSize
        /\ p = f * k /\ Filled = p + r
  <2>1. TailNo * BlockSize \in Nat
    BY <1>2, WithinValue
  <2>2. BlockSize \in Nat \ {0}
    BY BlockFacts
  <2>3. Filled % BlockSize \in Nat /\ Filled % BlockSize < BlockSize
    BY <1>3, <2>2 DEF Slots
  <2> QED
    BY <1>2, <1>3, <2>1, <2>2, <2>3
<1>5. Committed = IF r = 0 THEN f ELSE f + 1
  <2>1. Committed = (p + r + k - 1) \div k
    BY <1>4 DEF Committed
  <2>2. CASE r = 0
    <3>1. p + r + k - 1 \in f * k .. f * k + k - 1 /\ p + r + k - 1 \in Int /\ f \in Int
      BY <1>4, <2>2
    <3>2. (p + r + k - 1) \div k = f
      BY <1>4, <3>1, Quotient
    <3> QED
      BY <2>1, <2>2, <3>2
  <2>3. CASE r # 0
    <3>1. (f + 1) * k = p + k
      BY <1>4
    <3>2. p + r + k - 1 \in (f + 1) * k .. (f + 1) * k + k - 1 /\ p + r + k - 1 \in Int
      BY <1>4, <2>3, <3>1
    <3>3. f + 1 \in Int
      BY <1>4
    <3>4. (p + r + k - 1) \div k = f + 1
      BY <1>4, <3>2, <3>3, Quotient
    <3> QED
      BY <2>1, <2>3, <3>4
  <2> QED
    BY <2>2, <2>3
<1> QED
  BY <1>2, <1>3, <1>4, <1>5

LEMMA HomesApart ==
  ASSUME WindowsFit, ShareIInv, StoreOK, NEW n \in Nat, NEW p \in Nat,
         n \div BlockSize \in LiveNos, p \div BlockSize \in LiveNos,
         Home(n) = Home(p), n % BlockSize = p % BlockSize
  PROVE  n = p
<1>1. n \div BlockSize = p \div BlockSize
  BY DEF Home, StoreOK, OwnersOK
<1>2. /\ n = (n \div BlockSize) * BlockSize + (n % BlockSize)
      /\ p = (p \div BlockSize) * BlockSize + (p % BlockSize)
  BY QuotientWithin
<1> QED
  BY <1>1, <1>2

\* The blocks for a batch are those that the index lists from the tail on.
LEMMA TargetsValue ==
  ASSUME WindowsFit, ShareIInv, StoreOK, TailOK, ~Undoing, ppc # "commit"
  PROVE  /\ Len(Targets) = Listed - TailNo /\ TailNo <= Listed
         /\ \A q \in TailNo .. Listed - 1 : q \in LiveNos /\ Targets[q - TailNo + 1] = value[Entry(q)]
<1> HIDE DEF Numbers
<1>1. /\ TailNo \in Nat /\ Filled \in Within(TailNo)
      /\ Committed = IF Slot(tailIndex) = 0 THEN TailNo ELSE TailNo + 1
  BY TailBlockNo
<1>2. PICK f \in Nat, k \in Nat, t \in Nat, n \in Nat :
        f = TailNo /\ k = Committed /\ t = Listed /\ n = Len(enq.chain) /\ t = k + n
  BY <1>1, ListedFacts DEF StoreOK
<1>3. PICK ch \in Seq(Blocks) : ch = enq.chain /\ n = Len(ch)
  BY <1>2 DEF StoreOK, EnqOK, EnqueueRecords
<1>4. Limit = t
  BY <1>2 DEF Limit
<1>5. ASSUME NEW q \in f .. t - 1 PROVE q \in LiveNos
  <2>1. Live(q)
    <3>1. CASE q = f
      <4>1. ~Consumed(Filled)
        <5>1. Filled \in Nat /\ Emptied \in Nat /\ Emptied <= Filled
          BY Basics
        <5> QED
          BY <5>1 DEF Consumed
      <4> QED
        BY <1>1, <1>2, <3>1, <4>1 DEF Live
    <3>2. CASE q # f
      <4>1. q \in Nat /\ k <= q
        BY <1>1, <1>2, <3>2
      <4> QED
        BY <1>2, <4>1, LivePrepared
    <3> QED
      BY <3>1, <3>2
  <2> QED
    BY <1>4, <2>1 DEF LiveNos
<1>6. ASSUME NEW q \in k .. t - 1 PROVE value[Entry(q)] = ch[q - k + 1]
  <2>1. PICK i \in Int : i = q - k + 1
    BY <1>2
  <2>2. i \in 1 .. n /\ q = k + i - 1
    BY <1>2, <1>6, <2>1
  <2>3. value[Entry(Committed + i - 1)] = enq.chain[i]
    BY <1>2, <1>3, <2>2 DEF StoreOK, OwnersOK
  <2> QED
    BY <1>2, <1>3, <2>1, <2>2, <2>3
<1>7. CASE Slot(tailIndex) = 0
  <2>1. Targets = ch /\ k = f
    BY <1>1, <1>2, <1>3, <1>7 DEF Targets
  <2> QED
    BY <1>2, <1>3, <1>5, <1>6, <2>1
<1>8. CASE Slot(tailIndex) # 0
  <2>0. Targets = <<tailBlock>> \o ch
    BY <1>3, <1>8 DEF Targets
  <2>1. k = f + 1
    BY <1>1, <1>2, <1>8
  <2>9. f \in Int /\ k \in Int /\ n \in Nat /\ t \in Int /\ t = f + 1 + n
    BY <1>2, <2>1
  <2>2. /\ Len(Targets) = n + 1 /\ Targets[1] = tailBlock
        /\ \A j \in 1 .. n : Targets[j + 1] = ch[j]
    <3> DEFINE s == <<tailBlock>>
    <3>1. Len(s) = 1 /\ s[1] = tailBlock /\ s \in Seq({tailBlock} \cup Blocks)
      OBVIOUS
    <3>2. ch \in Seq({tailBlock} \cup Blocks)
      BY <1>3
    <3> HIDE DEF s
    <3> QED
      BY <1>2, <1>3, <2>0, <3>1, <3>2 DEF s
  <2>3. tailBlock = value[Entry(f)]
    <3>1. f = Committed - 1 /\ Committed > 0
      BY <1>2, <2>1
    <3>2. Live(Committed - 1)
      <4>1. f \in f .. t - 1
        BY <2>9
      <4> QED
        BY <1>5, <3>1, <4>1 DEF LiveNos
    <3> QED
      BY <3>1, <3>2 DEF TailOK
  <2>4. ASSUME NEW q \in f .. t - 1 PROVE Targets[q - f + 1] = value[Entry(q)]
    <3>1. CASE q = f
      <4>1. q - f + 1 = 1
        BY <1>2, <3>1
      <4> QED
        BY <2>2, <2>3, <3>1, <4>1
    <3>2. CASE q # f
      <4>1. q - k + 1 \in 1 .. n /\ q \in k .. t - 1 /\ (q - k + 1) + 1 = q - f + 1
        BY <2>9, <2>1, <3>2
      <4> QED
        BY <1>6, <2>2, <4>1
    <3> QED
      BY <3>1, <3>2
  <2>5. Len(Targets) = t - f /\ f <= t
    BY <2>2, <2>9
  <2> QED
    BY <1>2, <1>5, <2>4, <2>5
<1> QED
  BY <1>7, <1>8

\* An element of the batch is constructed where the index will find it.
LEMMA TargetOfValue ==
  ASSUME WindowsFit, ShareIInv, StoreOK, TailOK, ppc = "construct",
         NEW n \in Filled .. Filled + enq.count - 1
  PROVE  /\ n \in Nat /\ n \in Index /\ n < MaxEnqueued /\ Emptied <= n
         /\ n \div BlockSize \in LiveNos /\ n % BlockSize \in Slots
         /\ TargetOf(Element(n)) = Home(n) /\ Slot(Element(n)) = n % BlockSize
<1> HIDE DEF Numbers
<1>1. /\ Filled \in Nat /\ Emptied \in Nat /\ Emptied <= Filled /\ Filled + enq.count <= MaxEnqueued
      /\ enq.count \in Nat /\ MaxEnqueued \in Nat /\ MaxEnqueued < Numbers /\ Numbers \in Nat
  BY Basics DEF ShareIInv, EnqueueFits
<1>2. n \in Nat /\ n \in Index /\ n < MaxEnqueued /\ Emptied <= n
  BY <1>1 DEF Index
<1>3. PICK q \in Nat : q = n \div BlockSize /\ n \in Within(q) /\ n % BlockSize \in Slots
  BY <1>2, QuotientWithin
<1>4. /\ TailNo \in Nat /\ TailNo * BlockSize <= Filled /\ Base(tailIndex) = BaseOf(TailNo)
      /\ TailNo * BlockSize \in Index
  BY TailBlockNo
<1>5. PICK k \in Nat \ {0}, f \in Nat, t \in Nat, p \in Nat, r \in Nat :
        /\ k = BlockSize /\ f = TailNo /\ t = Listed /\ p = f * k /\ r = q * k
        /\ r <= n /\ n < r + k /\ p <= n /\ n < t * k
  <2>1. Listed \in Nat /\ Listed * BlockSize \in Nat /\ Filled + enq.count <= Listed * BlockSize
    BY ListedFacts DEF StoreOK, EnqOK
  <2>2. q * BlockSize \in Nat /\ TailNo * BlockSize \in Nat /\ q * BlockSize <= n
        /\ n < q * BlockSize + BlockSize
    BY <1>3, <1>4, WithinValue
  <2>3. BlockSize \in Nat \ {0}
    BY BlockFacts
  <2>4. TailNo * BlockSize <= n /\ n < Listed * BlockSize
    BY <1>1, <1>4, <2>1, <2>2
  <2> QED
    BY <1>4, <2>1, <2>2, <2>3, <2>4
<1>6. f <= q /\ q < t
  <2>1. (q + 1) * k = r + k /\ t * k \in Nat
    BY <1>3, <1>5
  <2>2. f * k < (q + 1) * k /\ q * k < t * k /\ q + 1 \in Int /\ f \in Int /\ q \in Int /\ t \in Int
    BY <1>3, <1>5, <2>1
  <2>3. f < q + 1 /\ q < t
    BY <1>5, <2>2, Order
  <2> QED
    BY <1>3, <1>5, <2>3
<1>7. Minus(Element(n), Base(tailIndex)) = n - p
  <2>1. /\ Element(n) \in Index /\ Minus(Element(n), StartIndex) = n
    BY <1>2, ElementValue DEF Number
  <2>2. BaseOf(f) \in Index /\ Minus(BaseOf(f), StartIndex) = p
    BY <1>4, <1>5, BaseOfValue DEF Number
  <2>3. StartIndex \in Index /\ Base(tailIndex) = BaseOf(f)
    BY <1>4, <1>5, HalfRange
  <2>4. Minus(Element(n), BaseOf(f)) = IF n >= p THEN n - p ELSE n - p + Numbers
    BY <2>1, <2>2, <2>3, SameStart
  <2> QED
    BY <1>5, <2>3, <2>4
<1>8. (n - p) \div BlockSize = q - f
  <2>1. (q - f) * k = r - p
    BY <1>3, <1>5, Distribute
  <2>2. n - p \in (q - f) * k .. (q - f) * k + k - 1 /\ n - p \in Int /\ q - f \in Int
    BY <1>2, <1>3, <1>5, <2>1
  <2> QED
    BY <1>5, <2>2, Quotient
<1>9. q \in LiveNos /\ TargetOf(Element(n)) = value[Entry(q)]
  <2>1. q \in TailNo .. Listed - 1
    BY <1>3, <1>5, <1>6
  <2>2. q \in LiveNos /\ Targets[q - TailNo + 1] = value[Entry(q)]
    BY <2>1, TargetsValue DEF Undoing
  <2> QED
    BY <1>5, <1>7, <1>8, <2>2 DEF TargetOf
<1>10. Slot(Element(n)) = n % BlockSize
  BY <1>2, ElementValue, BlockNoValue
<1> QED
  BY <1>2, <1>3, <1>9, <1>10 DEF Home

LEMMA BatchElements ==
  ASSUME WindowsFit, ShareIInv
  PROVE  Batch = {Element(n) : n \in Filled .. Filled + enq.count - 1}
<1> HIDE DEF Numbers
<1>1. /\ Filled \in Nat /\ enq.count \in Nat /\ Filled + enq.count <= MaxEnqueued
      /\ MaxEnqueued \in Nat /\ MaxEnqueued < Numbers /\ Numbers \in Nat /\ tailIndex \in Index
  BY Basics DEF ShareIInv, EnqueueFits
<1>2. ASSUME NEW k \in 0 .. enq.count - 1 PROVE Plus(tailIndex, k) = Element(Filled + k)
  <2>1. k \in Nat /\ Filled + k \in Index /\ Filled + k < Numbers /\ StartIndex \in Index
    BY <1>1, HalfRange DEF Index
  <2>2. Plus(tailIndex, k) \in Index /\ Number(Plus(tailIndex, k)) = Filled + k
    BY <1>1, <2>1, Advanced DEF Filled, Number
  <2> QED
    BY <2>2, NumberValue
<1>3. ASSUME NEW n \in Filled .. Filled + enq.count - 1
      PROVE  \E k \in 0 .. enq.count - 1 : n = Filled + k
  <2>1. n - Filled \in 0 .. enq.count - 1 /\ n = Filled + (n - Filled)
    BY <1>1
  <2> QED
    BY <2>1
<1>4. \A k \in 0 .. enq.count - 1 : Filled + k \in Filled .. Filled + enq.count - 1
  BY <1>1
<1> QED
  BY <1>2, <1>3, <1>4 DEF Batch

\* The elements of the batch are constructed in their places.
LEMMA ConstructCells ==
  ASSUME WindowsFit, ShareIInv, ClaimsOK, StoreOK, CellsOK, TailOK, enq.count # 0, Construct
  PROVE  CellsOK' /\ TailOK'
<1> HIDE DEF Numbers
<1>1. /\ ppc = "construct" /\ ppc' = "commit" /\ tailBlock' = Targets[Len(Targets)]
      /\ UNCHANGED <<tailIndex, enq, value>> /\ ClaimsStill
  BY DEF Construct, ProducerGoto, storage, indexVars, claimVars, counters, ClaimsStill
<1>2. /\ Filled \in Nat /\ Emptied \in Nat /\ Emptied <= Filled /\ enq.count \in Nat \ {0}
      /\ Filled + enq.count <= MaxEnqueued /\ MaxEnqueued \in Nat
  BY Basics DEF ShareIInv, EnqueueFits
<1>3. Filled' = Filled /\ Committed' = Committed /\ Listed' = Listed
  BY <1>1, SameCall
<1> DEFINE New == Filled .. Filled + enq.count - 1
<1>4. Stored' = Stored \cup New
  <2>1. Constructed' = Filled + enq.count /\ Constructed = Filled
    BY <1>1, <1>3 DEF Constructed
  <2>2. Emptied' = Emptied /\ \A c \in Consumers : Unmoved(c)' = Unmoved(c)
    BY <1>1, UnmovedStill
  <2>3. \A c \in Consumers : \A n \in Unmoved(c) : n \in 0 .. Filled - 1
    <3>1. ASSUME NEW c \in Consumers, NEW n \in Unmoved(c) PROVE n \in 0 .. Filled - 1
      <4>1. ClaimOK(c) /\ cpc[c] \in ClaimedPcs
        BY <3>1 DEF ClaimsOK, Unmoved
      <4>2. Moved(c) \in Nat /\ Until(c) \in Nat /\ Until(c) <= Emptied /\ n \in Moved(c) .. Until(c) - 1
        BY <4>1, UnmovedFacts
      <4> QED
        BY <1>2, <4>2
    <3> QED
      BY <3>1
  <2>4. 0 .. Filled + enq.count - 1 = (0 .. Filled - 1) \cup New
    BY <1>2
  <2>5. \A n \in New : n >= Emptied
    BY <1>2
  <2> HIDE DEF New
  <2>6. ASSUME NEW n
        PROVE  n \in Stored' <=> /\ n \in (0 .. Filled - 1) \cup New
                                 /\ n >= Emptied \/ \E c \in Consumers : n \in Unmoved(c)
    <3>1. PICK k : k = Filled + enq.count
      OBVIOUS
    <3>2. Constructed' = k
      BY <2>1, <3>1
    <3>3. n \in 0 .. k - 1 <=> n \in (0 .. Filled - 1) \cup New
      <4>1. k - 1 = Filled + enq.count - 1
        BY <1>2, <3>1
      <4> QED
        BY <2>4, <4>1
    <3>4. n \in Stored' <=> /\ n \in 0 .. k - 1
                            /\ n >= Emptied \/ \E c \in Consumers : n \in Unmoved(c)
      BY <2>2, <3>2 DEF Stored
    <3> QED
      BY <3>3, <3>4
  <2>7. ASSUME NEW n
        PROVE  n \in Stored <=> /\ n \in 0 .. Filled - 1
                                /\ n >= Emptied \/ \E c \in Consumers : n \in Unmoved(c)
    BY <2>1 DEF Stored
  <2> QED
    BY <2>3, <2>5, <2>6, <2>7
<1>5. ASSUME NEW n \in New
      PROVE  /\ n \in Nat /\ n \in Index /\ n \div BlockSize \in LiveNos /\ n % BlockSize \in Slots
             /\ TargetOf(Element(n)) = Home(n) /\ Slot(Element(n)) = n % BlockSize
  BY <1>1, <1>5, TargetOfValue
<1>6. ASSUME NEW n \in Stored
      PROVE  /\ n \in Nat /\ n \div BlockSize \in LiveNos /\ n % BlockSize \in Slots
             /\ n \notin New
  <2>1. n \in 0 .. Filled - 1
    BY <1>1 DEF Stored, Constructed
  <2>2. n \notin New
    BY <1>2, <2>1
  <2> QED
    BY <2>2, StoredFacts
<1> HIDE DEF New
<1>7. \A n \in Stored' : Home(n)' = Home(n)
  <2>1. \A m \in LiveNos : value'[Entry(m)'] = value[Entry(m)]
    BY WaitHomes
  <2> QED
    BY <1>4, <1>5, <1>6, <2>1 DEF Home
<1>8. \A n \in Stored' : Home(n) \in Blocks
  BY <1>4, <1>5, <1>6 DEF Home, StoreOK, OwnersOK
<1>9. Batch = {Element(n) : n \in New}
  BY BatchElements DEF New
<1> DEFINE here(b, s) == {i \in Batch : TargetOf(i) = b /\ Slot(i) = s}
<1>10. \A b \in Blocks : \A s \in Slots : cell'[b][s] =
         IF here(b, s) = {} THEN cell[b][s] ELSE CHOOSE i \in here(b, s) : TRUE
  BY DEF Construct
<1>11. DOMAIN cell' = Blocks /\ \A b \in Blocks : DOMAIN cell'[b] = Slots
  BY DEF Construct
<1>12. ASSUME NEW b, NEW s
       PROVE  here(b, s) = {Element(n) : n \in {p \in New : Home(p) = b /\ p % BlockSize = s}}
  BY <1>5, <1>9
<1>13. ASSUME NEW n \in New PROVE here(Home(n), n % BlockSize) = {Element(n)}
  <2>1. \A p \in New : Home(p) = Home(n) /\ p % BlockSize = n % BlockSize => p = n
    BY <1>5, <1>13, HomesApart
  <2> HIDE DEF here
  <2> QED
    BY <1>12, <1>13, <2>1
<1>14. ASSUME NEW n \in Stored PROVE here(Home(n), n % BlockSize) = {}
  <2>1. \A p \in New : Home(p) = Home(n) /\ p % BlockSize = n % BlockSize => p = n
    BY <1>5, <1>6, <1>14, HomesApart
  <2>2. n \notin New
    BY <1>6, <1>14
  <2> HIDE DEF here
  <2> QED
    BY <1>12, <2>1, <2>2
<1> HIDE DEF here
<1>15. ASSUME NEW n \in Stored' PROVE cell'[Home(n)'][n % BlockSize] = Element(n)
  <2>1. Home(n)' = Home(n) /\ Home(n) \in Blocks
    BY <1>7, <1>8, <1>15
  <2>2. CASE n \in New
    <3>1. here(Home(n), n % BlockSize) = {Element(n)} /\ n % BlockSize \in Slots
      BY <1>5, <1>13, <2>2
    <3>2. (CHOOSE i \in {Element(n)} : TRUE) = Element(n)
      OBVIOUS
    <3> QED
      BY <1>10, <2>1, <3>1, <3>2
  <2>3. CASE n \in Stored
    <3>1. here(Home(n), n % BlockSize) = {} /\ n % BlockSize \in Slots
      BY <1>6, <1>14, <2>3
    <3> QED
      BY <1>10, <2>1, <2>3, <3>1 DEF CellsOK
  <2> QED
    BY <1>4, <1>15, <2>2, <2>3
<1>16. ASSUME NEW b \in Blocks, NEW s \in Slots, cell'[b][s] # Vacant
       PROVE  \E n \in Stored' : Home(n)' = b /\ n % BlockSize = s
  <2>1. CASE here(b, s) = {}
    <3>1. \E n \in Stored : Home(n) = b /\ n % BlockSize = s
      BY <1>10, <1>16, <2>1 DEF CellsOK
    <3> QED
      BY <1>4, <1>7, <3>1
  <2>2. CASE here(b, s) # {}
    <3>1. \E n \in New : Home(n) = b /\ n % BlockSize = s
      BY <1>12, <2>2
    <3> QED
      BY <1>4, <1>7, <3>1
  <2> QED
    BY <2>1, <2>2
<1>17. CellsOK'
  BY <1>11, <1>15, <1>16 DEF CellsOK, Element, Plus
<1>18. TailOK'
  <2>1. /\ Len(Targets) = Listed - TailNo /\ TailNo <= Listed
        /\ \A q \in TailNo .. Listed - 1 : q \in LiveNos /\ Targets[q - TailNo + 1] = value[Entry(q)]
    BY <1>1, TargetsValue DEF Undoing
  <2>2. Listed \in Nat /\ TailNo \in Nat
    BY TailBlockNo, ListedFacts DEF StoreOK
  <2>3. TailNo < Listed
    <3>1. PICK n \in Int : n = Filled
      BY <1>2
    <3>2. n \in New
      BY <1>2, <3>1 DEF New
    <3>3. n \div BlockSize \in LiveNos /\ TailNo = n \div BlockSize
      BY <1>5, <3>1, <3>2 DEF TailNo
    <3>4. TailNo \in 0 .. Listed - 1
      BY <1>1, <3>3 DEF LiveNos, Limit, Undoing
    <3> QED
      BY <2>2, <3>4
  <2>4. PICK q \in Nat : q = Listed - 1 /\ q \in TailNo .. Listed - 1 /\ q - TailNo + 1 = Len(Targets)
    BY <2>1, <2>2, <2>3
  <2>5. tailBlock' = value[Entry(q)] /\ q \in LiveNos
    BY <1>1, <2>1, <2>4
  <2>6. value'[Entry(q)'] = value[Entry(q)]
    BY <2>5, WaitHomes
  <2>7. q = (Listed - 1)' /\ Listed' > 0
    BY <1>3, <2>2, <2>4
  <2> QED
    BY <1>1, <2>5, <2>6, <2>7 DEF TailOK
<1> QED
  BY <1>17, <1>18

LEMMA CommitCells ==
  ASSUME WindowsFit, IInv, IInv', CellsOK, TailOK, Commit
  PROVE  CellsOK' /\ TailOK'
<1> HIDE DEF Numbers
<1>1. /\ ppc = "commit" /\ ppc' = "idle" /\ UNCHANGED <<cell, headers, value, tailBlock>> /\ ClaimsStill
  BY DEF Commit, EndCall, ProducerGoto, storage, indexVars, claimVars, counters, ClaimsStill
<1>2. ShareIInv /\ ClaimsOK /\ StoreOK
  BY <1>1 DEF IInv
<1>3. Top' = Top /\ Committed' = Listed /\ Listed' = Listed /\ Filled' = Filled + enq.count
  BY <1>2, CommitStep
<1>4. Constructed' = Constructed
  BY <1>1, <1>3 DEF Constructed
<1>5. Stored' = Stored
  BY <1>1, <1>4, UnmovedStill DEF Stored
<1>6. HomesStill
  BY <1>2, EnqueueHomes DEF Enqueue
<1>7. CellsOK'
  BY <1>1, <1>5, <1>6, CellsStill DEF HomesStill
<1>8. PICK k : k = Listed - 1
  OBVIOUS
<1>9. (Live(k) => tailBlock = value[Entry(k)]) /\ (Committed - 1)' = k
  BY <1>1, <1>3, <1>8 DEF TailOK
<1>10. Entry(k)' = Entry(k) /\ (Live(k)' <=> Live(k))
  BY <1>1, <1>3, UnmovedIndex, SameClaims
<1> QED
  BY <1>1, <1>7, <1>9, <1>10 DEF TailOK

\* A call asks for elements until it has returned.
LEMMA EnqueueCount ==
  ASSUME ShareIInv, StoreOK, CountOK, Enqueue
  PROVE  CountOK'
<1> HIDE DEF Numbers
<1>1. enq \in EnqueueRecords /\ MaxBulk \in Nat \ {0}
  BY HalfRange DEF StoreOK, EnqOK
<1>2. CASE \E n \in {1, MaxBulk} : \E bulk \in BOOLEAN : BeginEnqueue(n, bulk)
  <2>1. PICK n \in {1, MaxBulk}, bulk \in BOOLEAN : BeginEnqueue(n, bulk)
    BY <1>2
  <2>2. enq'.count = n
    BY <2>1 DEF BeginEnqueue, NoEnqueue
  <2> QED
    BY <1>1, <2>1, <2>2 DEF CountOK
<1>3. CASE ppc' = "idle"
  BY <1>3 DEF CountOK
<1>4. CASE ppc # "idle" /\ enq'.count = enq.count
  BY <1>4 DEF CountOK
<1>5. CASE InsertIndexEntry \/ CheckRoom \/ Requisition \/ NoRequisition \/ ThrowUnpublished
           \/ ThrowInBatch \/ Construct
  <2>1. /\ ppc # "idle"
        /\ \/ enq' = enq \/ (\E e : enq' = [enq EXCEPT !.entry = e])
           \/ \E b : enq' = [enq EXCEPT !.fresh = b]
    BY <1>5 DEF InsertIndexEntry, CheckRoom, FindSlot, Grow, CannotGrow, StoreKey, StoreIndexTail,
       Requisition, NoRequisition, ThrowUnpublished, ThrowInBatch, Construct
  <2> QED
    BY <1>1, <1>4, <2>1 DEF EnqueueRecords
<1>6. CASE StoreValue
  <2>1. ppc # "idle" /\ \E x, y, z : enq' = [enq EXCEPT !.chain = x, !.fresh = y, !.base = z]
    BY <1>6 DEF StoreValue
  <2> QED
    BY <1>1, <1>4, <2>1 DEF EnqueueRecords
<1>7. CASE Revert
  <2>1. \/ ppc' = "idle"
        \/ ppc # "idle" /\ (enq' = enq \/ \E x : enq' = [enq EXCEPT !.base = x])
    BY <1>7 DEF Revert, RewindTail, ClearValue, Undo, Unlink, Unwind, EndCall, ProducerGoto
  <2> QED
    BY <1>1, <1>3, <1>4, <2>1 DEF EnqueueRecords
<1>8. CASE Commit
  BY <1>3, <1>8 DEF Commit, EndCall, ProducerGoto
<1> QED
  BY <1>2, <1>5, <1>6, <1>7, <1>8 DEF Enqueue

LEMMA EnqueueHeld ==
  ASSUME WindowsFit, IInv, IInv', HeldOK, Enqueue
  PROVE  HeldOK' /\ \A c \in Consumers : GotOK(c) => GotOK(c)'
<1> HIDE DEF Numbers
<1>1. /\ ClaimsStill /\ ppc # "destroyed" /\ ppc' # "destroyed"
      /\ ~Construct /\ ~Commit =>
           UNCHANGED <<tailIndex, cell, tailBlock>> /\ {ppc, ppc'} \cap {"commit", "destroyed"} = {}
  BY DEF Enqueue, InsertIndexEntry, Revert, BeginEnqueue, CheckRoom, FindSlot, Grow, CannotGrow,
     StoreKey, StoreIndexTail, Requisition, NoRequisition, StoreValue, Construct, Commit,
     ThrowUnpublished, ThrowInBatch, RewindTail, ClearValue, Undo, Unlink, Unwind,
     EndCall, ProducerGoto, ClaimsStill, claimVars, counters, storage
<1>2. ShareIInv /\ ClaimsOK /\ StoreOK /\ CellsOK /\ NoneMissing /\ TailOK /\ CountOK
  BY <1>1 DEF IInv, HeldOK
<1>3. NoneMissing' /\ CountOK'
  BY <1>2, EnqueuePlaces, EnqueueCount
<1>4. CellsOK' /\ TailOK'
  <2>1. CASE Construct
    <3>1. enq.count # 0
      BY <1>2, <2>1 DEF CountOK, Construct
    <3> QED
      BY <1>2, <2>1, <3>1, ConstructCells
  <2>2. CASE Commit
    BY <1>2, <2>2, CommitCells
  <2>3. CASE ~Construct /\ ~Commit
    BY <1>1, <1>2, <2>3, PreparingCells, EnqueueHomes
  <2> QED
    BY <2>1, <2>2, <2>3
<1> QED
  BY <1>1, <1>3, <1>4, UnmovedStill DEF HeldOK

------------------------------------------------------------------------------
(* The lookup of the producer's own thread, and of the destructor.         *)

LEMMA BlockForValue ==
  ASSUME WindowsFit, ShareIInv, StoreOK, NEW n \in Nat, n < MaxEnqueued,
         n \div BlockSize \in LiveNos
  PROVE  BlockFor(Element(n)) = Home(n)
<1> HIDE DEF Numbers
<1> USE DEF StoreOK
<1>1. /\ Listed \in Nat /\ Committed \in Nat /\ Committed <= Listed
      /\ MaxEnqueued \in Nat /\ MaxEnqueued < Numbers \div 2 /\ Numbers \div 2 < Numbers
      /\ Numbers \in Nat /\ Numbers \div 2 \in Nat
  BY ListedFacts, Basics
<1>2. PICK m \in Nat : m = n \div BlockSize /\ n \in Within(m)
  BY QuotientWithin
<1>3. Live(m) /\ m < Limit /\ m < Listed
  BY <1>1, <1>2 DEF LiveNos, Limit
<1>4. headers # << >>
  BY <1>3, LiveWindow
<1>5. /\ Last \in Headers /\ Last.tail \in 0 .. Capacity(Last) - 1
      /\ DOMAIN Last.index = 0 .. Capacity(Last) - 1 /\ Capacity(Last) \in Nat \ {0}
      /\ Origin = Last.tail - Top /\ Origin \in Int
  BY <1>4, EntryFacts
<1>6. PICK t \in 0 .. Capacity(Last) - 1 : t = Last.tail
  BY <1>5
<1>7. PICK T \in Nat : T = Top /\ m <= T /\ T <= Listed
  <2>1. /\ Top \in Int /\ Top <= Listed
        /\ Undoing => Top \in Committed .. Listed - 1
        /\ ~Undoing => Listed - 1 <= Top
    BY TopFacts
  <2>2. Undoing => m < Committed
    BY <1>3 DEF Limit
  <2>3. m <= Top
    BY <1>1, <1>3, <2>1, <2>2
  <2> QED
    BY <2>1, <2>3
<1>8. key[Entry(T)] = BaseOf(T) /\ T * BlockSize \in Nat /\ T * BlockSize < Numbers \div 2
  <2>1. CASE T < Listed
    <3>1. T \in m .. Listed - 1
      BY <1>1, <1>7, <2>1
    <3> QED
      BY <1>3, <2>1, <3>1, LiveWindow, BlockNear
  <2>2. CASE T = Listed
    <3>1. ppc \in {"requisition", "value", "rewind"}
      <4>1. Undoing => Top \in Committed .. Listed - 1
        BY TopFacts
      <4>2. ~Undoing
        BY <1>1, <1>7, <2>2, <4>1
      <4> QED
        BY <1>1, <1>7, <2>2, <4>2 DEF Top
    <3>2. enq.entry = Entry(Listed) /\ key[enq.entry] = enq.base
      BY <3>1 DEF RingOK, Inserting, InsertPcs
    <3>3. enq.base = BaseOf(Listed) /\ Listed * BlockSize < Filled + enq.count
      BY <3>1 DEF EnqOK, InsertPcs
    <3>4. Filled + enq.count <= MaxEnqueued /\ enq.count \in Nat /\ Filled \in Nat
      BY Basics DEF ShareIInv, EnqueueFits
    <3>5. Listed * BlockSize \in Nat
      BY ListedFacts
    <3> QED
      BY <1>1, <2>2, <3>2, <3>3, <3>4, <3>5
  <2> QED
    BY <1>1, <1>7, <2>1, <2>2
<1>9. Last.index[Last.tail] = Entry(T)
  <2>1. Origin + T = t
    BY <1>5, <1>6, <1>7
  <2>2. t % Capacity(Last) = t
    <3>1. t \in Int
      BY <1>5
    <3> QED
      BY <1>5, <3>1, RingWrap
  <2> QED
    BY <1>6, <2>1, <2>2 DEF Entry
<1>10. n \in Index /\ Element(n) \in Index /\ Number(Element(n)) = n /\ BlockNo(Element(n)) = m
  <2>1. n \in Index
    BY <1>1 DEF Index
  <2> QED
    BY <1>2, <2>1, ElementValue, ElementBase
<1>11. SlotFor(Last, t, BaseOf(T), Element(n)) = (t + (m - T)) % Capacity(Last)
  <2>1. t \in DOMAIN Last.index /\ Number(Element(n)) < Numbers \div 2
    BY <1>1, <1>5, <1>10
  <2> QED
    BY <1>5, <1>8, <1>10, <2>1, SlotValue
<1>12. t + (m - T) = Origin + m
  BY <1>5, <1>6, <1>7
<1>13. EntryFor(Element(n)) = Entry(m)
  BY <1>6, <1>8, <1>9, <1>11, <1>12 DEF EntryFor, Entry
<1> QED
  BY <1>2, <1>13 DEF BlockFor, Home

------------------------------------------------------------------------------
(* What the destructor finds.                                              *)

\* Every call has returned.
Quiet == ppc = "idle" /\ \A c \in Consumers : cpc[c] = "idle"

LEMMA QuietFacts ==
  ASSUME WindowsFit, ShareIInv, ClaimsOK, StoreOK, Quiet
  PROVE  /\ Stored = Emptied .. Filled - 1 /\ enq = NoEnqueue
         /\ \A n : Consumed(n) <=> n < Emptied
         /\ LiveNos = {m \in 0 .. Committed - 1 : \E n \in Within(m) : ~(n < Emptied)}
         /\ Remaining = {Element(n) : n \in Emptied .. Filled - 1}
<1> HIDE DEF Numbers
<1>1. /\ Filled \in Nat /\ Emptied \in Nat /\ Emptied <= Filled /\ Filled <= MaxEnqueued
      /\ MaxEnqueued \in Nat /\ MaxEnqueued < Numbers \div 2 /\ Numbers \div 2 < Numbers
      /\ Numbers \in Nat /\ Numbers \div 2 \in Nat
      /\ tailIndex \in Index /\ headIndex \in Index /\ StartIndex \in Index
  BY Basics, HalfRange
<1>2. \A c \in Consumers : Unmoved(c) = {} /\ Open(c) = {} /\ cpc[c] # "unlink"
  BY DEF Quiet, Unmoved, Open, ClaimedPcs, LookupPcs
<1>3. enq = NoEnqueue /\ ppc = "idle"
  BY DEF Quiet, StoreOK, EnqOK
<1>4. \A n : Consumed(n) <=> n < Emptied
  BY <1>2 DEF Consumed
<1>5. LiveNos = {m \in 0 .. Committed - 1 : \E n \in Within(m) : ~(n < Emptied)}
  <2>1. Limit = Committed
    <3>1. Committed \in Nat /\ Len(enq.chain) = 0
      BY <1>3, CommittedValue DEF NoEnqueue
    <3> QED
      BY <1>3, <3>1 DEF Limit, Listed, Undoing
  <2>2. \A m : Live(m) <=> \E n \in Within(m) : ~(n < Emptied)
    BY <1>2, <1>4 DEF Live
  <2> QED
    BY <2>1, <2>2 DEF LiveNos
<1>6. Stored = Emptied .. Filled - 1
  <2>1. Constructed = Filled
    BY <1>3 DEF Constructed
  <2>2. \A n : n \in Stored <=> n \in 0 .. Filled - 1 /\ n >= Emptied
    BY <1>2, <2>1 DEF Stored
  <2>3. \A n : n \in 0 .. Filled - 1 /\ n >= Emptied <=> n \in Emptied .. Filled - 1
    BY <1>1
  <2> QED
    BY <2>2, <2>3
<1>7. Remaining = {Element(n) : n \in Emptied .. Filled - 1}
  <2>1. Minus(tailIndex, headIndex) = Filled - Emptied
    <3>1. Minus(tailIndex, headIndex) = IF Filled >= Emptied THEN Filled - Emptied
                                        ELSE Filled - Emptied + Numbers
      BY <1>1, SameStart DEF Filled, Emptied
    <3> QED
      BY <1>1, <3>1
  <2>2. ASSUME NEW k \in 0 .. Filled - Emptied - 1
        PROVE  Plus(headIndex, k) = Element(Emptied + k)
    <3>1. k \in Nat /\ Emptied + k < Numbers
      BY <1>1
    <3> QED
      BY <1>1, <3>1, PlusElement DEF Emptied, Number
  <2>3. ASSUME NEW n \in Emptied .. Filled - 1
        PROVE  \E k \in 0 .. Filled - Emptied - 1 : n = Emptied + k
    <3>1. n - Emptied \in 0 .. Filled - Emptied - 1 /\ n = Emptied + (n - Emptied)
      BY <1>1
    <3> QED
      BY <3>1
  <2>4. \A k \in 0 .. Filled - Emptied - 1 : Emptied + k \in Emptied .. Filled - 1
    BY <1>1
  <2>5. Remaining = {Plus(headIndex, k) : k \in 0 .. Filled - Emptied - 1}
    <3>1. PICK d : d = Filled - Emptied
      OBVIOUS
    <3>2. Remaining = {Plus(headIndex, k) : k \in 0 .. d - 1}
      BY <2>1, <3>1 DEF Remaining
    <3>3. d - 1 = Filled - Emptied - 1
      BY <1>1, <3>1
    <3> QED
      BY <3>2, <3>3
  <2> QED
    BY <2>2, <2>3, <2>4, <2>5
<1> QED
  BY <1>3, <1>4, <1>5, <1>6, <1>7

\* The destructor leaves nothing behind.
LEMMA DestroyStep ==
  ASSUME WindowsFit, IInv, HeldOK, Destroy
  PROVE  DestroysAll'
<1> HIDE DEF Numbers
<1>1. Quiet /\ ppc = "idle" /\ ShareIInv /\ ClaimsOK /\ StoreOK
  BY DEF Destroy, Quiet, IInv
<1>2. /\ Stored = Emptied .. Filled - 1 /\ enq = NoEnqueue
      /\ LiveNos = {m \in 0 .. Committed - 1 : \E n \in Within(m) : ~(n < Emptied)}
      /\ Remaining = {Element(n) : n \in Stored}
  BY <1>1, QuietFacts
<1>3. /\ Filled \in Nat /\ Emptied \in Nat /\ Emptied <= Filled /\ Filled <= MaxEnqueued
      /\ MaxEnqueued \in Nat /\ MaxEnqueued < Numbers /\ Numbers \in Nat /\ Numbers \div 2 < Numbers
      /\ tailIndex \in Index /\ StartIndex \in Index
  BY <1>1, Basics, HalfRange
<1>4. ASSUME NEW n \in Stored
      PROVE  /\ BlockFor(Element(n)) = Home(n) /\ Slot(Element(n)) = n % BlockSize
             /\ Home(n) \in Blocks /\ Element(n) \in Remaining
             /\ n \div BlockSize \in LiveNos
  <2>1. n \in Nat /\ n < MaxEnqueued /\ n \in Index /\ n \div BlockSize \in LiveNos /\ Home(n) \in Blocks
    BY <1>1, <1>4, StoredFacts
  <2>2. BlockFor(Element(n)) = Home(n)
    BY <1>1, <2>1, BlockForValue
  <2>3. Slot(Element(n)) = n % BlockSize
    BY <2>1, ElementValue, BlockNoValue
  <2> QED
    BY <1>2, <1>4, <2>1, <2>2, <2>3
<1> DEFINE last == BlockFor(Minus(tailIndex, 1))
           passed == IF Remaining = {} THEN {} ELSE {BlockFor(i) : i \in Remaining} \ {last}
           tail == IF tailBlock # NoBlock /\ (Remaining # {} \/ Slot(tailIndex) # 0)
                   THEN {tailBlock} ELSE {}
<1>5. /\ freeBlocks' = freeBlocks \cup passed \cup tail /\ ppc' = "destroyed"
      /\ cell' = [b \in Blocks |-> [s \in Slots |->
           IF \E i \in Remaining : BlockFor(i) = b /\ Slot(i) = s THEN Vacant ELSE cell[b][s]]]
  BY DEF Destroy, ProducerGoto
<1>6. \A b \in Blocks : \A s \in Slots : cell'[b][s] = Vacant
  <2> HIDE DEF last, passed, tail
  <2>1. ASSUME NEW b \in Blocks, NEW s \in Slots, cell[b][s] # Vacant
        PROVE  \E i \in Remaining : BlockFor(i) = b /\ Slot(i) = s
    <3>1. PICK n \in Stored : Home(n) = b /\ n % BlockSize = s
      BY <2>1 DEF HeldOK, CellsOK
    <3> QED
      BY <1>4, <3>1
  <2> QED
    BY <1>5, <2>1
<1>7. ASSUME Remaining # {}
      PROVE  /\ Filled - 1 \in Stored /\ Minus(tailIndex, 1) = Element(Filled - 1)
             /\ Committed > 0 /\ Filled - 1 \in Within(Committed - 1)
             /\ (Filled - 1) \div BlockSize = Committed - 1
  <2>1. PICK n \in Nat : n = Filled - 1 /\ n \in Stored /\ n \in Index
    <3>1. Filled - 1 \in Stored
      BY <1>2, <1>3, <1>7
    <3> QED
      BY <1>1, <3>1, StoredFacts
  <2>2. Minus(tailIndex, 1) = Element(n)
    <3>1. 1 \in Index
      BY ProducerAssumption DEF ProducerAssumption, Index
    <3>2. Minus(tailIndex, 1) \in Index /\ Element(n) \in Index /\ Number(Element(n)) = n
      BY <1>3, <2>1, <3>1, MinusValue, ElementValue
    <3>3. Element(n + 1) = tailIndex
      BY <1>3, <2>1, NumberValue DEF Filled, Number
    <3>4. Plus(Element(n), 1) = tailIndex
      <4>1. 1 \in Nat /\ Number(Element(n)) + 1 < Numbers /\ Number(Element(n)) + 1 = n + 1
        BY <1>3, <2>1, <3>2
      <4> QED
        BY <3>2, <3>3, <4>1, PlusElement
    <3>5. PICK x \in Nat, e \in Nat, t \in Nat, N \in Nat :
            /\ x = Minus(tailIndex, 1) /\ e = Element(n) /\ t = tailIndex /\ N = Numbers
            /\ x < N /\ e < N /\ t < N /\ 1 < N
      <4>1. \A i \in Index : i \in Nat /\ i < Numbers
        BY <1>3 DEF Index
      <4> QED
        BY <1>3, <3>1, <3>2, <4>1
    <3>6. x = IF t >= 1 THEN t - 1 ELSE t - 1 + N
      BY <1>3, <3>1, <3>5, MinusValue
    <3>7. t = IF e + 1 < N THEN e + 1 ELSE e + 1 - N
      BY <3>1, <3>2, <3>4, <3>5, PlusValue
    <3> QED
      BY <3>5, <3>6, <3>7
  <2>3. Committed \in Nat /\ Committed > 0 /\ n \in Within(Committed - 1)
    <3>1. PICK k \in Nat \ {0}, p \in Nat :
            k = BlockSize /\ p = Committed * k /\ Filled <= p /\ p < Filled + k
      BY <1>1, CommittedValue, BlockFacts
    <3>2. Committed \in Nat
      BY <1>1, CommittedValue
    <3>3. Committed # 0
      <4>1. 0 * k = 0
        BY <3>1
      <4> QED
        BY <1>3, <2>1, <3>1, <4>1
    <3>4. (Committed - 1) * k = p - k
      <4>1. Committed - 1 \in Int /\ 1 * k = k
        BY <3>1, <3>2
      <4> QED
        BY <3>1, <3>2, <4>1, Distribute
    <3>5. n \in (Committed - 1) * k .. (Committed - 1) * k + k - 1
      BY <1>3, <2>1, <3>1, <3>4
    <3> QED
      BY <3>1, <3>2, <3>3, <3>5 DEF Within
  <2>4. n \div BlockSize = Committed - 1
    <3>1. Committed - 1 \in Nat
      BY <2>3
    <3> QED
      BY <2>3, <3>1, WithinQuotient
  <2> QED
    BY <2>1, <2>2, <2>3, <2>4
<1>8. ASSUME Committed > 0, Committed - 1 \in LiveNos
      PROVE  tailBlock = value[Entry(Committed - 1)] /\ tailBlock \in Blocks
  <2>1. Live(Committed - 1)
    BY <1>8 DEF LiveNos
  <2>2. tailBlock = value[Entry(Committed - 1)]
    BY <1>1, <1>8, <2>1 DEF HeldOK, TailOK
  <2> QED
    BY <1>1, <1>8, <2>2 DEF StoreOK, OwnersOK
<1>9. ASSUME Slot(tailIndex) # 0
      PROVE  Committed > 0 /\ Committed - 1 \in LiveNos
  <2>1. TailNo \in Nat /\ Filled \in Within(TailNo) /\ Committed = TailNo + 1
    BY <1>1, <1>9, TailBlockNo
  <2>2. TailNo \in 0 .. Committed - 1 /\ ~(Filled < Emptied) /\ TailNo = Committed - 1
    BY <1>3, <2>1
  <2>3. TailNo \in LiveNos
    BY <1>2, <2>1, <2>2
  <2> QED
    BY <2>1, <2>2, <2>3
<1>10. ASSUME Remaining # {} PROVE Committed > 0 /\ Committed - 1 \in LiveNos /\ last = value[Entry(Committed - 1)]
  BY <1>4, <1>7, <1>10 DEF Home
<1>11. tail = IF Remaining # {} \/ Slot(tailIndex) # 0 THEN {tailBlock} ELSE {}
  <2>1. NoBlock \notin Blocks
    BY ImplicitAssumption DEF ImplicitAssumption
  <2> HIDE DEF last
  <2> QED
    BY <1>8, <1>9, <1>10, <2>1
<1>12. freeBlocks' \subseteq Blocks
  <2>1. freeBlocks \subseteq Blocks
    BY <1>1 DEF StoreOK, OwnersOK
  <2>2. tail \subseteq Blocks
    <3> HIDE DEF tail, last
    <3> QED
      BY <1>8, <1>9, <1>10, <1>11
  <2>3. passed \subseteq Blocks
    BY <1>2, <1>4
  <2> HIDE DEF tail, passed
  <2> QED
    BY <1>5, <2>1, <2>2, <2>3
<1>13. ASSUME NEW m \in LiveNos PROVE value[Entry(m)] \in passed \cup tail
  <2>1. /\ Committed \in Nat /\ m \in 0 .. Committed - 1 /\ m \in Nat
        /\ \E n \in Within(m) : ~(n < Emptied)
    <3>1. Committed \in Nat
      BY <1>1, CommittedValue
    <3> QED
      BY <1>2, <1>13, <3>1
  <2>2. PICK n \in Within(m) : ~(n < Emptied)
    BY <2>1
  <2>3. n \in Nat /\ m * BlockSize \in Nat /\ m * BlockSize <= n /\ n < m * BlockSize + BlockSize
        /\ n \div BlockSize = m
    BY <2>1, <2>2, WithinValue, WithinQuotient
  <2>4. CASE n < Filled
    <3>1. n \in Stored
      BY <1>2, <1>3, <2>2, <2>3, <2>4
    <3>2. BlockFor(Element(n)) = value[Entry(m)] /\ Element(n) \in Remaining
      BY <1>4, <2>3, <3>1 DEF Home
    <3>3. Committed > 0 /\ Committed - 1 \in LiveNos /\ last = value[Entry(Committed - 1)]
      BY <1>10, <3>2
    <3>4. tailBlock = last
      BY <1>8, <3>3
    <3>5. tail = {tailBlock}
      BY <1>11, <3>2
    <3> HIDE DEF last, tail
    <3> QED
      BY <3>2, <3>4, <3>5
  <2>5. CASE ~(n < Filled)
    <3>1. m = Committed - 1 /\ Filled \in Within(m) /\ m * BlockSize < Filled
      <4>1. PICK k \in Nat \ {0}, p \in Nat, r \in Nat :
              /\ k = BlockSize /\ p = Committed * k /\ r = m * k
              /\ p < Filled + k /\ r <= n /\ n < r + k
        BY <1>1, <2>3, CommittedValue, BlockFacts
      <4>2. r + k <= p
        BY <2>1, <4>1, Multiples
      <4>3. r < Filled
        BY <1>3, <4>1, <4>2
      <4>4. Filled \in r .. r + k - 1
        BY <1>3, <2>3, <2>5, <4>1, <4>3
      <4>5. Filled \in Within(m)
        BY <4>1, <4>4 DEF Within
      <4>6. m * k < (m + 1) * k
        BY <2>1, <4>1, Multiples
      <4>7. (m + 1) * k = r + k
        BY <2>1, <4>1
      <4>8. Committed * k < ((m + 1) + 1) * k
        <5>1. ((m + 1) + 1) * k = r + k + k
          BY <2>1, <4>1
        <5> QED
          BY <1>3, <2>3, <2>5, <4>1, <5>1
      <4>9. Committed < (m + 1) + 1
        <5>1. (m + 1) + 1 \in Int /\ Committed \in Int
          BY <2>1
        <5> QED
          BY <4>1, <4>8, <5>1, Order
      <4>10. m = Committed - 1
        BY <2>1, <4>9
      <4> QED
        BY <4>1, <4>3, <4>5, <4>10
    <3>2. Slot(tailIndex) # 0
      <4>1. TailNo \in Nat /\ Filled \in Within(TailNo) /\ Slot(tailIndex) = Filled - TailNo * BlockSize
        BY <1>1, TailBlockNo
      <4>2. TailNo = m
        BY <2>1, <3>1, <4>1, WithinUnique
      <4> QED
        BY <1>3, <2>3, <3>1, <4>1, <4>2
    <3>3. tailBlock = value[Entry(m)]
      BY <1>8, <1>9, <3>1, <3>2
    <3>4. tail = {tailBlock}
      BY <1>11, <3>2
    <3> HIDE DEF tail
    <3> QED
      BY <3>3, <3>4
  <2> QED
    BY <2>4, <2>5
<1>14. Blocks \subseteq freeBlocks'
  <2>1. Chained = {} /\ enq.fresh = NoBlock /\ Freeing = {}
    BY <1>1, <1>2 DEF Chained, NoEnqueue, Freeing, Quiet
  <2>2. NoBlock \notin Blocks
    BY ImplicitAssumption DEF ImplicitAssumption
  <2> HIDE DEF passed, tail
  <2>3. Blocks \subseteq freeBlocks \cup {value[Entry(m)] : m \in LiveNos}
    BY <2>1, <2>2 DEF HeldOK, NoneMissing, Places
  <2> QED
    BY <1>5, <1>13, <2>3
<1> QED
  BY <1>6, <1>12, <1>14 DEF DestroysAll

------------------------------------------------------------------------------
(* What the steps of a consumer do to the elements and the blocks.         *)

\* While no consumer starts or ends anything, the index needs the same blocks.
LEMMA QuietLive ==
  ASSUME NEW c \in Consumers, ConsumerStep(c), \A n \in Nat : Consumed(n)' <=> Consumed(n),
         cpc[c] # "unlink", cpc'[c] # "unlink", NEW q \in Nat
  PROVE  Live(q)' <=> Live(q)
<1>1. \A n \in Within(q) : Consumed(n)' <=> Consumed(n)
  BY WithinValue
<1>2. Within(q)' = Within(q)
  BY DEF Within
<1>3. \A d \in Consumers : cpc'[d] = "unlink" /\ Here(d)' = q <=> cpc[d] = "unlink" /\ Here(d) = q
  BY FrameFacts
<1> QED
  BY <1>1, <1>2, <1>3 DEF Live

LEMMA LiveSame ==
  ASSUME WindowsFit, ShareIInv, StoreOK, NEW c \in Consumers, ConsumerStep(c),
         \A q \in Nat : Live(q)' <=> Live(q)
  PROVE  LiveNos' = LiveNos
<1>1. Limit' = Limit
  BY FrameFacts
<1>2. \A q \in 0 .. Limit - 1 : q \in Nat
  BY ListedFacts DEF StoreOK, Limit
<1> QED
  BY <1>1, <1>2 DEF LiveNos

\* The others stay where they are.
LEMMA OthersStill ==
  ASSUME NEW c \in Consumers, ConsumerStep(c), NEW d \in Consumers \ {c}
  PROVE  Unmoved(d)' = Unmoved(d) /\ Moved(d)' = Moved(d) /\ (GotOK(d) => GotOK(d)')
<1>1. /\ cpc'[d] = cpc[d] /\ call'[d] = call[d]
      /\ At(d)' = At(d) /\ First(d)' = First(d) /\ Until(d)' = Until(d) /\ Here(d)' = Here(d)
  BY FrameFacts
<1>2. Moved(d)' = Moved(d)
  BY <1>1 DEF Moved, Stop
<1>3. Unmoved(d)' = Unmoved(d)
  BY <1>1, <1>2 DEF Unmoved
<1> QED
  BY <1>1, <1>2, <1>3 DEF GotOK

LEMMA StoredStill ==
  ASSUME NEW c \in Consumers, ConsumerStep(c), headIndex' = headIndex, Unmoved(c)' = Unmoved(c)
  PROVE  Stored' = Stored
<1>1. Emptied' = Emptied
  BY DEF Emptied
<1>2. \A d \in Consumers : Unmoved(d)' = Unmoved(d)
  BY OthersStill
<1>3. Constructed' = Constructed
  BY FrameFacts DEF Constructed
<1> QED
  BY <1>1, <1>2, <1>3 DEF Stored

\* The tail block is the tail block while the index needs it.
LEMMA ConsumerTail ==
  ASSUME WindowsFit, ShareIInv, StoreOK, TailOK, NEW c \in Consumers, ConsumerStep(c),
         \A q \in Nat : Live(q)' => Live(q),
         \A q \in LiveNos' : value'[Entry(q)'] = value[Entry(q)]
  PROVE  TailOK'
<1> HIDE DEF Numbers
<1>1. /\ ppc' = ppc /\ tailBlock' = tailBlock /\ Committed' = Committed /\ Listed' = Listed
      /\ Limit' = Limit
  BY FrameFacts DEF ConsumerStep, producerVars
<1>2. Committed \in Nat /\ Listed \in Nat /\ Committed <= Listed
  BY ListedFacts DEF StoreOK
<1>3. CASE ppc = "commit"
  <2>1. PICK m : m = Listed - 1
    OBVIOUS
  <2>2. Listed > 0 /\ (Live(m) => tailBlock = value[Entry(m)])
    BY <1>3, <2>1 DEF TailOK
  <2>3. m \in Nat /\ m \in 0 .. Limit - 1
    BY <1>2, <1>3, <2>1, <2>2 DEF Limit, Undoing
  <2>4. Live(m)' => value'[Entry(m)'] = value[Entry(m)] /\ Live(m)
    BY <1>1, <2>3 DEF LiveNos
  <2>5. Live(m)' => tailBlock' = value'[Entry(m)']
    BY <1>1, <2>2, <2>4
  <2>6. m = (Listed - 1)'
    BY <1>1, <2>1
  <2> QED
    BY <1>1, <1>3, <2>2, <2>5, <2>6 DEF TailOK
<1>4. CASE ppc # "commit" /\ Committed > 0
  <2>1. PICK m : m = Committed - 1
    OBVIOUS
  <2>2. Live(m) => tailBlock = value[Entry(m)]
    BY <1>4, <2>1 DEF TailOK
  <2>3. m \in Nat /\ m \in 0 .. Limit - 1
    BY <1>2, <1>4, <2>1 DEF Limit
  <2>4. Live(m)' => value'[Entry(m)'] = value[Entry(m)] /\ Live(m)
    BY <1>1, <2>3 DEF LiveNos
  <2>5. Live(m)' => tailBlock' = value'[Entry(m)']
    BY <1>1, <2>2, <2>4
  <2>6. m = (Committed - 1)'
    BY <1>1, <2>1
  <2> QED
    BY <1>1, <1>4, <2>5, <2>6 DEF TailOK
<1>5. CASE ppc # "commit" /\ ~(Committed > 0)
  BY <1>1, <1>5 DEF TailOK
<1> QED
  BY <1>3, <1>4, <1>5

\* A step that moves nothing.
LEMMA NothingMoved ==
  ASSUME WindowsFit, IInv, IInv', HeldOK, ppc # "destroyed", NEW c \in Consumers, ConsumerStep(c),
         cell' = cell, Stored' = Stored, \A q \in Nat : Live(q)' => Live(q),
         \A q \in LiveNos' : value'[Entry(q)'] = value[Entry(q)], Places \subseteq Places'
  PROVE  HeldOK'
<1>1. ppc' = ppc /\ enq' = enq
  BY FrameFacts
<1>2. CellsOK'
  BY <1>1, CellsStill DEF HeldOK
<1>3. TailOK'
  BY ConsumerTail DEF HeldOK, IInv
<1>4. NoneMissing' /\ CountOK'
  BY <1>1 DEF HeldOK, NoneMissing, CountOK
<1> QED
  BY <1>2, <1>3, <1>4 DEF HeldOK

\* A step that leaves the blocks where they are, too.
LEMMA NothingHeld ==
  ASSUME WindowsFit, IInv, IInv', HeldOK, ppc # "destroyed", NEW c \in Consumers, ConsumerStep(c),
         cell' = cell, Stored' = Stored, \A q \in Nat : Live(q)' <=> Live(q),
         UNCHANGED <<value, freeBlocks>>, cpc[c] # "free", cpc'[c] # "free"
  PROVE  HeldOK'
<1>1. ShareIInv /\ StoreOK
  BY DEF IInv
<1>2. /\ LiveNos' = LiveNos /\ Chained' = Chained /\ enq' = enq /\ \A q : Entry(q)' = Entry(q)
      /\ \A d \in Consumers \ {c} : cpc'[d] = cpc[d] /\ call'[d] = call[d]
  BY <1>1, LiveSame, FrameFacts
<1>3. Freeing' = Freeing /\ \A d \in Freeing : call'[d].block = call[d].block
  BY <1>2 DEF Freeing
<1>4. Places \subseteq Places'
  BY <1>2, <1>3 DEF Places
<1> QED
  BY <1>2, <1>4, NothingMoved

\* Before it claims, a consumer has nothing to move.
LEMMA OutsideHeld ==
  ASSUME WindowsFit, IInv, IInv', HeldOK, ppc # "destroyed", NEW c \in Consumers, ConsumerStep(c),
         UNCHANGED <<cell, value, freeBlocks, headIndex>>,
         cpc[c] \notin ClaimedPcs, cpc'[c] \notin ClaimedPcs
  PROVE  HeldOK' /\ GotOK(c)'
<1>1. Unmoved(c)' = Unmoved(c) /\ Open(c)' = Open(c) /\ Emptied' = Emptied
  BY DEF Unmoved, Open, Emptied
<1>2. \A n \in Nat : Consumed(n)' <=> Consumed(n)
  <2>1. \A d \in Consumers : Open(d)' = Open(d)
    BY <1>1, FrameFacts
  <2> QED
    BY <1>1, <2>1 DEF Consumed
<1>3. cpc[c] \notin {"unlink", "free"} /\ cpc'[c] \notin {"unlink", "free"}
      /\ cpc'[c] \notin LookupPcs
  BY DEF ClaimedPcs, LookupPcs
<1>4. Stored' = Stored
  BY <1>1, StoredStill
<1>5. \A q \in Nat : Live(q)' <=> Live(q)
  BY <1>2, <1>3, QuietLive
<1>6. GotOK(c)'
  BY <1>3 DEF GotOK
<1> QED
  BY <1>3, <1>4, <1>5, <1>6, NothingHeld

\* What a consumer claims is stored, as it was.
LEMMA ClaimHeld ==
  ASSUME WindowsFit, IInv, IInv', HeldOK, ppc # "destroyed", NEW c \in Consumers, Claim(c),
         ConsumerStep(c), UNCHANGED <<cell, value, freeBlocks, dequeued>>
  PROVE  HeldOK' /\ GotOK(c)'
<1> HIDE DEF Numbers
<1>1. ShareIInv /\ ClaimsOK /\ StoreOK /\ cpc[c] = "claim"
  BY DEF IInv, Claim
<1>2. PICK a \in Nat, n \in Nat :
        /\ a = Emptied /\ n = call[c].count /\ Emptied' = a + n
        /\ At(c)' = a /\ Until(c)' = a + n /\ cpc'[c] = "claimed"
  <2>1. Emptied \in Nat
    BY <1>1, Basics
  <2> QED
    BY <1>1, <2>1, ClaimFromHead
<1>3. \A m \in Nat : Consumed(m)' <=> Consumed(m)
  BY <1>1, ClaimFromHead
<1>4. Unmoved(c) = {} /\ Unmoved(c)' = a .. a + n - 1
  BY <1>1, <1>2 DEF Unmoved, Moved, ClaimedPcs, LookupPcs
<1>5. Stored' = Stored
  <2>1. \A d \in Consumers \ {c} : Unmoved(d)' = Unmoved(d)
    BY OthersStill
  <2>2. Constructed' = Constructed
    BY FrameFacts DEF Constructed
  <2>3. \A x \in Nat : x >= a + n \/ x \in a .. a + n - 1 <=> x >= a
    OBVIOUS
  <2>4. \A x \in 0 .. Constructed - 1 : x \in Nat
    <3>1. Constructed \in Int
      <4>1. Filled \in Nat /\ enq.count \in Nat
        BY <1>1, Basics DEF ShareIInv, EnqueueFits
      <4> QED
        BY <4>1 DEF Constructed
    <3> QED
      BY <3>1
  <2>5. ASSUME NEW x \in 0 .. Constructed - 1
        PROVE  x >= Emptied' \/ (\E d \in Consumers : x \in Unmoved(d)') <=>
               x >= Emptied \/ (\E d \in Consumers : x \in Unmoved(d))
    <3>1. x >= Emptied' \/ x \in Unmoved(c)' <=> x >= Emptied
      BY <1>2, <1>4, <2>3, <2>4
    <3>2. (\E d \in Consumers : x \in Unmoved(d)') <=>
            x \in Unmoved(c)' \/ \E d \in Consumers \ {c} : x \in Unmoved(d)
      BY <2>1
    <3>3. (\E d \in Consumers : x \in Unmoved(d)) <=> \E d \in Consumers \ {c} : x \in Unmoved(d)
      BY <1>4
    <3> QED
      BY <3>1, <3>2, <3>3
  <2> QED
    BY <2>2, <2>5 DEF Stored
<1>6. \A q \in Nat : Live(q)' <=> Live(q)
  BY <1>1, <1>2, <1>3, QuietLive
<1>7. GotOK(c)'
  BY <1>2 DEF GotOK, LookupPcs
<1> QED
  BY <1>1, <1>2, <1>5, <1>6, <1>7, NothingHeld

LEMMA ShareHeld ==
  ASSUME WindowsFit, IInv, IInv', HeldOK, ppc # "destroyed", NEW c \in Consumers,
         Begin(c) \/ Share(c)
  PROVE  HeldOK' /\ GotOK(c)' /\ ConsumerStep(c)
<1> HIDE DEF Numbers
<1>1. DOMAIN cpc = Consumers /\ DOMAIN call = Consumers
  BY Basics DEF IInv
<1>2. UNCHANGED <<tailIndex, headers, key, producerVars, value, freeBlocks, dequeued, cell>>
  BY DEF Begin, Share, BeginDequeue, Sharing, LoadOvercommit, Examine, Promise, Reload, GiveBack,
     Claim, storage, indexVars, producerVars
<1>3. OnlyCaller(c)
  <2>1. CASE Begin(c)
    BY <1>1, <2>1 DEF Begin, BeginDequeue, ConsumerGoto, OnlyCaller
  <2>2. CASE Share(c)
    BY <1>1, <2>2 DEF Share, Sharing, LoadOvercommit, Examine, Promise, Reload, GiveBack, Claim,
       ConsumerGoto, ReturnFrom, OnlyCaller
  <2> QED
    BY <2>1, <2>2
<1>4. ConsumerStep(c)
  BY <1>2, <1>3 DEF ConsumerStep
<1>5. CASE Begin(c)
  <2>1. cpc[c] = "idle" /\ cpc'[c] = "overcommit" /\ headIndex' = headIndex
    BY <1>1, <1>5 DEF Begin, BeginDequeue, ConsumerGoto, counters
  <2>2. cpc[c] \notin ClaimedPcs /\ cpc'[c] \notin ClaimedPcs
    BY <2>1 DEF ClaimedPcs, LookupPcs
  <2> QED
    BY <1>2, <1>4, <2>1, <2>2, OutsideHeld
<1>6. CASE Share(c) /\ ~Claim(c)
  <2>1. /\ cpc[c] \in {"overcommit", "examine", "promise", "reload", "giveBack"}
        /\ cpc'[c] \in {"examine", "promise", "reload", "giveBack", "claim", "idle"}
        /\ headIndex' = headIndex
    BY <1>1, <1>6 DEF Share, Sharing, LoadOvercommit, Examine, Promise, Reload, GiveBack,
       ConsumerGoto, ReturnFrom, counters
  <2>2. cpc[c] \notin ClaimedPcs /\ cpc'[c] \notin ClaimedPcs
    BY <2>1 DEF ClaimedPcs, LookupPcs
  <2> QED
    BY <1>2, <1>4, <2>1, <2>2, OutsideHeld
<1>7. CASE Claim(c)
  BY <1>2, <1>4, <1>7, ClaimHeld
<1> QED
  BY <1>4, <1>5, <1>6, <1>7

\* A consumer that looks its block up moves nothing.
LEMMA LookingHeld ==
  ASSUME WindowsFit, IInv, IInv', HeldOK, ppc # "destroyed", NEW c \in Consumers, GotOK(c),
         LoadHeader(c) \/ LoadSlotTail(c) \/ LoadSlotKey(c)
  PROVE  HeldOK' /\ GotOK(c)' /\ ConsumerStep(c)
<1> HIDE DEF Numbers
<1>0. DOMAIN cpc = Consumers /\ DOMAIN call = Consumers /\ ShareIInv /\ ClaimsOK /\ StoreOK
  BY Basics DEF IInv
<1>1. /\ cpc[c] \in {"claimed", "slotTail", "slotKey"} /\ cpc'[c] \in {"slotTail", "slotKey", "entry"}
      /\ UNCHANGED <<tailIndex, headers, key, producerVars, value, freeBlocks, cell, headIndex>>
      /\ OnlyCaller(c)
  BY <1>0 DEF LoadHeader, LoadSlotTail, LoadSlotKey, ConsumerGoto, counters, storage, indexVars,
     OnlyCaller
<1>2. ConsumerStep(c) /\ cpc[c] \in ClaimedPcs /\ cpc'[c] \in LookupPcs /\ cpc'[c] \in ClaimedPcs
      /\ ClaimOK(c)
  BY <1>0, <1>1 DEF ConsumerStep, ClaimedPcs, LookupPcs, ClaimsOK
<1>3. /\ call'[c].index = call[c].index /\ call'[c].count = call[c].count
      /\ call'[c].first = IF cpc[c] = "claimed" THEN call[c].index ELSE call[c].first
      /\ call'[c].got = IF cpc[c] = "claimed" THEN << >> ELSE call[c].got
  <2>1. CASE LoadHeader(c)
    BY <1>0, <2>1 DEF LoadHeader
  <2>2. CASE LoadSlotTail(c) \/ LoadSlotKey(c)
    <3>1. cpc[c] # "claimed" /\ cpc[c] \in LookupPcs
      BY <2>2 DEF LoadSlotTail, LoadSlotKey, LookupPcs
    <3>2. DOMAIN call[c] = CallFields
      BY <1>2, <3>1 DEF ClaimOK
    <3>3. \E s : call'[c] = [call[c] EXCEPT !.slot = s]
      BY <1>0, <2>2 DEF LoadSlotTail, LoadSlotKey
    <3> QED
      BY <3>1, <3>2, <3>3 DEF CallFields
  <2> QED
    BY <2>1, <2>2
<1>4. At(c)' = At(c) /\ First(c)' = First(c) /\ Until(c)' = Until(c)
  <2>1. At(c)' = At(c)
    BY <1>3 DEF At, Number
  <2>2. First(c)' = First(c)
    BY <1>1, <1>3, <2>1 DEF First, At, Number
  <2> QED
    BY <1>3, <2>1, <2>2 DEF Until
<1>5. Moved(c)' = Moved(c) /\ Moved(c) = At(c)
  BY <1>1, <1>4 DEF Moved
<1>6. Unmoved(c)' = Unmoved(c) /\ Open(c)' = Open(c) /\ Emptied' = Emptied
  BY <1>1, <1>2, <1>4, <1>5 DEF Unmoved, Open, From, Emptied
<1>7. \A n \in Nat : Consumed(n)' <=> Consumed(n)
  <2>1. \A d \in Consumers : Open(d)' = Open(d)
    BY <1>2, <1>6, FrameFacts
  <2> QED
    BY <1>6, <2>1 DEF Consumed
<1>8. GotOK(c)'
  <2>1. CASE cpc[c] = "claimed"
    <3>1. PICK a \in Nat : a = At(c) /\ Moved(c)' = a /\ First(c)' = a
      <4>1. At(c) \in Nat
        BY <1>0, <1>2, ClaimFacts
      <4> QED
        BY <1>4, <1>5, <2>1, <4>1 DEF First
    <3>2. 1 .. a - a = {}
      OBVIOUS
    <3>3. [k \in 1 .. a - a |-> Plus(call'[c].first, k - 1)] = << >>
      BY <3>2
    <3>4. call'[c].got = << >>
      BY <1>3, <2>1
    <3> QED
      BY <3>1, <3>3, <3>4 DEF GotOK
  <2>2. CASE cpc[c] # "claimed"
    <3>1. cpc[c] \in LookupPcs
      BY <1>2, <2>2 DEF ClaimedPcs
    <3> QED
      BY <1>3, <1>4, <1>5, <2>2, <3>1 DEF GotOK
  <2> QED
    BY <2>1, <2>2
<1>9. Stored' = Stored
  BY <1>1, <1>2, <1>6, StoredStill
<1>10. \A q \in Nat : Live(q)' <=> Live(q)
  BY <1>1, <1>2, <1>7, QuietLive
<1> QED
  BY <1>1, <1>2, <1>8, <1>9, <1>10, NothingHeld

\* A consumer that goes on to its next block, or returns, has moved what it had.
LEMMA NextBlockHeld ==
  ASSUME WindowsFit, ShareIInv, ClaimsOK, StoreOK, NEW c \in Consumers,
         cpc[c] \in {"empty", "free"}, NextBlock(c), ConsumerStep(c), headIndex' = headIndex
  PROVE  Unmoved(c)' = Unmoved(c) /\ (GotOK(c) => GotOK(c)')
<1> HIDE DEF Numbers
<1>1. cpc[c] \in ClaimedPcs /\ cpc[c] \in LookupPcs /\ ClaimOK(c)
  BY DEF ClaimedPcs, LookupPcs, ClaimsOK
<1>2. PICK s \in Nat, u \in Nat : s = Stop(c) /\ u = Until(c)
  BY <1>1, ClaimFacts, StopFacts
<1>3. Moved(c) = s /\ Unmoved(c) = s .. u - 1
  BY <1>1, <1>2 DEF Moved, Unmoved
<1>4. CASE cpc'[c] = "entry"
  <2>1. /\ call'[c].got = call[c].got /\ call'[c].first = call[c].first
        /\ At(c)' = s /\ First(c)' = First(c) /\ Until(c)' = u
    BY <1>2, <1>4, NextBlockStep
  <2>2. Moved(c)' = s /\ Unmoved(c)' = s .. u - 1
    BY <1>4, <2>1 DEF Moved, Unmoved, ClaimedPcs, LookupPcs
  <2>3. GotOK(c) => GotOK(c)'
    BY <1>1, <1>3, <2>1, <2>2 DEF GotOK
  <2> QED
    BY <1>3, <2>2, <2>3
<1>5. CASE cpc'[c] = "idle"
  <2>1. s = u
    BY <1>2, <1>5, NextBlockStep
  <2>2. Unmoved(c)' = {} /\ GotOK(c)'
    BY <1>5 DEF Unmoved, GotOK, ClaimedPcs, LookupPcs
  <2>3. s .. u - 1 = {}
    BY <2>1
  <2> QED
    BY <1>3, <2>2, <2>3
<1> QED
  BY <1>4, <1>5, NextBlockStep

LEMMA SetEmptyHeld ==
  ASSUME WindowsFit, IInv, IInv', HeldOK, ppc # "destroyed", NEW c \in Consumers, GotOK(c),
         SetEmpty(c)
  PROVE  HeldOK' /\ GotOK(c)' /\ ConsumerStep(c)
<1> HIDE DEF Numbers
<1>0. ShareIInv /\ ClaimsOK /\ StoreOK
  BY DEF IInv
<1>1. /\ ConsumerStep(c) /\ \A q \in Nat : Live(q)' <=> Live(q)
      /\ cpc'[c] = "unlink" => call' = call
      /\ cpc'[c] # "unlink" => NextBlock(c)
  BY <1>0, SetEmptyStep
<1>2. cpc[c] = "empty" /\ UNCHANGED <<value, freeBlocks, cell, headIndex>>
  BY DEF SetEmpty, counters, indexVars
<1>3. cpc'[c] # "free" /\ Unmoved(c)' = Unmoved(c) /\ GotOK(c)'
  <2>1. CASE cpc'[c] = "unlink"
    <3>1. call' = call
      BY <1>1, <2>1
    <3>2. /\ At(c)' = At(c) /\ First(c)' = First(c) /\ Until(c)' = Until(c)
          /\ Stop(c)' = Stop(c)
      BY <1>2, <2>1, <3>1 DEF At, First, Until, Stop, Here, BlockNo, Number
    <3>3. Moved(c)' = Moved(c)
      BY <1>2, <2>1, <3>2 DEF Moved
    <3>4. Unmoved(c)' = Unmoved(c)
      BY <1>2, <2>1, <3>2, <3>3 DEF Unmoved, ClaimedPcs, LookupPcs
    <3>5. GotOK(c)'
      BY <1>2, <3>1, <3>2, <3>3 DEF GotOK, LookupPcs
    <3> QED
      BY <2>1, <3>4, <3>5
  <2>2. CASE cpc'[c] # "unlink"
    <3>1. NextBlock(c)
      BY <1>1, <2>2
    <3>2. cpc'[c] \in {"idle", "entry"}
      BY <1>0, <1>1, <1>2, <3>1, NextBlockStep
    <3> QED
      BY <1>0, <1>1, <1>2, <3>1, <3>2, NextBlockHeld
  <2> QED
    BY <2>1, <2>2
<1>4. Stored' = Stored
  BY <1>1, <1>2, <1>3, StoredStill
<1> QED
  BY <1>1, <1>2, <1>3, <1>4, NothingHeld

\* The block that the index loses is in the hands of the consumer.
LEMMA UnlinkBlockHeld ==
  ASSUME WindowsFit, IInv, IInv', HeldOK, ppc # "destroyed", NEW c \in Consumers, GotOK(c),
         UnlinkBlock(c)
  PROVE  HeldOK' /\ GotOK(c)' /\ ConsumerStep(c)
<1> HIDE DEF Numbers
<1>0. ShareIInv /\ ClaimsOK /\ StoreOK
  BY DEF IInv
<1>1. /\ ConsumerStep(c) /\ \A q \in Nat : Live(q)' => Live(q)
      /\ LiveNos' = LiveNos \ {Here(c)} /\ Freeing' = Freeing \cup {c}
      /\ \A q \in LiveNos' : value'[Entry(q)'] = value[Entry(q)]
      /\ value[Entry(Here(c))] = call[c].block
      /\ At(c)' = At(c) /\ First(c)' = First(c) /\ Until(c)' = Until(c) /\ Here(c)' = Here(c)
  BY <1>0, UnlinkBlockStep
<1>2. /\ cpc[c] = "unlink" /\ cpc'[c] = "free" /\ call' = call
      /\ UNCHANGED <<freeBlocks, cell, headIndex>>
  BY <1>0, Basics DEF UnlinkBlock, ConsumerGoto, counters, storage
<1>3. Moved(c)' = Moved(c)
  BY <1>1, <1>2 DEF Moved, Stop
<1>4. Unmoved(c)' = Unmoved(c) /\ GotOK(c)'
  BY <1>1, <1>2, <1>3 DEF Unmoved, GotOK, ClaimedPcs, LookupPcs
<1>5. Stored' = Stored
  BY <1>1, <1>2, <1>4, StoredStill
<1>6. Chained' = Chained /\ enq' = enq
  BY <1>1, FrameFacts
<1>7. Places \subseteq Places'
  <2>1. ASSUME NEW q \in LiveNos PROVE value[Entry(q)] \in Places'
    <3>1. CASE q = Here(c)
      BY <1>1, <1>2, <3>1 DEF Places
    <3>2. CASE q # Here(c)
      BY <1>1, <3>2 DEF Places
    <3> QED
      BY <3>1, <3>2
  <2> QED
    BY <1>1, <1>2, <1>6, <2>1 DEF Places
<1> QED
  BY <1>1, <1>2, <1>4, <1>5, <1>7, NothingMoved

LEMMA FreeBlockHeld ==
  ASSUME WindowsFit, IInv, IInv', HeldOK, ppc # "destroyed", NEW c \in Consumers, GotOK(c),
         FreeBlock(c)
  PROVE  HeldOK' /\ GotOK(c)' /\ ConsumerStep(c)
<1> HIDE DEF Numbers
<1>0. ShareIInv /\ ClaimsOK /\ StoreOK
  BY DEF IInv
<1>1. /\ ConsumerStep(c) /\ \A q \in Nat : Live(q)' <=> Live(q)
      /\ LiveNos' = LiveNos /\ Freeing' = Freeing \ {c}
  BY <1>0, FreeBlockStep
<1>2. /\ cpc[c] = "free" /\ NextBlock(c) /\ freeBlocks' = freeBlocks \cup {call[c].block}
      /\ UNCHANGED <<value, cell, headIndex>>
  BY DEF FreeBlock, counters, indexVars
<1>3. Unmoved(c)' = Unmoved(c) /\ GotOK(c)'
  BY <1>0, <1>1, <1>2, NextBlockHeld
<1>4. Stored' = Stored
  BY <1>1, <1>2, <1>3, StoredStill
<1>5. /\ Chained' = Chained /\ enq' = enq /\ \A q : Entry(q)' = Entry(q)
      /\ \A d \in Consumers \ {c} : call'[d] = call[d]
  BY <1>1, FrameFacts
<1>6. Places \subseteq Places'
  <2>1. \A d \in Freeing : call[d].block \in Places'
    <3>1. call[c].block \in Places'
      BY <1>2 DEF Places
    <3>2. ASSUME NEW d \in Freeing \ {c} PROVE call[d].block \in Places'
      BY <1>1, <1>5 DEF Places, Freeing
    <3> QED
      BY <3>1, <3>2
  <2> QED
    BY <1>1, <1>2, <1>5, <2>1 DEF Places
<1> QED
  BY <1>1, <1>2, <1>3, <1>4, <1>5, <1>6, NothingMoved

------------------------------------------------------------------------------
(* A consumer moves elements out of a block.                               *)

\* What it moves is stored in the block that it is at, in order.
LEMMA MovedElements ==
  ASSUME WindowsFit, ShareIInv, ClaimsOK, StoreOK, CellsOK, NEW c \in Consumers, cpc[c] = "entry",
         NEW n \in At(c) .. Stop(c) - 1
  PROVE  /\ n \in Nat /\ n \in Index /\ n \in Stored /\ Home(n) = value[EntryOf(c)]
         /\ Slot(Element(n)) = n % BlockSize /\ n % BlockSize \in Slots
         /\ n % BlockSize = Slot(call[c].index) + (n - At(c))
         /\ cell[value[EntryOf(c)]][n % BlockSize] = Element(n)
<1> HIDE DEF Numbers
<1>1. cpc[c] \in LookupPcs /\ cpc[c] \in ClaimedPcs /\ cpc[c] \notin {"unlink", "free"} /\ ClaimOK(c)
  BY DEF LookupPcs, ClaimedPcs, ClaimsOK
<1>2. PICK a \in Nat, s \in Nat, u \in Nat, m \in Nat :
        /\ a = At(c) /\ s = Stop(c) /\ u = Until(c) /\ m = Here(c) /\ a < s /\ s <= u
        /\ u <= Emptied /\ a \in Within(m) /\ a .. s - 1 \subseteq Within(m)
  BY <1>1, ClaimFacts, StopFacts
<1>3. /\ n \in Nat /\ n \in a .. s - 1 /\ n \in Index /\ n \in Within(m)
      /\ InBlock(c) = {Element(p) : p \in a .. s - 1}
  BY <1>1, <1>2, InBlockElements
<1>4. n \in Stored
  <2>1. n \in Unmoved(c)
    <3>1. n \in a .. u - 1
      BY <1>2, <1>3
    <3> QED
      BY <1>1, <1>2, <3>1 DEF Unmoved, Moved
  <2>2. n \in 0 .. Constructed - 1
    <3>1. Filled \in Nat /\ Emptied \in Nat /\ Emptied <= Filled /\ enq.count \in Nat
      BY Basics DEF ShareIInv, EnqueueFits
    <3> QED
      BY <1>2, <1>3, <3>1 DEF Constructed
  <2> QED
    BY <2>1, <2>2 DEF Stored
<1>5. n \div BlockSize = m
  BY <1>2, <1>3, WithinQuotient
<1>6. Home(n) = value[EntryOf(c)]
  <2>1. EntryOf(c) = Entry(Here(c))
    BY <1>1, EntryOfValue
  <2> QED
    BY <1>2, <1>5, <2>1 DEF Home
<1>7. n % BlockSize \in Slots /\ n = m * BlockSize + (n % BlockSize)
  BY <1>3, <1>5, QuotientWithin
<1>8. Slot(Element(n)) = n % BlockSize
  BY <1>3, ElementValue, BlockNoValue
<1>9. n % BlockSize = Slot(call[c].index) + (n - a)
  <2>1. a \div BlockSize = m /\ a = m * BlockSize + (a % BlockSize)
    <3>1. a \div BlockSize = m
      BY <1>2, WithinQuotient
    <3> QED
      BY <1>2, <3>1, QuotientWithin
  <2>2. Slot(call[c].index) = a % BlockSize
    BY <1>1, <1>2, BlockNoValue DEF ClaimOK, At
  <2>3. PICK x \in Nat, y \in Nat, z \in Nat :
          x = m * BlockSize /\ y = n % BlockSize /\ z = a % BlockSize /\ n = x + y /\ a = x + z
    <3>1. m * BlockSize \in Nat /\ BlockSize \in Nat \ {0}
      BY <1>2, WithinValue, BlockFacts
    <3>2. a % BlockSize \in Nat
      BY <1>2, <3>1
    <3> QED
      BY <1>7, <2>1, <3>1, <3>2 DEF Slots
  <2> QED
    BY <2>2, <2>3
<1>10. cell[value[EntryOf(c)]][n % BlockSize] = Element(n)
  BY <1>4, <1>6 DEF CellsOK
<1> QED
  BY <1>2, <1>3, <1>4, <1>6, <1>7, <1>8, <1>9, <1>10

\* A consumer gets what it has claimed, in order.
LEMMA MoveGot ==
  ASSUME WindowsFit, ShareIInv, ClaimsOK, StoreOK, CellsOK, NEW c \in Consumers, GotOK(c), Move(c)
  PROVE  GotOK(c)'
<1> HIDE DEF Numbers
<1>1. cpc[c] = "entry" /\ cpc[c] \in LookupPcs /\ cpc[c] \in ClaimedPcs /\ ClaimOK(c)
      /\ DOMAIN call[c] = CallFields
  BY DEF Move, LookupPcs, ClaimedPcs, ClaimsOK, ClaimOK
<1>2. PICK a \in Nat, f \in Nat, s \in Nat, u \in Nat :
        a = At(c) /\ f = First(c) /\ s = Stop(c) /\ u = Until(c) /\ f <= a /\ a < s /\ s <= u
  BY <1>1, ClaimFacts, StopFacts
<1>3. PICK n \in Nat : n = Cardinality(InBlock(c)) /\ n = s - a
  <2>1. s - a \in Nat
    BY <1>2
  <2> QED
    BY <1>1, <1>2, <2>1, InBlockCount
<1>4. PICK b, x, i : b = value[EntryOf(c)] /\ x = Slot(call[c].index) /\ i = call[c].first
  OBVIOUS
<1>5. PICK v : v = [k \in 1 .. n |-> cell[b][x + k - 1]]
  OBVIOUS
<1>6. call'[c] = [call[c] EXCEPT !.block = b, !.got = @ \o v] /\ cpc'[c] = "empty"
  BY <1>3, <1>4, <1>5, Basics DEF Move, ConsumerGoto
<1>7. call'[c].got = call[c].got \o v /\ call'[c].first = i /\ call'[c].index = call[c].index
      /\ call'[c].count = call[c].count
  BY <1>1, <1>4, <1>6 DEF CallFields
<1>8. PICK F : F = [k \in 1 .. s - f |-> Plus(i, k - 1)]
  OBVIOUS
<1>9. PICK p \in Nat : p = a - f /\ p + n = s - f
  BY <1>2, <1>3
<1>10. call[c].got = [k \in 1 .. p |-> F[k]]
  <2>1. call[c].got = [k \in 1 .. p |-> Plus(i, k - 1)]
    BY <1>1, <1>2, <1>4, <1>9 DEF GotOK, Moved
  <2>2. \A k \in 1 .. p : k \in 1 .. s - f
    BY <1>2, <1>9
  <2> QED
    BY <1>8, <2>1, <2>2
<1>11. v = [k \in 1 .. n |-> F[p + k]]
  <2>1. ASSUME NEW k \in 1 .. n PROVE cell[b][x + k - 1] = F[p + k]
    <3>1. PICK q \in Nat : q = a + (k - 1) /\ q \in a .. s - 1 /\ q = f + (p + k - 1)
      BY <1>2, <1>3, <1>9, <2>1
    <3>2. cell[b][q % BlockSize] = Element(q) /\ q % BlockSize = x + (q - a) /\ q % BlockSize \in Slots
      BY <1>1, <1>2, <1>4, <3>1, MovedElements
    <3>3. x + k - 1 = q % BlockSize
      <4>1. x \in Nat
        <5>1. PICK j : j = call[c].index
          OBVIOUS
        <5>2. Slot(j) = Number(j) % BlockSize /\ Number(j) \in Nat /\ BlockSize \in Nat \ {0}
          BY <1>1, <5>1, BlockNoValue, NumberValue, BlockFacts, HalfRange DEF ClaimOK, Index
        <5> QED
          BY <1>4, <5>1, <5>2
      <4> QED
        BY <1>2, <2>1, <3>1, <3>2, <4>1
    <3>4. p + k \in 1 .. s - f /\ p + k - 1 \in 0 .. call[c].count - 1
      <4>1. u = f + call[c].count /\ call[c].count \in Nat
        BY <1>1, <1>2 DEF Until, ClaimOK
      <4> QED
        BY <1>2, <1>3, <1>9, <2>1, <4>1
    <3>5. Plus(i, p + k - 1) = Element(q)
      BY <1>1, <1>2, <1>4, <3>1, <3>4, InBlockElements
    <3>6. F[p + k] = Plus(i, p + k - 1)
      BY <1>8, <3>4
    <3> QED
      BY <3>2, <3>3, <3>5, <3>6
  <2> QED
    BY <1>5, <2>1
<1>12. call'[c].got = F
  <2>1. call[c].got \o v = [k \in 1 .. p + n |-> F[k]]
    BY <1>10, <1>11, Joined
  <2> QED
    BY <1>7, <1>8, <1>9, <2>1
<1>13. First(c)' = f /\ Until(c)' = u /\ Here(c)' = Here(c)
  <2>1. First(c)' = f
    BY <1>1, <1>2, <1>4, <1>6, <1>7 DEF First, Number
  <2> QED
    BY <1>2, <1>7, <2>1 DEF Until, Here, BlockNo, Number
<1>14. Moved(c)' = s
  BY <1>2, <1>6, <1>13 DEF Moved, Stop
<1> QED
  BY <1>6, <1>7, <1>8, <1>12, <1>13, <1>14 DEF GotOK

\* The places of what it moves are vacant, the others are left alone.
LEMMA MoveHeld ==
  ASSUME WindowsFit, IInv, IInv', HeldOK, ppc # "destroyed", NEW c \in Consumers, GotOK(c),
         Move(c)
  PROVE  HeldOK' /\ GotOK(c)' /\ ConsumerStep(c)
<1> HIDE DEF Numbers
<1>0. ShareIInv /\ ClaimsOK /\ StoreOK /\ CellsOK /\ TailOK /\ NoneMissing /\ CountOK
  BY DEF IInv, HeldOK
<1>1. cpc[c] = "entry" /\ cpc[c] \in LookupPcs /\ cpc[c] \in ClaimedPcs /\ ClaimOK(c)
      /\ DOMAIN call[c] = CallFields
  BY <1>0 DEF Move, LookupPcs, ClaimedPcs, ClaimsOK, ClaimOK
<1>2. PICK b : b = value[EntryOf(c)]
  OBVIOUS
<1>3. /\ cpc'[c] = "empty" /\ UNCHANGED <<tailIndex, headers, key, producerVars, value, freeBlocks, headIndex>>
      /\ \E got : call'[c] = [call[c] EXCEPT !.block = b, !.got = got]
      /\ OnlyCaller(c)
  BY <1>0, <1>2, Basics DEF Move, ConsumerGoto, counters, indexVars, OnlyCaller
<1>4. cell' = [cell EXCEPT ![b] = [s \in Slots |->
                 IF \E i \in InBlock(c) : Slot(i) = s THEN Vacant ELSE @[s]]]
  BY <1>2 DEF Move
<1>5. ConsumerStep(c)
  BY <1>3 DEF ConsumerStep
<1>6. /\ call'[c].index = call[c].index /\ call'[c].count = call[c].count
      /\ call'[c].first = call[c].first
  BY <1>1, <1>3 DEF CallFields
<1>7. /\ At(c)' = At(c) /\ First(c)' = First(c) /\ Until(c)' = Until(c) /\ Here(c)' = Here(c)
  BY <1>1, <1>3, <1>6 DEF At, First, Until, Here, Number, BlockNo
<1>8. PICK a \in Nat, s \in Nat, u \in Nat :
        a = At(c) /\ s = Stop(c) /\ u = Until(c) /\ a < s /\ s <= u /\ u <= Emptied
  BY <1>0, <1>1, ClaimFacts, StopFacts
<1>9. Unmoved(c) = a .. u - 1 /\ Unmoved(c)' = s .. u - 1
  <2>1. Moved(c)' = s
    BY <1>3, <1>7, <1>8 DEF Moved, Stop
  <2> QED
    BY <1>1, <1>3, <1>7, <1>8, <2>1 DEF Unmoved, Moved, ClaimedPcs, LookupPcs
<1>10. ASSUME NEW n \in a .. s - 1
       PROVE  /\ n \in Stored /\ Home(n) = b /\ Element(n) \in InBlock(c)
              /\ Slot(Element(n)) = n % BlockSize
  <2>1. InBlock(c) = {Element(p) : p \in a .. s - 1}
    BY <1>0, <1>1, <1>8, InBlockElements
  <2> QED
    BY <1>0, <1>1, <1>2, <1>8, <1>10, <2>1, MovedElements
<1>11. \A i \in InBlock(c) : \E n \in a .. s - 1 : i = Element(n)
  BY <1>0, <1>1, <1>8, InBlockElements
<1>12. Stored' = Stored \ (a .. s - 1)
  <2>1. Constructed' = Constructed /\ Emptied' = Emptied
    BY <1>3, <1>5, FrameFacts DEF Constructed, Emptied
  <2>2. \A d \in Consumers \ {c} : Unmoved(d)' = Unmoved(d)
    BY <1>5, OthersStill
  <2>3. ASSUME NEW d \in Consumers \ {c}, NEW n \in a .. s - 1 PROVE n \notin Unmoved(d)
    <3>1. n \in Taken(c)
      <4>1. n \in Unmoved(c)
        BY <1>8, <1>9, <2>3
      <4> QED
        BY <1>0, <1>1, <4>1, UnmovedFacts
    <3>2. n \notin Taken(d)
      BY <1>0, <3>1 DEF ClaimsOK
    <3>3. cpc[d] \in ClaimedPcs => Unmoved(d) \subseteq Taken(d)
      BY <1>0, UnmovedFacts DEF ClaimsOK
    <3> QED
      BY <3>2, <3>3 DEF Unmoved
  <2>4. \A n \in a .. u - 1 : n \in s .. u - 1 <=> n \notin a .. s - 1
    BY <1>8
  <2>5. s .. u - 1 \subseteq a .. u - 1 /\ a .. s - 1 \subseteq a .. u - 1
    BY <1>8
  <2>6. \A n \in a .. s - 1 : ~(n >= Emptied)
    <3>1. Emptied \in Nat
      BY <1>0, Basics
    <3> QED
      BY <1>8, <3>1
  <2>7. ASSUME NEW n PROVE n \in Stored' <=> n \in Stored /\ n \notin a .. s - 1
    <3>1. n \in Unmoved(c)' <=> n \in Unmoved(c) /\ n \notin a .. s - 1
      BY <1>9, <2>4, <2>5
    <3>2. (\E d \in Consumers : n \in Unmoved(d)') <=>
            n \in Unmoved(c)' \/ \E d \in Consumers \ {c} : n \in Unmoved(d)
      BY <2>2
    <3>3. (\E d \in Consumers : n \in Unmoved(d)) <=>
            n \in Unmoved(c) \/ \E d \in Consumers \ {c} : n \in Unmoved(d)
      OBVIOUS
    <3>4. CASE n \in a .. s - 1
      BY <2>1, <2>3, <2>6, <3>1, <3>2, <3>4 DEF Stored
    <3>5. CASE n \notin a .. s - 1
      BY <2>1, <3>1, <3>2, <3>3, <3>5 DEF Stored
    <3> QED
      BY <3>4, <3>5
  <2> QED
    BY <2>7
<1>13. \A n \in Stored : n \div BlockSize \in LiveNos /\ Home(n) \in Blocks /\ n % BlockSize \in Slots
  BY <1>0, StoredFacts
<1>14. Open(c)' = Open(c) /\ Emptied' = Emptied
  BY <1>1, <1>3, <1>7 DEF Open, From, Emptied, ClaimedPcs, LookupPcs
<1>15. \A n \in Nat : Consumed(n)' <=> Consumed(n)
  <2>1. \A d \in Consumers : Open(d)' = Open(d)
    BY <1>5, <1>14, FrameFacts
  <2> QED
    BY <1>14, <2>1 DEF Consumed
<1>16. \A q \in Nat : Live(q)' <=> Live(q)
  BY <1>1, <1>3, <1>5, <1>15, QuietLive
<1>17. LiveNos' = LiveNos /\ \A q : Entry(q)' = Entry(q)
  BY <1>0, <1>5, <1>16, LiveSame, FrameFacts
<1>18. \A n : Home(n)' = Home(n)
  <2>1. ASSUME NEW n PROVE Home(n)' = Home(n)
    <3>1. PICK q : q = n \div BlockSize
      OBVIOUS
    <3>2. Entry(n \div BlockSize)' = Entry(n \div BlockSize)
      BY <1>17, <3>1
    <3> QED
      BY <1>3, <3>2 DEF Home
  <2> QED
    BY <2>1
<1>19. DOMAIN cell = Blocks /\ \A d \in Blocks : DOMAIN cell[d] = Slots
  BY <1>0 DEF CellsOK
<1>20. ASSUME NEW d \in Blocks, NEW r \in Slots
       PROVE  cell'[d][r] = IF d = b /\ \E n \in a .. s - 1 : n % BlockSize = r THEN Vacant
                            ELSE cell[d][r]
  <2>1. (\E i \in InBlock(c) : Slot(i) = r) <=> \E n \in a .. s - 1 : n % BlockSize = r
    BY <1>10, <1>11
  <2> QED
    BY <1>4, <1>19, <1>20, <2>1
<1>21. DOMAIN cell' = Blocks /\ \A d \in Blocks : DOMAIN cell'[d] = Slots
  BY <1>4, <1>19
<1>22. ASSUME NEW n \in Stored' PROVE cell'[Home(n)'][n % BlockSize] = Element(n)
  <2>1. n \in Stored /\ n \notin a .. s - 1 /\ Home(n)' = Home(n)
    BY <1>12, <1>18, <1>22
  <2>2. Home(n) \in Blocks /\ n % BlockSize \in Slots /\ cell[Home(n)][n % BlockSize] = Element(n)
    BY <1>0, <1>13, <2>1 DEF CellsOK
  <2>3. ~(Home(n) = b /\ \E p \in a .. s - 1 : p % BlockSize = n % BlockSize)
    BY <1>0, <1>10, <2>1, StoredApart
  <2> QED
    BY <1>20, <2>1, <2>2, <2>3
<1>23. ASSUME NEW d \in Blocks, NEW r \in Slots, cell'[d][r] # Vacant
       PROVE  \E n \in Stored' : Home(n)' = d /\ n % BlockSize = r
  <2>1. cell[d][r] # Vacant /\ ~(d = b /\ \E n \in a .. s - 1 : n % BlockSize = r)
    BY <1>20, <1>23
  <2>2. PICK n \in Stored : Home(n) = d /\ n % BlockSize = r
    BY <1>0, <2>1 DEF CellsOK
  <2>3. n \notin a .. s - 1
    BY <1>10, <2>1, <2>2
  <2> QED
    BY <1>12, <1>18, <2>2, <2>3
<1>24. CellsOK'
  <2>1. \A n : Element(n)' = Element(n)
    BY DEF Element
  <2> QED
    BY <1>21, <1>22, <1>23, <2>1 DEF CellsOK
<1>25. TailOK'
  BY <1>0, <1>3, <1>5, <1>16, <1>17, ConsumerTail
<1>26. NoneMissing' /\ CountOK'
  <2>1. /\ Chained' = Chained /\ enq' = enq /\ ppc' = ppc
        /\ \A d \in Consumers \ {c} : cpc'[d] = cpc[d] /\ call'[d] = call[d]
    BY <1>5, FrameFacts
  <2>2. Freeing' = Freeing /\ \A d \in Freeing : call'[d].block = call[d].block
    BY <1>1, <1>3, <2>1 DEF Freeing
  <2>3. Places' = Places
    BY <1>3, <1>17, <2>1, <2>2 DEF Places
  <2> QED
    BY <1>0, <2>1, <2>3 DEF NoneMissing, CountOK
<1>27. GotOK(c)'
  BY <1>0, MoveGot
<1> QED
  BY <1>5, <1>24, <1>25, <1>26, <1>27 DEF HeldOK

------------------------------------------------------------------------------
(* The invariant of what the blocks hold.                                  *)

LEMMA DequeueHeld ==
  ASSUME WindowsFit, IInv, IInv', HeldOK, \A d \in Consumers : GotOK(d),
         NEW c \in Consumers, Dequeue(c)
  PROVE  HeldOK' /\ \A d \in Consumers : GotOK(d)'
<1> HIDE DEF Numbers
<1>1. ppc # "destroyed"
  BY DEF IInv, ClaimsOK, Dequeue, Begin, Share, Sharing, LoadOvercommit, Examine, Promise, Reload,
     GiveBack, Claim, LoadHeader, LoadSlotTail, LoadSlotKey, Move, SetEmpty, UnlinkBlock, FreeBlock
<1>2. HeldOK' /\ GotOK(c)' /\ ConsumerStep(c)
  BY <1>1, ShareHeld, LookingHeld, MoveHeld, SetEmptyHeld, UnlinkBlockHeld, FreeBlockHeld
     DEF Dequeue
<1>3. \A d \in Consumers \ {c} : GotOK(d)'
  BY <1>2, OthersStill
<1> QED
  BY <1>2, <1>3

LEMMA StutterHeld ==
  ASSUME HeldOK, \A c \in Consumers : GotOK(c), UNCHANGED vars
  PROVE  HeldOK' /\ \A c \in Consumers : GotOK(c)'
<1>1. /\ tailIndex' = tailIndex /\ headIndex' = headIndex /\ cpc' = cpc /\ call' = call
      /\ headers' = headers /\ key' = key /\ value' = value /\ enq' = enq /\ ppc' = ppc
      /\ freeBlocks' = freeBlocks /\ dequeued' = dequeued /\ cell' = cell /\ tailBlock' = tailBlock
  BY DEF vars, claimVars, counters, storage, indexVars, producerVars
<1>2. ClaimsStill
  BY <1>1 DEF ClaimsStill
<1>3. /\ Emptied' = Emptied /\ Freeing' = Freeing /\ \A m : Live(m)' <=> Live(m)
      /\ \A c \in Consumers : Unmoved(c)' = Unmoved(c) /\ (GotOK(c) => GotOK(c)')
  BY <1>2, SameClaims, UnmovedStill
<1>4. Filled' = Filled /\ Committed' = Committed /\ Listed' = Listed /\ Gone' = Gone
  BY <1>1, SameCall
<1>5. Top' = Top /\ Limit' = Limit /\ Chained' = Chained
  BY <1>1, <1>4 DEF Top, Limit, Undoing, Chained
<1>6. \A m : Entry(m)' = Entry(m)
  BY <1>1, <1>5, UnmovedIndex
<1>7. LiveNos' = LiveNos /\ Constructed' = Constructed /\ Stored' = Stored
  BY <1>1, <1>3, <1>4, <1>5 DEF LiveNos, Constructed, Stored
<1>8. \A n : Home(n)' = Home(n)
  <2>1. ASSUME NEW n PROVE Home(n)' = Home(n)
    <3>1. PICK q : q = n \div BlockSize
      OBVIOUS
    <3>2. Entry(n \div BlockSize)' = Entry(n \div BlockSize)
      BY <1>6, <3>1
    <3> QED
      BY <1>1, <3>2 DEF Home
  <2> QED
    BY <2>1
<1>9. CellsOK'
  <2>1. \A n : Element(n)' = Element(n)
    BY DEF Element
  <2> QED
    BY <1>1, <1>7, <1>8, <2>1 DEF HeldOK, CellsOK
<1>10. NoneMissing' /\ CountOK'
  BY <1>1, <1>3, <1>5, <1>6, <1>7 DEF HeldOK, NoneMissing, Places, CountOK
<1>11. TailOK'
  <2>1. PICK x, y : x = Listed - 1 /\ y = Committed - 1
    OBVIOUS
  <2>2. x = (Listed - 1)' /\ y = (Committed - 1)'
    BY <1>4, <2>1
  <2>3. /\ ppc = "commit" => Listed > 0 /\ (Live(x) => tailBlock = value[Entry(x)])
        /\ ppc # "commit" /\ Committed > 0 /\ Live(y) => tailBlock = value[Entry(y)]
    BY <2>1 DEF HeldOK, TailOK
  <2> QED
    BY <1>1, <1>3, <1>4, <1>6, <2>2, <2>3 DEF TailOK
<1> QED
  BY <1>3, <1>9, <1>10, <1>11 DEF HeldOK

LEMMA HeldInit ==
  ASSUME WindowsFit, Init
  PROVE  CInv
<1> HIDE DEF Numbers
<1>1. IInv
  BY IndexInit
<1>2. /\ \A c \in Consumers : cpc[c] = "idle"
      /\ ppc = "idle" /\ freeBlocks = Blocks
      /\ cell = [b \in Blocks |-> [i \in Slots |-> Vacant]]
      /\ tailIndex = StartIndex /\ headIndex = StartIndex
  BY DEF Init, ClaimInit
<1>3. ShareIInv /\ ClaimsOK /\ StoreOK
  BY <1>1, <1>2 DEF IInv
<1>4. Filled = 0 /\ Emptied = 0
  BY <1>2, HalfRange, MinusValue DEF Filled, Emptied, Index
<1>5. Stored = {}
  <2>1. Stored = Emptied .. Filled - 1
    BY <1>2, <1>3, QuietFacts DEF Quiet
  <2> QED
    BY <1>4, <2>1
<1>6. CellsOK
  BY <1>2, <1>5 DEF CellsOK
<1>7. Committed = 0
  <2>1. PICK k \in Nat \ {0}, p \in Nat : k = BlockSize /\ p = Committed * k /\ p < k
    BY <1>3, <1>4, CommittedValue, BlockFacts
  <2>2. Committed * k < 1 * k /\ Committed \in Nat
    BY <1>3, <2>1, CommittedValue
  <2>3. Committed < 1
    BY <2>1, <2>2, Order
  <2> QED
    BY <2>2, <2>3
<1>8. TailOK /\ NoneMissing /\ CountOK
  BY <1>2, <1>7 DEF TailOK, NoneMissing, Places, CountOK
<1>9. \A c \in Consumers : GotOK(c)
  BY <1>2 DEF GotOK, LookupPcs
<1>10. DestroysAll
  BY <1>2 DEF DestroysAll
<1> QED
  BY <1>1, <1>6, <1>8, <1>9, <1>10 DEF CInv, HeldOK

LEMMA HeldInvariance ==
  ASSUME WindowsFit
  PROVE  Spec => []CInv
<1> HIDE DEF Numbers
<1>1. Init => CInv
  BY HeldInit
<1>2. CInv /\ IInv' /\ [Next]_vars => CInv'
  <2> SUFFICES ASSUME CInv, IInv', [Next]_vars PROVE CInv'
    OBVIOUS
  <2>1. IInv /\ \A c \in Consumers : GotOK(c)
    BY DEF CInv
  <2>2. CASE Enqueue
    <3>1. ppc # "destroyed" /\ ppc' # "destroyed"
      BY <2>2 DEF Enqueue, InsertIndexEntry, Revert, BeginEnqueue, CheckRoom, FindSlot, Grow,
         CannotGrow, StoreKey, StoreIndexTail, Requisition, NoRequisition, StoreValue, Construct,
         Commit, ThrowUnpublished, ThrowInBatch, RewindTail, ClearValue, Undo, Unlink, Unwind,
         EndCall, ProducerGoto
    <3>2. HeldOK' /\ \A c \in Consumers : GotOK(c)'
      BY <2>1, <2>2, <3>1, EnqueueHeld DEF CInv
    <3> QED
      BY <3>1, <3>2 DEF CInv, DestroysAll
  <2>3. CASE Destroy
    <3>1. ppc = "idle" /\ ppc' = "destroyed" /\ ClaimsStill
      BY <2>3 DEF Destroy, ProducerGoto, ClaimsStill, claimVars, counters
    <3>2. DestroysAll'
      BY <2>1, <2>3, <3>1, DestroyStep DEF CInv
    <3>3. \A c \in Consumers : GotOK(c)'
      BY <2>1, <3>1, UnmovedStill
    <3> QED
      BY <3>1, <3>2, <3>3 DEF CInv
  <2>4. ASSUME NEW c \in Consumers, Dequeue(c) PROVE CInv'
    <3>1. ppc # "destroyed"
      BY <2>1, <2>4 DEF IInv, ClaimsOK, Dequeue, Begin, Share, Sharing, LoadOvercommit, Examine,
         Promise, Reload, GiveBack, Claim, LoadHeader, LoadSlotTail, LoadSlotKey, Move, SetEmpty,
         UnlinkBlock, FreeBlock
    <3>2. HeldOK' /\ \A d \in Consumers : GotOK(d)'
      BY <2>1, <2>4, <3>1, DequeueHeld DEF CInv
    <3>3. ppc' = ppc
      BY <2>4 DEF Dequeue, Begin, Share, LoadHeader, LoadSlotTail, LoadSlotKey, Move, SetEmpty,
         UnlinkBlock, FreeBlock, producerVars
    <3> QED
      BY <3>1, <3>2, <3>3 DEF CInv, DestroysAll
  <2>5. CASE UNCHANGED vars
    <3>1. UNCHANGED <<ppc, freeBlocks, cell>>
      BY <2>5 DEF vars, storage, producerVars
    <3>2. DestroysAll'
      BY <3>1 DEF CInv, DestroysAll
    <3>3. \A c \in Consumers : GotOK(c)'
      <4>1. ClaimsStill
        BY <2>5 DEF vars, claimVars, counters, ClaimsStill
      <4> QED
        BY <2>1, <4>1, UnmovedStill
    <3>4. ppc # "destroyed" => HeldOK'
      BY <2>1, <2>5, StutterHeld DEF CInv
    <3> QED
      BY <3>1, <3>2, <3>3, <3>4 DEF CInv
  <2> QED
    BY <2>2, <2>3, <2>4, <2>5 DEF Next
<1> QED
  BY <1>1, <1>2, IndexInvariance, PTL DEF Spec

\* The destructor destroys every element that is left and gives every block back, whatever
\* calls have failed and whichever consumers have emptied blocks before: no element and no
\* block is lost on the way.
THEOREM EverythingIsDestroyed ==
  ASSUME WindowsFit
  PROVE  Spec => []DestroysAll
<1>1. CInv => DestroysAll
  BY DEF CInv
<1> QED
  BY <1>1, HeldInvariance, PTL

------------------------------------------------------------------------------
(* The abstract queue, in the numbers that do not wrap around.             *)

CallsOK == OwedOK /\ enq.count <= MaxBulk /\ \A c \in Consumers : cpc[c] \in ConsumerPcs

FInv == CInv /\ CallsOK

Queue == IF ppc = "destroyed" THEN << >>
         ELSE [k \in 1 .. Filled - Emptied |-> Element(Emptied + (k - 1))]
Holding(c) == IF cpc[c] \in ClaimedPcs
              THEN [k \in 1 .. call[c].count |-> Element(First(c) + (k - 1))] ELSE << >>

\* The block index finds each element that is stored.
LEMMA ElementFound ==
  ASSUME WindowsFit, ShareIInv, ClaimsOK, StoreOK, CellsOK, NEW n \in Stored
  PROVE  ElementAt(Element(n)) = Element(n)
<1> HIDE DEF Numbers
<1>1. /\ n \in Nat /\ n < MaxEnqueued /\ n \in Index /\ n \div BlockSize \in LiveNos
      /\ Home(n) \in Blocks
  BY StoredFacts
<1>2. BlockFor(Element(n)) = Home(n) /\ Home(n) # NoBlock
  BY <1>1, BlockForValue, ImplicitAssumption
<1>3. Slot(Element(n)) = n % BlockSize
  BY <1>1, ElementValue, BlockNoValue
<1>4. cell[Home(n)][n % BlockSize] = Element(n)
  BY DEF CellsOK
<1> QED
  BY <1>2, <1>3, <1>4 DEF ElementAt

LEMMA ContentsValue ==
  ASSUME WindowsFit, FInv
  PROVE  Contents = Queue
<1> HIDE DEF Numbers
<1>1. CASE ppc = "destroyed"
  BY <1>1 DEF Contents, Queue
<1>2. CASE ppc # "destroyed"
  <2>1. ShareIInv /\ ShareInv /\ ClaimsOK /\ StoreOK /\ CellsOK
    BY <1>2 DEF FInv, CInv, IInv, ShareIInv, HeldOK
  <2>2. /\ Filled \in Nat /\ Emptied \in Nat /\ Emptied <= Filled /\ Filled <= MaxEnqueued
        /\ MaxEnqueued \in Nat /\ MaxEnqueued < Numbers /\ Numbers \in Nat /\ headIndex \in Index
    <3>1. /\ Filled \in Nat /\ Emptied \in Nat /\ Emptied <= Filled /\ Filled <= MaxEnqueued
          /\ MaxEnqueued \in Nat /\ MaxEnqueued < Numbers \div 2 /\ Numbers \div 2 < Numbers
          /\ Numbers \div 2 \in Nat /\ Numbers \in Nat /\ headIndex \in Index
      BY <2>1, Basics
    <3> QED
      BY <3>1
  <2>3. Minus(tailIndex, headIndex) = Filled - Emptied
    BY <2>1, SizeValue
  <2>4. ASSUME NEW k \in 1 .. Filled - Emptied
        PROVE  ElementAt(Plus(headIndex, k - 1)) = Element(Emptied + (k - 1))
    <3>1. PICK n \in Nat : n = Emptied + (k - 1) /\ n < Filled /\ n >= Emptied /\ k - 1 \in Nat
      BY <2>2
    <3>2. n \in Stored
      <4>1. enq.count \in Nat
        BY <2>1 DEF ShareIInv, EnqueueFits
      <4>2. n \in 0 .. Constructed - 1
        BY <2>2, <3>1, <4>1 DEF Constructed
      <4> QED
        BY <3>1, <4>2 DEF Stored
    <3>3. Plus(headIndex, k - 1) = Element(n)
      <4>1. Number(headIndex) = Emptied
        BY DEF Number, Emptied
      <4>2. Number(headIndex) + (k - 1) < Numbers
        BY <2>2, <3>1, <4>1
      <4> QED
        BY <2>2, <3>1, <4>1, <4>2, PlusElement
    <3> QED
      BY <2>1, <3>1, <3>2, <3>3, ElementFound
  <2> QED
    BY <1>2, <2>3, <2>4 DEF Contents, Queue
<1> QED
  BY <1>1, <1>2

LEMMA HoldingValue ==
  ASSUME WindowsFit, FInv, NEW c \in Consumers
  PROVE  InHand[c] = Holding(c)
<1> HIDE DEF Numbers
<1>1. CASE c \in Unsettled \/ cpc[c] = "idle"
  BY <1>1 DEF InHand, Holding, Unsettled, ClaimedPcs, LookupPcs
<1>2. CASE ~(c \in Unsettled \/ cpc[c] = "idle")
  <2>1. cpc[c] \in ClaimedPcs
    BY <1>2 DEF FInv, CallsOK, ConsumerPcs, ClaimedPcs, LookupPcs, Unsettled
  <2>2. ppc # "destroyed"
    BY <2>1 DEF FInv, CInv, IInv, ClaimsOK, ClaimedPcs, LookupPcs
  <2>3. ShareIInv /\ ClaimsOK /\ StoreOK /\ CellsOK /\ ClaimOK(c) /\ GotOK(c)
    BY <2>2 DEF FInv, CInv, IInv, HeldOK, ClaimsOK
  <2>4. /\ Filled \in Nat /\ Emptied \in Nat /\ Emptied <= Filled /\ Filled <= MaxEnqueued
        /\ MaxEnqueued \in Nat /\ MaxEnqueued < Numbers /\ Numbers \in Nat
    <3>1. /\ Filled \in Nat /\ Emptied \in Nat /\ Emptied <= Filled /\ Filled <= MaxEnqueued
          /\ MaxEnqueued \in Nat /\ MaxEnqueued < Numbers \div 2 /\ Numbers \div 2 < Numbers
          /\ Numbers \div 2 \in Nat /\ Numbers \in Nat
      BY <2>3, Basics
    <3> QED
      BY <3>1
  <2>5. PICK f \in Nat, m \in Nat, u \in Nat, n \in Nat :
          /\ f = First(c) /\ m = Moved(c) /\ u = Until(c) /\ n = call[c].count
          /\ f <= m /\ m <= u /\ u <= Emptied /\ u = f + n
    <3>1. call[c].count \in Nat /\ Until(c) = First(c) + call[c].count
      BY <2>1, <2>3 DEF ClaimOK, Until
    <3> QED
      BY <2>1, <2>3, <3>1, UnmovedFacts
  <2>6. PICK i \in Index : Number(i) = f /\ (cpc[c] = "claimed" => i = call[c].index)
                           /\ (cpc[c] # "claimed" => i = call[c].first)
    <3>1. CASE cpc[c] = "claimed"
      BY <2>1, <2>3, <2>5, <3>1 DEF ClaimOK, First, At
    <3>2. CASE cpc[c] # "claimed"
      BY <2>1, <2>3, <2>5, <3>2 DEF ClaimOK, First, ClaimedPcs
    <3> QED
      BY <3>1, <3>2
  <2>7. ASSUME NEW j \in Nat, f + j < u PROVE Plus(i, j) = Element(f + j)
    <3>1. Number(i) + j < Numbers
      BY <2>4, <2>5, <2>6, <2>7
    <3> QED
      BY <2>6, <2>7, <3>1, PlusElement
  <2>8. ASSUME NEW j \in Nat, f + j < u, m <= f + j
        PROVE  ElementAt(Plus(i, j)) = Element(f + j)
    <3>1. f + j \in Moved(c) .. Until(c) - 1
      BY <2>5, <2>8
    <3>2. f + j \in Unmoved(c)
      BY <2>1, <3>1 DEF Unmoved
    <3>3. enq.count \in Nat
      BY <2>3 DEF ShareIInv, EnqueueFits
    <3>4. f + j \in 0 .. Constructed - 1
      BY <2>4, <2>5, <2>8, <3>3 DEF Constructed
    <3>5. f + j \in Stored
      BY <3>2, <3>4 DEF Stored
    <3> QED
      BY <2>3, <2>7, <2>8, <3>5, ElementFound
  <2>9. PICK H : H = [k \in 1 .. n |-> Element(f + (k - 1))]
    OBVIOUS
  <2>10. CASE cpc[c] = "claimed"
    <3>1. m = f
      BY <2>5, <2>10 DEF Moved, First
    <3>2. \A k \in 1 .. n : k - 1 \in Nat /\ f + (k - 1) < u /\ m <= f + (k - 1)
      BY <2>5, <3>1
    <3>3. \A k \in 1 .. n : ElementAt(Plus(i, k - 1)) = Element(f + (k - 1))
      BY <2>8, <3>2
    <3>4. InHand[c] = [k \in 1 .. n |-> ElementAt(Plus(i, k - 1))]
      BY <1>2, <2>5, <2>6, <2>10 DEF InHand
    <3>5. Holding(c) = [k \in 1 .. n |-> Element(f + (k - 1))]
      BY <2>1, <2>5 DEF Holding
    <3> QED
      BY <3>3, <3>4, <3>5
  <2>11. CASE cpc[c] # "claimed"
    <3>1. PICK p \in Nat, q \in Nat :
            p = m - f /\ q = n - p /\ p + q = n /\ f + p = m /\ m + q = u
      <4>1. f \in Nat /\ m \in Nat /\ u \in Nat /\ n \in Nat /\ f <= m /\ m <= u /\ u = f + n
        BY <2>5
      <4>2. m - f \in Nat /\ n - (m - f) \in Nat
        BY <4>1
      <4> QED
        BY <4>1, <4>2
    <3>2. call[c].got = [k \in 1 .. p |-> H[k]]
      <4>1. cpc[c] \in LookupPcs
        BY <2>1, <2>11 DEF ClaimedPcs
      <4>2. call[c].got = [k \in 1 .. p |-> Plus(i, k - 1)]
        BY <2>3, <2>5, <2>6, <2>11, <3>1, <4>1 DEF GotOK
      <4>3. \A k \in 1 .. p : k \in 1 .. n /\ k - 1 \in Nat /\ f + (k - 1) < u
        BY <2>5, <3>1
      <4>4. \A k \in 1 .. p : Plus(i, k - 1) = Element(f + (k - 1))
        BY <2>7, <4>3
      <4>5. \A k \in 1 .. p : Plus(i, k - 1) = H[k]
        BY <2>9, <4>3, <4>4
      <4> QED
        BY <4>2, <4>5
    <3>3. Len(call[c].got) = p
      BY <3>2
    <3>4. PICK v : v = [k \in 1 .. q |-> H[p + k]]
      OBVIOUS
    <3>5. ASSUME NEW k \in 1 .. q PROVE ElementAt(Plus(i, p + k - 1)) = H[p + k]
      <4>1. k \in Nat /\ 1 <= k /\ k <= q
        BY <3>1, <3>5
      <4>2. PICK j \in Nat : j = p + k - 1 /\ (p + k) - 1 = j /\ f + j = m + (k - 1)
        BY <3>1, <4>1
      <4>3. f + j < u /\ m <= f + j /\ p + k \in 1 .. n
        <5>1. m \in Nat /\ u \in Nat /\ n \in Nat
          BY <2>5
        <5> QED
          BY <3>1, <4>1, <4>2, <5>1
      <4> QED
        BY <2>8, <2>9, <4>2, <4>3
    <3>6. v = [k \in 1 .. q |-> ElementAt(Plus(i, p + k - 1))]
      BY <3>4, <3>5
    <3>7. InHand[c] = call[c].got \o v
      BY <1>2, <2>5, <2>6, <2>11, <3>1, <3>3, <3>6 DEF InHand
    <3>8. InHand[c] = [k \in 1 .. n |-> H[k]]
      BY <3>1, <3>2, <3>4, <3>7, Joined
    <3>9. Holding(c) = H
      BY <2>1, <2>5, <2>9 DEF Holding
    <3> QED
      BY <2>9, <3>8, <3>9
  <2> QED
    BY <2>10, <2>11
<1> QED
  BY <1>1, <1>2

LEMMA MappedAll ==
  WindowsFit /\ FInv => Contents = Queue /\ InHand = [c \in Consumers |-> Holding(c)]
<1> SUFFICES ASSUME WindowsFit, FInv
             PROVE  Contents = Queue /\ InHand = [c \in Consumers |-> Holding(c)]
  OBVIOUS
<1>1. \A c \in Consumers : InHand[c] = Holding(c)
  BY HoldingValue
<1>2. InHand = [c \in Consumers |-> InHand[c]]
  BY DEF InHand
<1> QED
  BY <1>1, <1>2, ContentsValue

LEMMA MappedNext ==
  WindowsFit /\ FInv' => Contents' = Queue' /\ InHand' = [c \in Consumers |-> Holding(c)']
<1> HIDE DEF Numbers
<1>1. WindowsFit' <=> WindowsFit
  BY DEF WindowsFit, Numbers
<1>2. (WindowsFit /\ FInv)' => (Contents = Queue /\ InHand = [c \in Consumers |-> Holding(c)])'
  BY MappedAll, PTL
<1> QED
  BY <1>1, <1>2

LEMMA EnqueueEffect ==
  ASSUME WindowsFit, ShareIInv, CallsOK, Enqueue \/ Destroy
  PROVE  /\ UNCHANGED claimVars /\ enq'.count <= MaxBulk
         /\ \/ Destroy
            \/ Commit
            \/ tailIndex' = tailIndex /\ ppc # "destroyed" /\ ppc' # "destroyed"
<1> HIDE DEF Numbers
<1> USE DEF CallsOK
<1>0. "count" \in DOMAIN enq /\ enq.count \in Nat /\ MaxBulk \in Nat \ {0}
  BY HalfRange DEF EnqueueFits, ShareIInv
<1>1. ASSUME NEW n \in {1, MaxBulk}, NEW bulk \in BOOLEAN, BeginEnqueue(n, bulk)
      PROVE  /\ UNCHANGED claimVars /\ enq'.count <= MaxBulk
             /\ tailIndex' = tailIndex /\ ppc # "destroyed" /\ ppc' # "destroyed"
  <2>1. enq'.count = n /\ UNCHANGED <<tailIndex, claimVars>>
    BY <1>1 DEF BeginEnqueue, NoEnqueue
  <2>2. ppc # "destroyed" /\ ppc' # "destroyed"
    BY <1>1 DEF BeginEnqueue, ProducerGoto
  <2> QED
    BY <1>0, <2>1, <2>2
<1>2. ASSUME Preparing PROVE UNCHANGED <<tailIndex, claimVars>> /\ enq'.count <= MaxBulk
  <2>1. enq'.count = enq.count \/ enq'.count = 0
    BY <1>2 DEF Preparing
  <2>2. enq'.count <= MaxBulk
    BY <1>0, <2>1
  <2> QED
    BY <1>2, <2>2 DEF Preparing
<1>3. CASE CheckRoom \/ InsertIndexEntry
  <2>1. Preparing /\ ppc # "destroyed" /\ ppc' # "destroyed"
    BY <1>0, <1>3 DEF CheckRoom, InsertIndexEntry, FindSlot, Grow, CannotGrow, StoreKey,
       StoreIndexTail, Preparing, ProducerGoto
  <2> QED
    BY <1>2, <2>1
<1>4. CASE Requisition \/ NoRequisition \/ StoreValue
  <2>1. Preparing /\ ppc # "destroyed" /\ ppc' # "destroyed"
    BY <1>0, <1>4 DEF Requisition, NoRequisition, StoreValue, Preparing, ProducerGoto
  <2> QED
    BY <1>2, <2>1
<1>5. CASE Construct \/ ThrowUnpublished \/ ThrowInBatch
  <2>1. Preparing /\ ppc # "destroyed" /\ ppc' # "destroyed"
    BY <1>0, <1>5 DEF Construct, ThrowUnpublished, ThrowInBatch, Preparing, ProducerGoto
  <2> QED
    BY <1>2, <2>1
<1>6. CASE Revert
  <2>1. Preparing /\ ppc # "destroyed" /\ ppc' # "destroyed"
    BY <1>0, <1>6 DEF Revert, RewindTail, ClearValue, Undo, Unlink, Unwind, EndCall, NoEnqueue,
       Preparing, ProducerGoto
  <2> QED
    BY <1>2, <2>1
<1>7. CASE Destroy
  <2>1. Preparing
    BY <1>0, <1>7 DEF Destroy, Preparing
  <2> QED
    BY <1>2, <1>7, <2>1
<1>8. CASE Commit
  <2>1. UNCHANGED claimVars /\ enq'.count = 0
    BY <1>8 DEF Commit, EndCall, NoEnqueue
  <2> QED
    BY <1>0, <1>8, <2>1
<1> QED
  BY <1>1, <1>3, <1>4, <1>5, <1>6, <1>7, <1>8 DEF Enqueue

\* A consumer that has claimed goes on with the same elements, or returns.
GoesOn(c) ==
  /\ cpc[c] \in ClaimedPcs /\ UNCHANGED <<counters, owed>>
  /\ \/ cpc'[c] = "idle"
     \/ cpc'[c] \in LookupPcs /\ First(c)' = First(c) /\ call'[c].count = call[c].count

LEMMA GoesOnStep ==
  ASSUME ShareInv, ClaimsOK, NEW c \in Consumers,
         \/ LoadHeader(c) \/ LoadSlotTail(c) \/ LoadSlotKey(c)
         \/ Move(c) \/ SetEmpty(c) \/ UnlinkBlock(c) \/ FreeBlock(c)
  PROVE  /\ GoesOn(c) /\ OnlyCaller(c) /\ UNCHANGED <<tailIndex, ppc, enq>>
<1> HIDE DEF Numbers
<1>0. DOMAIN cpc = Consumers /\ DOMAIN call = Consumers /\ ClaimOK(c)
  BY DEF ShareInv, ShareTyped, ClaimsOK
<1>1. /\ OnlyCaller(c) /\ UNCHANGED <<tailIndex, ppc, enq, counters, owed>>
      /\ cpc[c] \in {"claimed", "slotTail", "slotKey", "entry", "empty", "unlink", "free"}
  BY <1>0 DEF LoadHeader, LoadSlotTail, LoadSlotKey, Move, SetEmpty, UnlinkBlock, FreeBlock,
     NextBlock, ReturnFrom, ConsumerGoto, OnlyCaller, producerVars
<1>2. cpc[c] \in ClaimedPcs /\ (cpc[c] # "claimed" => DOMAIN call[c] = CallFields)
  BY <1>0, <1>1 DEF ClaimedPcs, LookupPcs, ClaimOK
<1>3. ASSUME cpc[c] # "claimed", cpc'[c] \in LookupPcs, call'[c].first = call[c].first,
             call'[c].count = call[c].count
      PROVE  GoesOn(c)
  BY <1>1, <1>2, <1>3 DEF GoesOn, First, LookupPcs
<1>4. CASE LoadHeader(c)
  <2>1. cpc[c] = "claimed" /\ cpc'[c] = "slotTail" /\ call'[c].count = call[c].count
        /\ call'[c].first = call[c].index
    BY <1>0, <1>4 DEF LoadHeader, ConsumerGoto
  <2> QED
    BY <1>1, <1>2, <2>1 DEF GoesOn, First, At, LookupPcs, Number
<1>5. ASSUME NextBlock(c), cpc[c] # "claimed" PROVE GoesOn(c)
  <2>1. cpc'[c] = "idle" \/ (cpc'[c] = "entry" /\ call'[c].first = call[c].first
                              /\ call'[c].count = call[c].count)
    BY <1>0, <1>2, <1>5 DEF NextBlock, ReturnFrom, ConsumerGoto, CallFields
  <2> QED
    BY <1>1, <1>2, <1>3, <1>5, <2>1 DEF GoesOn, LookupPcs
<1>6. CASE LoadSlotTail(c)
  <2>1. cpc[c] = "slotTail" /\ cpc'[c] = "slotKey" /\ call'[c].first = call[c].first
        /\ call'[c].count = call[c].count
    BY <1>0, <1>2, <1>6 DEF LoadSlotTail, ConsumerGoto, CallFields
  <2> QED
    BY <1>1, <1>3, <2>1 DEF LookupPcs
<1>7. CASE LoadSlotKey(c)
  <2>1. cpc[c] = "slotKey" /\ cpc'[c] = "entry" /\ call'[c].first = call[c].first
        /\ call'[c].count = call[c].count
    BY <1>0, <1>2, <1>7 DEF LoadSlotKey, ConsumerGoto, CallFields
  <2> QED
    BY <1>1, <1>3, <2>1 DEF LookupPcs
<1>8. CASE Move(c)
  <2>1. cpc[c] = "entry" /\ cpc'[c] = "empty" /\ call'[c].first = call[c].first
        /\ call'[c].count = call[c].count
    BY <1>0, <1>2, <1>8 DEF Move, ConsumerGoto, CallFields
  <2> QED
    BY <1>1, <1>3, <2>1 DEF LookupPcs
<1>9. CASE SetEmpty(c)
  <2>1. cpc[c] = "empty"
    BY <1>9 DEF SetEmpty
  <2>2. NextBlock(c) \/ (cpc'[c] = "unlink" /\ call' = call)
    BY <1>0, <1>9 DEF SetEmpty, ConsumerGoto
  <2> QED
    BY <1>1, <1>3, <1>5, <2>1, <2>2 DEF LookupPcs
<1>10. CASE UnlinkBlock(c)
  <2>1. cpc[c] = "unlink" /\ cpc'[c] = "free" /\ call' = call
    BY <1>0, <1>10 DEF UnlinkBlock, ConsumerGoto
  <2> QED
    BY <1>1, <1>3, <2>1 DEF LookupPcs
<1>11. CASE FreeBlock(c)
  BY <1>1, <1>5, <1>11 DEF FreeBlock
<1> QED
  BY <1>1, <1>4, <1>6, <1>7, <1>8, <1>9, <1>10, <1>11

LEMMA DequeueEffect ==
  ASSUME WindowsFit, ShareInv, ClaimsOK, NEW c \in Consumers, Dequeue(c)
  PROVE  /\ OnlyCaller(c) /\ UNCHANGED <<tailIndex, ppc, enq>> /\ cpc'[c] \in ConsumerPcs
         /\ \/ \E max \in 1 .. MaxBulk : BeginDequeue(c, max) /\ ppc # "destroyed"
            \/ Sharing(c)
            \/ GoesOn(c)
<1> HIDE DEF Numbers
<1>0. DOMAIN cpc = Consumers /\ DOMAIN call = Consumers
  BY DEF ShareInv, ShareTyped
<1>1. CASE Begin(c)
  <2>1. PICK max \in {1, MaxBulk} : BeginDequeue(c, max)
    BY <1>1 DEF Begin
  <2>2. max \in 1 .. MaxBulk
    BY HalfRange
  <2>3. OnlyCaller(c) /\ UNCHANGED <<tailIndex, ppc, enq>> /\ cpc'[c] = "overcommit"
    BY <1>0, <1>1, <2>1 DEF Begin, BeginDequeue, ConsumerGoto, OnlyCaller, producerVars
  <2>4. ppc # "destroyed"
    BY <1>1 DEF Begin
  <2> QED
    BY <2>1, <2>2, <2>3, <2>4 DEF ConsumerPcs
<1>2. CASE Share(c)
  <2>1. Sharing(c) /\ UNCHANGED <<ppc, enq>>
    BY <1>2 DEF Share, producerVars
  <2>2. OnlyCaller(c) /\ tailIndex' = tailIndex /\ cpc'[c] \in ConsumerPcs
    BY <1>0, <2>1 DEF Sharing, LoadOvercommit, Examine, Promise, Reload, GiveBack, Claim,
       ReturnFrom, ConsumerGoto, OnlyCaller, ConsumerPcs
  <2> QED
    BY <2>1, <2>2
<1>3. CASE \/ LoadHeader(c) \/ LoadSlotTail(c) \/ LoadSlotKey(c)
           \/ Move(c) \/ SetEmpty(c) \/ UnlinkBlock(c) \/ FreeBlock(c)
  <2>1. GoesOn(c) /\ OnlyCaller(c) /\ UNCHANGED <<tailIndex, ppc, enq>>
    BY <1>3, GoesOnStep
  <2> QED
    BY <2>1 DEF GoesOn, LookupPcs, ConsumerPcs
<1> QED
  BY <1>1, <1>2, <1>3 DEF Dequeue

LEMMA FilledBy ==
  ASSUME WindowsFit, ShareIInv, Commit
  PROVE  /\ Filled \in Nat /\ enq.count \in Nat /\ Filled + enq.count < Numbers
         /\ Filled' = Filled + enq.count
<1> HIDE DEF Numbers
<1>1. /\ Filled \in Nat /\ MaxEnqueued \in Nat /\ MaxEnqueued < Numbers \div 2
      /\ Numbers \div 2 < Numbers /\ Numbers \div 2 \in Nat /\ Numbers \in Nat
      /\ tailIndex \in Index
  BY Basics
<1>2. enq.count \in Nat /\ Filled + enq.count <= MaxEnqueued
  BY DEF ShareIInv, EnqueueFits
<1>3. Filled + enq.count < Numbers /\ StartIndex \in Index
  BY <1>1, <1>2, HalfRange
<1>4. tailIndex' = Plus(tailIndex, enq.count)
  BY DEF Commit
<1> QED
  BY <1>1, <1>2, <1>3, <1>4, Advanced DEF Filled

LEMMA CallsStep ==
  ASSUME WindowsFit, CInv, CallsOK, [Next]_vars
  PROVE  CallsOK'
<1> HIDE DEF Numbers
<1>1. ShareIInv /\ ShareInv /\ ClaimsOK
  BY DEF CInv, IInv, ShareIInv
<1>2. CASE Enqueue \/ Destroy
  <2>1. UNCHANGED claimVars /\ enq'.count <= MaxBulk
    BY <1>1, <1>2, EnqueueEffect
  <2>2. Resting /\ owed' = owed /\ cpc' = cpc
    BY <2>1 DEF claimVars, Resting
  <2>3. Filled \in Nat
    BY <1>1, Basics
  <2>4. Filled' \in Nat /\ Filled <= Filled'
    <3>1. CASE Commit
      BY <1>1, <3>1, FilledBy
    <3>2. CASE tailIndex' = tailIndex
      BY <2>3, <3>2 DEF Filled
    <3> QED
      BY <1>1, <1>2, <3>1, <3>2, EnqueueEffect DEF Destroy
  <2> QED
    BY <1>1, <2>1, <2>2, <2>4, OwedFilled DEF CallsOK
<1>3. ASSUME NEW c \in Consumers, Dequeue(c) PROVE CallsOK'
  <2>1. /\ OnlyCaller(c) /\ UNCHANGED <<tailIndex, enq>> /\ cpc'[c] \in ConsumerPcs
        /\ \/ \E max \in 1 .. MaxBulk : BeginDequeue(c, max)
           \/ Sharing(c)
           \/ GoesOn(c)
    BY <1>1, <1>3, DequeueEffect
  <2>2. OwedOK'
    <3>1. CASE GoesOn(c)
      <4>1. c \notin Unsettled /\ c \notin Unsettled' /\ UNCHANGED <<tailIndex, counters, owed>>
        BY <2>1, <3>1 DEF GoesOn, ClaimedPcs, LookupPcs, Unsettled
      <4> QED
        BY <1>1, <2>1, <4>1, OwedStill DEF CallsOK
    <3> QED
      BY <1>1, <2>1, <3>1, BeginOwed, SharingOwed DEF CallsOK
  <2>3. \A d \in Consumers : cpc'[d] \in ConsumerPcs
    BY <2>1 DEF CallsOK, OnlyCaller
  <2> QED
    BY <2>1, <2>2, <2>3 DEF CallsOK
<1>4. CASE UNCHANGED vars
  <2>1. Resting /\ owed' = owed /\ cpc' = cpc /\ enq' = enq /\ tailIndex' = tailIndex
    BY <1>4 DEF vars, claimVars, producerVars, Resting
  <2>2. Filled' = Filled /\ Filled \in Nat
    BY <1>1, <2>1, Basics DEF Filled
  <2>3. OwedOK'
    BY <1>1, <2>1, <2>2, OwedFilled DEF CallsOK
  <2> QED
    BY <2>1, <2>3 DEF CallsOK
<1> QED
  BY <1>2, <1>3, <1>4 DEF Next

LEMMA FifoInvariance ==
  ASSUME WindowsFit
  PROVE  Spec => []FInv
<1> HIDE DEF Numbers
<1>1. Init => CallsOK
  BY OwedInit, HalfRange DEF Init, CallsOK, NoEnqueue, ClaimInit, ConsumerPcs
<1>2. CInv /\ CallsOK /\ [Next]_vars => CallsOK'
  BY CallsStep
<1> QED
  BY <1>1, <1>2, HeldInvariance, PTL DEF Spec, FInv

------------------------------------------------------------------------------
(* The refinement of FifoQueue.                                            *)

Asking(c) == IF c \in Unsettled THEN call[c].max ELSE 0

\* What a step of c does to the abstract queue's view of the consumers.
LEMMA CallerMapped ==
  ASSUME WindowsFit, FInv, FInv', NEW c \in Consumers, OnlyCaller(c), UNCHANGED <<tailIndex, ppc>>
  PROVE  /\ InHand[c] = Holding(c) /\ Wanted[c] = Asking(c)
         /\ InHand' = [InHand EXCEPT ![c] = Holding(c)']
         /\ Wanted' = [Wanted EXCEPT ![c] = Asking(c)']
         /\ headIndex' = headIndex => Contents' = Contents
<1>1. InHand = [d \in Consumers |-> Holding(d)] /\ InHand' = [d \in Consumers |-> Holding(d)']
  BY MappedAll, MappedNext
<1>2. Wanted = [d \in Consumers |-> Asking(d)] /\ Wanted' = [d \in Consumers |-> Asking(d)']
  BY DEF Wanted, Asking
<1>3. ASSUME NEW d \in Consumers \ {c} PROVE Holding(d)' = Holding(d) /\ Asking(d)' = Asking(d)
  <2>1. cpc'[d] = cpc[d] /\ call'[d] = call[d]
    BY DEF OnlyCaller
  <2> QED
    BY <2>1 DEF Holding, Asking, First, At, Number, Unsettled
<1>4. ASSUME headIndex' = headIndex PROVE Contents' = Contents
  <2>1. Queue' = Queue
    BY <1>4 DEF Queue, Filled, Emptied, Element
  <2> QED
    BY <2>1, MappedAll, MappedNext
<1>5. InHand' = [InHand EXCEPT ![c] = Holding(c)']
  BY <1>1, <1>3
<1>6. Wanted' = [Wanted EXCEPT ![c] = Asking(c)']
  BY <1>2, <1>3
<1> QED
  BY <1>1, <1>2, <1>4, <1>5, <1>6

LEMMA QueueFacts ==
  ASSUME WindowsFit, FInv
  PROVE  /\ ShareIInv /\ ShareInv /\ ClaimsOK /\ OwedOK
         /\ Filled \in Nat /\ Emptied \in Nat /\ Emptied <= Filled /\ Filled - Emptied \in Nat
         /\ Filled < Numbers
<1> HIDE DEF Numbers
<1>1. ShareIInv /\ ShareInv /\ ClaimsOK /\ OwedOK
  BY DEF FInv, CInv, CallsOK, IInv, ShareIInv
<1>2. /\ Filled \in Nat /\ Emptied \in Nat /\ Emptied <= Filled /\ Filled < Numbers
  <2>1. /\ Filled \in Nat /\ Emptied \in Nat /\ Emptied <= Filled /\ Filled <= MaxEnqueued
        /\ MaxEnqueued \in Nat /\ MaxEnqueued < Numbers \div 2 /\ Numbers \div 2 < Numbers
        /\ Numbers \div 2 \in Nat /\ Numbers \in Nat
    BY <1>1, Basics
  <2> QED
    BY <2>1
<1> QED
  BY <1>1, <1>2

\* A dequeue ends its sharing with n of the elements.
LEMMA TakeStep ==
  ASSUME WindowsFit, FInv, FInv', NEW c \in Unsettled, OnlyCaller(c),
         UNCHANGED <<tailIndex, ppc>>, c \notin Unsettled',
         NEW n \in 0 .. MaxBulk, owed[c] <= n, n <= call[c].max, n <= Filled - Emptied,
         owed' = [owed EXCEPT ![c] = 0], Emptied' = Emptied + n,
         Holding(c)' = [k \in 1 .. n |-> Element(Emptied + (k - 1))]
  PROVE  Fifo!Take(c, n)
<1> HIDE DEF Numbers
<1>1. /\ ShareInv /\ ClaimsOK /\ OwedOK
      /\ Filled \in Nat /\ Emptied \in Nat /\ Emptied <= Filled
  BY QueueFacts
<1>2. c \in Consumers /\ ppc # "destroyed" /\ ppc' # "destroyed"
  BY <1>1 DEF ClaimsOK, Unsettled
<1>3. n \in Nat /\ owed[c] \in Nat /\ call[c].max \in Nat \ {0}
  BY <1>1, <1>2, HalfRange DEF OwedOK, ShareInv, ShareTyped, Calls
<1>4. /\ InHand' = [InHand EXCEPT ![c] = Holding(c)']
      /\ Wanted' = [Wanted EXCEPT ![c] = Asking(c)']
      /\ Wanted[c] = Asking(c)
  BY <1>2, CallerMapped
<1>5. Asking(c) = call[c].max /\ Asking(c)' = 0
  BY DEF Asking
<1>6. PICK e \in Nat, f \in Nat, m \in Nat :
        e = Emptied /\ f = Filled /\ m = f - e - n /\ n + m = f - e /\ Emptied' = e + n
        /\ f - (e + n) = m
  <2>1. PICK e \in Nat, f \in Nat : e = Emptied /\ f = Filled
    BY <1>1
  <2>2. n <= f - e
    BY <2>1
  <2>3. f - e - n \in Nat /\ n + (f - e - n) = f - e /\ f - (e + n) = f - e - n
    BY <1>3, <2>2
  <2> QED
    BY <2>1, <2>3
<1>7. PICK F : F = [k \in 1 .. n + m |-> Element(e + (k - 1))]
  OBVIOUS
<1>8. Contents = [k \in 1 .. n + m |-> F[k]]
  BY <1>2, <1>6, <1>7, MappedAll DEF Queue
<1>9. Filled' = f
  BY <1>6 DEF Filled
<1>10. Contents' = [k \in 1 .. m |-> F[n + k]]
  <2>1. Contents' = [k \in 1 .. m |-> Element(e + n + (k - 1))]
    <3>1. Contents' = Queue'
      BY MappedNext
    <3>2. Queue' = [k \in 1 .. f - (e + n) |-> Element(e + n + (k - 1))]
      BY <1>2, <1>6, <1>9 DEF Queue, Element
    <3> QED
      BY <1>6, <3>1, <3>2
  <2>2. ASSUME NEW k \in 1 .. m PROVE F[n + k] = Element(e + n + (k - 1))
    <3>1. n + k \in 1 .. n + m /\ e + n + (k - 1) = e + ((n + k) - 1)
      BY <1>3, <1>6
    <3> QED
      BY <1>7, <3>1
  <2> QED
    BY <2>1, <2>2
<1>11. Holding(c)' = [k \in 1 .. n |-> F[k]]
  <2>1. \A k \in 1 .. n : k \in 1 .. n + m
    BY <1>3, <1>6
  <2>2. \A k \in 1 .. n : F[k] = Element(e + (k - 1))
    BY <1>7, <2>1
  <2> QED
    BY <1>6, <2>2
<1>12. /\ SubSeq(Contents, 1, n) = [k \in 1 .. n |-> F[k]]
       /\ SubSeq(Contents, n + 1, Len(Contents)) = [k \in 1 .. m |-> F[n + k]]
       /\ Len(Contents) = n + m
  BY <1>3, <1>8, Segments
<1> HIDE DEF Contents, Wanted, InHand
<1>13. n \in owed[c] .. Fifo!SmallerOf(Wanted[c], Len(Contents))
  <2>1. PICK a \in Nat : a = Wanted[c] /\ n <= a
    BY <1>3, <1>4, <1>5
  <2>2. n <= Len(Contents) /\ Len(Contents) \in Nat
    BY <1>3, <1>6, <1>12
  <2> QED
    BY <1>3, <2>1, <2>2 DEF Fifo!SmallerOf
<1>14. Wanted[c] > 0
  BY <1>3, <1>4, <1>5
<1> QED
  BY <1>4, <1>5, <1>10, <1>11, <1>12, <1>13, <1>14 DEF Fifo!Take

LEMMA BeginRefines ==
  ASSUME WindowsFit, FInv, FInv', NEW c \in Consumers, OnlyCaller(c), UNCHANGED <<tailIndex, ppc>>,
         ppc # "destroyed", NEW max \in 1 .. MaxBulk, BeginDequeue(c, max)
  PROVE  Fifo!Call(c, max)
<1> HIDE DEF Numbers
<1>1. /\ ShareInv /\ OwedOK
      /\ Filled \in Nat /\ Emptied \in Nat /\ Emptied <= Filled /\ Filled - Emptied \in Nat
  BY QueueFacts
<1>2. DOMAIN cpc = Consumers /\ DOMAIN call = Consumers /\ MaxBulk \in Nat
  BY <1>1, HalfRange DEF ShareInv, ShareTyped
<1>3. /\ cpc[c] = "idle" /\ cpc'[c] = "overcommit" /\ call'[c].max = max
      /\ headIndex' = headIndex
  BY <1>2 DEF BeginDequeue, ConsumerGoto, NoCall, counters
<1>4. /\ InHand[c] = Holding(c) /\ Wanted[c] = Asking(c)
      /\ InHand' = [InHand EXCEPT ![c] = Holding(c)']
      /\ Wanted' = [Wanted EXCEPT ![c] = Asking(c)']
      /\ Contents' = Contents
  BY <1>3, CallerMapped
<1>5. Holding(c) = << >> /\ Holding(c)' = << >> /\ Asking(c) = 0 /\ Asking(c)' = max
  BY <1>3 DEF Holding, Asking, Unsettled, ClaimedPcs, LookupPcs
<1>6. InHand' = InHand
  BY <1>4, <1>5 DEF InHand
<1>7. (\A d \in Consumers : Wanted[d] = 0) <=> Unsettled = {}
  <2>1. \A d \in Unsettled : call[d].max # 0
    BY <1>1, <1>2 DEF ShareInv, ShareTyped, Calls
  <2>2. \A d \in Consumers : Wanted[d] = IF d \in Unsettled THEN call[d].max ELSE 0
    BY DEF Wanted
  <2>3. Unsettled \subseteq Consumers
    BY DEF Unsettled
  <2> QED
    BY <2>1, <2>2, <2>3
<1>8. Len(Contents) = SizeApprox
  <2>1. PICK n \in Nat : n = Filled - Emptied
    BY <1>1
  <2>2. Contents = [k \in 1 .. n |-> Element(Emptied + (k - 1))]
    BY <2>1, MappedAll DEF Queue
  <2>3. Len(Contents) = n
    BY <2>2
  <2>4. SizeApprox = n
    BY <1>1, <2>1, SizeValue
  <2> QED
    BY <2>3, <2>4
<1> HIDE DEF Contents, Wanted, InHand, SizeApprox, Unsettled
<1>9. owed' = [d \in Consumers |->
                 IF d = c /\ Unsettled = {} THEN Least(max, SizeApprox) ELSE 0]
  BY DEF BeginDequeue
<1>10. owed' = [d \in Consumers |->
                  IF d = c /\ \A e \in Consumers : Wanted[e] = 0
                  THEN Fifo!SmallerOf(max, Len(Contents)) ELSE 0]
  <2>1. Fifo!SmallerOf(max, Len(Contents)) = Least(max, SizeApprox)
    BY <1>8 DEF Fifo!SmallerOf, Least
  <2> QED
    BY <1>7, <1>9, <2>1
<1> QED
  BY <1>4, <1>5, <1>6, <1>10 DEF Fifo!Call

\* What the abstract queue does not notice.
LEMMA UnseenStep ==
  ASSUME WindowsFit, FInv, FInv', NEW c \in Consumers, OnlyCaller(c), UNCHANGED <<tailIndex, ppc>>,
         headIndex' = headIndex, owed' = owed, Holding(c)' = Holding(c), Asking(c)' = Asking(c)
  PROVE  UNCHANGED Fifo!fifoVars
<1>1. /\ InHand[c] = Holding(c) /\ Wanted[c] = Asking(c)
      /\ InHand' = [InHand EXCEPT ![c] = Holding(c)']
      /\ Wanted' = [Wanted EXCEPT ![c] = Asking(c)']
      /\ Contents' = Contents
  BY CallerMapped
<1>2. InHand' = InHand
  BY <1>1 DEF InHand
<1>3. Wanted' = Wanted
  BY <1>1 DEF Wanted
<1> QED
  BY <1>1, <1>2, <1>3 DEF Fifo!fifoVars

LEMMA ReturnRefines ==
  ASSUME WindowsFit, FInv, FInv', NEW c \in Consumers, OnlyCaller(c), UNCHANGED <<tailIndex, ppc>>,
         GoesOn(c)
  PROVE  Fifo!Return(c) \/ UNCHANGED Fifo!fifoVars
<1> HIDE DEF Numbers
<1>1. ClaimsOK /\ ClaimOK(c)
  BY QueueFacts DEF ClaimsOK
<1>2. cpc[c] \in ClaimedPcs /\ UNCHANGED <<headIndex, owed>>
  BY DEF GoesOn, counters
<1>3. Asking(c) = 0
  BY <1>2 DEF Asking, ClaimedPcs, LookupPcs, Unsettled
<1>4. CASE cpc'[c] \in LookupPcs /\ First(c)' = First(c) /\ call'[c].count = call[c].count
  <2>1. Asking(c)' = 0
    BY <1>4 DEF Asking, LookupPcs, Unsettled
  <2>2. Holding(c)' = Holding(c)
    BY <1>2, <1>4 DEF Holding, ClaimedPcs, Element
  <2>3. UNCHANGED Fifo!fifoVars
    BY <1>2, <1>3, <2>1, <2>2, UnseenStep
  <2> QED
    BY <2>3
<1>5. CASE cpc'[c] = "idle"
  <2>1. Asking(c)' = 0 /\ Holding(c)' = << >>
    BY <1>5 DEF Asking, Holding, ClaimedPcs, LookupPcs, Unsettled
  <2>2. /\ InHand[c] = Holding(c) /\ Wanted[c] = Asking(c)
        /\ InHand' = [InHand EXCEPT ![c] = Holding(c)']
        /\ Wanted' = [Wanted EXCEPT ![c] = Asking(c)']
        /\ Contents' = Contents
    BY <1>2, CallerMapped
  <2>3. Wanted' = Wanted
    BY <1>3, <2>1, <2>2 DEF Wanted
  <2>4. Holding(c) # << >>
    <3>1. PICK n \in Nat \ {0} : n = call[c].count
      <4>1. call[c].count \in Nat
        BY <1>1, <1>2 DEF ClaimOK
      <4>2. call[c].count # 0
        <5>1. PICK f : f = First(c)
          OBVIOUS
        <5>2. At(c) \in f .. (f + call[c].count) - 1
          BY <1>1, <1>2, <5>1 DEF ClaimOK, Until
        <5>3. f \in Int
          <6>1. call[c].index \in Index
            BY <1>1, <1>2 DEF ClaimOK
          <6>2. cpc[c] # "claimed" => call[c].first \in Index
            BY <1>1, <1>2 DEF ClaimOK, ClaimedPcs
          <6>3. f \in Index
            BY <1>2, <5>1, <6>1, <6>2, NumberValue DEF First, At
          <6> QED
            BY <6>3, HalfRange DEF Index
        <5> QED
          BY <5>2, <5>3
      <4> QED
        BY <4>1, <4>2
    <3>2. Holding(c) = [k \in 1 .. n |-> Element(First(c) + (k - 1))]
      BY <1>2, <3>1 DEF Holding
    <3>3. 1 \in DOMAIN Holding(c)
      BY <3>1, <3>2
    <3> QED
      BY <3>3
  <2> HIDE DEF Contents, Wanted, InHand
  <2> QED
    BY <1>2, <1>3, <2>1, <2>2, <2>3, <2>4 DEF Fifo!Return
<1> QED
  BY <1>4, <1>5 DEF GoesOn
LEMMA SharingRefines ==
  ASSUME WindowsFit, FInv, FInv', NEW c \in Consumers, OnlyCaller(c), UNCHANGED <<tailIndex, ppc>>,
         Sharing(c)
  PROVE  (\E n \in 0 .. MaxBulk : Fifo!Take(c, n)) \/ UNCHANGED Fifo!fifoVars
<1> HIDE DEF Numbers
<1>1. /\ ShareInv /\ OwedOK
      /\ Filled \in Nat /\ Emptied \in Nat /\ Emptied <= Filled /\ Filled - Emptied \in Nat
      /\ Filled < Numbers
  BY QueueFacts
<1>2. /\ DOMAIN cpc = Consumers /\ DOMAIN call = Consumers /\ DOMAIN owed = Consumers
      /\ MaxBulk \in Nat
  BY <1>1, HalfRange DEF ShareInv, ShareTyped, OwedOK
<1>3. c \in Unsettled /\ call[c] \in Calls /\ call[c].max \in 1 .. MaxBulk
  <2>1. c \in Unsettled
    BY DEF Sharing, LoadOvercommit, Examine, Promise, Reload, GiveBack, Claim, Unsettled
  <2>2. call[c] \in Calls
    BY <1>1, <2>1 DEF ShareInv, ShareTyped
  <2> QED
    BY <2>1, <2>2 DEF Calls
<1>4. Holding(c) = << >> /\ Asking(c) = call[c].max
  BY <1>3 DEF Holding, Asking, ClaimedPcs, LookupPcs, Unsettled
<1>5. ASSUME headIndex' = headIndex, owed' = owed, c \in Unsettled', call'[c].max = call[c].max
      PROVE  UNCHANGED Fifo!fifoVars
  <2>1. Holding(c)' = << >> /\ Asking(c)' = call[c].max
    BY <1>5 DEF Holding, Asking, ClaimedPcs, LookupPcs, Unsettled
  <2> QED
    BY <1>4, <1>5, <2>1, UnseenStep
<1>6. ASSUME headIndex' = headIndex, owed' = [owed EXCEPT ![c] = 0], owed[c] = 0,
             cpc'[c] = "idle"
      PROVE  Fifo!Take(c, 0)
  <2>1. c \notin Unsettled'
    BY <1>6 DEF Unsettled
  <2>2. Holding(c)' = << >>
    BY <1>6 DEF Holding, ClaimedPcs, LookupPcs
  <2>3. PICK e \in Nat, m \in Nat : e = Emptied /\ m = Filled - Emptied
    BY <1>1
  <2>4. Emptied' = Emptied + 0
    <3>1. Emptied' = e
      BY <1>6, <2>3 DEF Emptied
    <3> QED
      BY <2>3, <3>1
  <2>5. Holding(c)' = [k \in 1 .. 0 |-> Element(Emptied + (k - 1))]
    <3>1. 1 .. 0 = {}
      OBVIOUS
    <3> QED
      BY <2>2, <3>1
  <2>6. 0 \in 0 .. MaxBulk /\ owed[c] <= 0 /\ 0 <= call[c].max /\ 0 <= Filled - Emptied
    BY <1>1, <1>2, <1>3, <1>6
  <2> QED
    BY <1>3, <1>6, <2>1, <2>4, <2>5, <2>6, TakeStep
<1>7. CASE LoadOvercommit(c)
  <2>1. /\ headIndex' = headIndex /\ owed' = owed /\ cpc'[c] = "examine"
        /\ call'[c].max = call[c].max
    BY <1>2, <1>3, <1>7 DEF LoadOvercommit, ConsumerGoto, counters, Calls
  <2> QED
    BY <1>5, <2>1 DEF Unsettled
<1>8. CASE Promise(c)
  <2>1. /\ headIndex' = headIndex /\ owed' = owed /\ cpc'[c] = "reload"
        /\ call'[c].max = call[c].max
    BY <1>2, <1>3, <1>8 DEF Promise, ConsumerGoto, Calls
  <2> QED
    BY <1>5, <2>1 DEF Unsettled
<1>9. CASE Reload(c)
  <2>1. /\ headIndex' = headIndex /\ owed' = owed /\ cpc'[c] \in {"giveBack", "claim"}
        /\ call'[c].max = call[c].max
    BY <1>2, <1>3, <1>9 DEF Reload, ConsumerGoto, counters, Calls
  <2> QED
    BY <1>5, <2>1 DEF Unsettled
<1>10. CASE Examine(c)
  <2>1. /\ headIndex' = headIndex
        /\ \/ /\ owed' = owed /\ cpc'[c] = "promise" /\ call'[c].max = call[c].max
           \/ owed' = [owed EXCEPT ![c] = 0] /\ cpc'[c] = "idle"
    BY <1>2, <1>3, <1>10 DEF Examine, ReturnFrom, ConsumerGoto, counters, Calls
  <2>2. CASE cpc'[c] = "promise"
    BY <1>5, <2>1, <2>2 DEF Unsettled
  <2>3. CASE cpc'[c] = "idle"
    <3>1. owed[c] = 0
      BY <1>1, <1>10, <2>3, ExamineOwed
    <3>2. Fifo!Take(c, 0)
      BY <1>6, <2>1, <2>3, <3>1
    <3> QED
      BY <1>2, <3>2
  <2> QED
    BY <2>1, <2>2, <2>3
<1>11. CASE GiveBack(c)
  <2>1. /\ headIndex' = headIndex
        /\ \/ /\ owed' = owed /\ cpc'[c] = "claim" /\ call'[c].max = call[c].max
           \/ owed' = [owed EXCEPT ![c] = 0] /\ cpc'[c] = "idle"
    BY <1>2, <1>3, <1>11 DEF GiveBack, ReturnFrom, ConsumerGoto, Calls
  <2>2. CASE cpc'[c] = "claim"
    BY <1>5, <2>1, <2>2 DEF Unsettled
  <2>3. CASE cpc'[c] = "idle"
    <3>1. owed[c] = 0
      BY <1>1, <1>11, <2>3, GiveBackOwed
    <3>2. Fifo!Take(c, 0)
      BY <1>6, <2>1, <2>3, <3>1
    <3> QED
      BY <1>2, <3>2
  <2> QED
    BY <2>1, <2>2, <2>3
<1>12. CASE Claim(c)
  <2>1. /\ call[c].count \in 1 .. call[c].max /\ owed[c] <= call[c].count
        /\ call[c].count <= Filled - Emptied
    BY <1>1, <1>12, ClaimOwed
  <2>2. PICK n \in 0 .. MaxBulk : n = call[c].count /\ n \in Nat /\ n <= call[c].max
    <3>1. call[c].max \in Nat /\ call[c].max <= MaxBulk
      BY <1>2, <1>3
    <3>2. call[c].count \in Nat /\ call[c].count <= call[c].max
      BY <2>1, <3>1
    <3> QED
      BY <1>2, <3>1, <3>2
  <2>3. /\ cpc'[c] = "claimed" /\ call'[c].count = n /\ call'[c].index = headIndex
        /\ owed' = [owed EXCEPT ![c] = 0] /\ headIndex' = Plus(headIndex, n)
    BY <1>2, <1>12, <2>2 DEF Claim, ConsumerGoto, NoCall
  <2>4. c \notin Unsettled'
    BY <2>3 DEF Unsettled
  <2>5. Emptied' = Emptied + n
    <3>1. Emptied + n < Numbers
      BY <1>1, <2>1, <2>2, HalfRange
    <3>2. headIndex \in Index /\ StartIndex \in Index
      BY <1>1, HalfRange DEF ShareInv, ShareTyped
    <3> QED
      BY <2>2, <2>3, <3>1, <3>2, Advanced DEF Emptied
  <2>6. First(c)' = Emptied
    BY <2>3 DEF First, At, Number, Emptied
  <2>7. Holding(c)' = [k \in 1 .. n |-> Element(Emptied + (k - 1))]
    <3>1. PICK e : e = Emptied
      OBVIOUS
    <3>2. Holding(c)' = [k \in 1 .. n |-> Element(e + (k - 1))]
      BY <2>3, <2>6, <3>1 DEF Holding, ClaimedPcs, Element
    <3> QED
      BY <3>1, <3>2
  <2>8. Fifo!Take(c, n)
    BY <1>3, <2>1, <2>2, <2>3, <2>4, <2>5, <2>7, TakeStep
  <2> QED
    BY <2>8
<1> QED
  BY <1>7, <1>8, <1>9, <1>10, <1>11, <1>12 DEF Sharing
LEMMA CommitRefines ==
  ASSUME WindowsFit, FInv, FInv', UNCHANGED claimVars, Commit
  PROVE  \E n \in 1 .. MaxBulk : Fifo!EnqueueBatch(n)
<1> HIDE DEF Numbers
<1>1. /\ ShareIInv /\ Filled \in Nat /\ Emptied \in Nat /\ Emptied <= Filled
  BY QueueFacts
<1>2. ppc = "commit" /\ ppc' = "idle" /\ tailIndex' = Plus(tailIndex, enq.count)
  BY DEF Commit, EndCall, ProducerGoto
<1>3. /\ Filled + enq.count < Numbers /\ Filled' = Filled + enq.count
      /\ enq.count \in Nat \ {0} /\ enq.count <= MaxBulk /\ MaxBulk \in Nat
  <2>1. enq.count # 0
    BY <1>2 DEF FInv, CInv, HeldOK, CountOK
  <2>2. enq.count <= MaxBulk
    BY DEF FInv, CallsOK
  <2> QED
    BY <1>1, <2>1, <2>2, FilledBy, HalfRange
<1>4. PICK n \in 1 .. MaxBulk : n = enq.count /\ n \in Nat
  BY <1>3
<1>5. PICK e \in Nat, f \in Nat, p \in Nat :
        e = Emptied /\ f = Filled /\ p = f - e /\ e + p = f /\ Filled' = f + n
        /\ (f + n) - e = p + n /\ f + n < Numbers
  <2>1. PICK e \in Nat, f \in Nat : e = Emptied /\ f = Filled /\ e <= f
    BY <1>1
  <2>2. f - e \in Nat /\ e + (f - e) = f /\ (f + n) - e = (f - e) + n
    BY <1>4, <2>1
  <2> QED
    BY <1>3, <1>4, <2>1, <2>2
<1>6. PICK F : F = [k \in 1 .. p + n |-> Element(e + (k - 1))]
  OBVIOUS
<1>7. Contents = [k \in 1 .. p |-> F[k]]
  <2>1. Contents = [k \in 1 .. p |-> Element(e + (k - 1))]
    BY <1>2, <1>5, MappedAll DEF Queue
  <2>2. \A k \in 1 .. p : k \in 1 .. p + n
    BY <1>4
  <2> QED
    BY <1>6, <2>1, <2>2
<1>8. Contents' = [k \in 1 .. p + n |-> F[k]]
  <2>1. Emptied' = e
    BY <1>5 DEF claimVars, counters, Emptied
  <2>2. Queue' = [k \in 1 .. (f + n) - e |-> Element(e + (k - 1))]
    BY <1>2, <1>5, <2>1 DEF Queue, Element
  <2>3. Contents' = [k \in 1 .. p + n |-> Element(e + (k - 1))]
    BY <1>5, <2>2, MappedNext
  <2> QED
    BY <1>6, <2>3
<1>9. PICK v : v = [i \in 1 .. n |-> (tailIndex + i - 1) % Numbers]
  OBVIOUS
<1>10. v = [k \in 1 .. n |-> F[p + k]]
  <2>1. ASSUME NEW k \in 1 .. n PROVE (tailIndex + k - 1) % Numbers = F[p + k]
    <3>1. PICK j \in Nat : j = k - 1 /\ p + k \in 1 .. p + n /\ e + ((p + k) - 1) = f + j
                           /\ f + j < Numbers
      <4>1. k - 1 \in Nat /\ p + k \in 1 .. p + n /\ e + ((p + k) - 1) = f + (k - 1)
        BY <1>4, <1>5
      <4>2. f + (k - 1) < Numbers
        BY <1>4, <1>5, HalfRange
      <4> QED
        BY <4>1, <4>2
    <3>2. tailIndex \in Index /\ Number(tailIndex) = f
      BY <1>1, <1>5 DEF ShareIInv, ShareInv, ShareTyped, Number, Filled
    <3>3. Plus(tailIndex, j) = Element(f + j)
      BY <3>1, <3>2, PlusElement
    <3>4. tailIndex + k - 1 = tailIndex + j
      BY <3>1, <3>2, HalfRange DEF Index
    <3> QED
      BY <1>6, <3>1, <3>3, <3>4 DEF Plus
  <2> QED
    BY <1>9, <2>1
<1>11. Contents' = Contents \o v
  BY <1>4, <1>7, <1>8, <1>10, Joined
<1>12. UNCHANGED <<cpc, call, owed>>
  BY DEF claimVars
<1>13. Wanted' = Wanted
  BY <1>12 DEF Wanted, Unsettled
<1>14. InHand' = InHand
  <2>1. \A c \in Consumers : Holding(c)' = Holding(c)
    BY <1>12 DEF Holding, First, At, Number, Element
  <2> QED
    BY <2>1, MappedAll, MappedNext
<1> HIDE DEF Contents, Wanted, InHand
<1>15. Fifo!EnqueueBatch(n)
  BY <1>2, <1>4, <1>9, <1>11, <1>12, <1>13, <1>14 DEF Fifo!EnqueueBatch, Plus
<1> QED
  BY <1>15

LEMMA DiscardRefines ==
  ASSUME WindowsFit, FInv, FInv', UNCHANGED claimVars, Destroy
  PROVE  Fifo!Discard
<1>1. /\ \A c \in Consumers : cpc[c] = "idle"
      /\ ppc' = "destroyed" /\ UNCHANGED <<tailIndex, cpc, call, owed>>
  BY DEF Destroy, ProducerGoto, claimVars
<1>2. \A c \in Consumers : InHand[c] = << >> /\ Wanted[c] = 0
  BY <1>1 DEF InHand, Wanted, Unsettled
<1>3. InHand' = InHand
  BY <1>1 DEF InHand, Unsettled
<1>4. Wanted' = Wanted
  BY <1>1 DEF Wanted, Unsettled
<1>5. Contents' = << >>
  BY <1>1 DEF Contents
<1> HIDE DEF Contents, Wanted, InHand
<1> QED
  BY <1>1, <1>2, <1>3, <1>4, <1>5 DEF Fifo!Discard

LEMMA ProducerUnseen ==
  ASSUME WindowsFit, FInv, FInv', UNCHANGED claimVars, tailIndex' = tailIndex,
         ppc = "destroyed" <=> ppc' = "destroyed"
  PROVE  UNCHANGED Fifo!fifoVars
<1>1. UNCHANGED <<headIndex, cpc, call, owed>>
  BY DEF claimVars, counters
<1>2. Contents' = Contents
  <2>1. Queue' = Queue
    BY <1>1 DEF Queue, Filled, Emptied, Element
  <2> QED
    BY <2>1, MappedAll, MappedNext
<1>3. Wanted' = Wanted
  BY <1>1 DEF Wanted, Unsettled
<1>4. InHand' = InHand
  <2>1. \A c \in Consumers : Holding(c)' = Holding(c)
    BY <1>1 DEF Holding, First, At, Number, Element
  <2> QED
    BY <2>1, MappedAll, MappedNext
<1> QED
  BY <1>1, <1>2, <1>3, <1>4 DEF Fifo!fifoVars

LEMMA FifoInitRefines ==
  ASSUME WindowsFit, Init
  PROVE  Fifo!FifoInit
<1> HIDE DEF Numbers
<1>1. /\ tailIndex = StartIndex /\ headIndex = StartIndex /\ ppc = "idle"
      /\ \A c \in Consumers : cpc[c] = "idle"
      /\ owed = [c \in Consumers |-> 0]
  BY DEF Init, ClaimInit
<1>2. Contents = << >>
  <2>1. Minus(tailIndex, headIndex) = 0
    <3>1. StartIndex \in Index
      BY HalfRange
    <3>2. StartIndex - StartIndex = 0 /\ StartIndex >= StartIndex
      BY <3>1, HalfRange DEF Index
    <3>3. Minus(StartIndex, StartIndex) = 0
      BY <3>1, <3>2, MinusValue
    <3> QED
      BY <1>1, <3>3
  <2>2. 1 .. 0 = {}
    OBVIOUS
  <2> QED
    BY <1>1, <2>1, <2>2 DEF Contents
<1>3. Wanted = [c \in Consumers |-> 0]
  BY <1>1 DEF Wanted, Unsettled
<1>4. InHand = [c \in Consumers |-> << >>]
  BY <1>1 DEF InHand
<1> HIDE DEF Contents, Wanted, InHand
<1> QED
  BY <1>1, <1>2, <1>3, <1>4 DEF Fifo!FifoInit

\* Each step of the sub-queue is one of the abstract queue, or none.
LEMMA NextRefines ==
  ASSUME WindowsFit, FInv, FInv', [Next]_vars
  PROVE  [Fifo!FifoNext]_(Fifo!fifoVars)
<1> HIDE DEF Numbers
<1>1. ShareIInv /\ ShareInv /\ ClaimsOK /\ CallsOK
  BY QueueFacts DEF FInv
<1>2. CASE Enqueue \/ Destroy
  <2>1. /\ UNCHANGED claimVars
        /\ \/ Destroy
           \/ Commit
           \/ tailIndex' = tailIndex /\ ppc # "destroyed" /\ ppc' # "destroyed"
    BY <1>1, <1>2, EnqueueEffect
  <2>2. CASE Destroy
    BY <2>1, <2>2, DiscardRefines DEF Fifo!FifoNext
  <2>3. CASE Commit
    BY <2>1, <2>3, CommitRefines DEF Fifo!FifoNext
  <2>4. CASE tailIndex' = tailIndex /\ ppc # "destroyed" /\ ppc' # "destroyed"
    BY <2>1, <2>4, ProducerUnseen
  <2> QED
    BY <2>1, <2>2, <2>3, <2>4
<1>3. ASSUME NEW c \in Consumers, Dequeue(c)
      PROVE  [Fifo!FifoNext]_(Fifo!fifoVars)
  <2>1. /\ OnlyCaller(c) /\ UNCHANGED <<tailIndex, ppc>>
        /\ \/ \E max \in 1 .. MaxBulk : BeginDequeue(c, max) /\ ppc # "destroyed"
           \/ Sharing(c)
           \/ GoesOn(c)
    BY <1>1, <1>3, DequeueEffect
  <2>2. ASSUME NEW max \in 1 .. MaxBulk, BeginDequeue(c, max), ppc # "destroyed"
        PROVE  [Fifo!FifoNext]_(Fifo!fifoVars)
    <3>1. Fifo!Call(c, max)
      BY <2>1, <2>2, BeginRefines
    <3> QED
      BY <3>1 DEF Fifo!FifoNext
  <2>3. CASE Sharing(c)
    <3>1. (\E n \in 0 .. MaxBulk : Fifo!Take(c, n)) \/ UNCHANGED Fifo!fifoVars
      BY <2>1, <2>3, SharingRefines
    <3> QED
      BY <3>1 DEF Fifo!FifoNext
  <2>4. CASE GoesOn(c)
    <3>1. Fifo!Return(c) \/ UNCHANGED Fifo!fifoVars
      BY <2>1, <2>4, ReturnRefines
    <3> QED
      BY <3>1 DEF Fifo!FifoNext
  <2> QED
    BY <2>1, <2>2, <2>3, <2>4
<1>4. CASE UNCHANGED vars
  <2>1. UNCHANGED claimVars /\ tailIndex' = tailIndex /\ ppc' = ppc
    BY <1>4 DEF vars, producerVars
  <2> QED
    BY <2>1, ProducerUnseen
<1> QED
  BY <1>2, <1>3, <1>4 DEF Next

\* A sub-queue of the concurrent queue is a first-in, first-out queue, for any number of
\* consumers, blocks and elements: every element is dequeued once and in the order of the
\* enqueues, and a dequeue that overlaps no other gets all it asks for or all there are.
THEOREM IsAQueue ==
  ASSUME WindowsFit
  PROVE  Spec => FifoSpec
<1> HIDE DEF Numbers
<1>1. Init => Fifo!FifoInit
  BY FifoInitRefines
<1>2. FInv /\ FInv' /\ [Next]_vars => [Fifo!FifoNext]_(Fifo!fifoVars)
  BY NextRefines
<1>3. Spec => []FInv
  BY FifoInvariance
<1> QED
  BY <1>1, <1>2, <1>3, PTL DEF Spec, FifoSpec, Fifo!FifoSpec
==============================================================================
