--------------------------- MODULE ImplicitProducer ---------------------------
(***************************************************************************)
(* ConcurrentQueue::ImplicitProducer: the sub-queue of a thread that       *)
(* enqueues without a token.  Its thread enqueues single elements and      *)
(* batches into blocks that a growing, circular block index lists; any     *)
(* consumer dequeues, and the one that empties a block frees it.           *)
(*                                                                         *)
(* The pool of blocks is the set of free ones; a requisition may fail at   *)
(* any time (no block left and no memory, or allocation not allowed).      *)
(* What is constructed is an element's number.                             *)
(***************************************************************************)
EXTENDS ProducerBase

CONSTANTS
  Blocks,             \* the blocks the pool can provide
  NoBlock,
  InitialIndexSize,   \* IMPLICIT_INITIAL_INDEX_SIZE
  MaxIndexSize,       \* bounds the block indices that malloc provides
  MaxSubqueueSize,    \* MAX_SUBQUEUE_SIZE; Numbers: not limited
  MallocFailsFirst,   \* the first block index may not be allocated
  Throws              \* constructing an element may throw

ASSUME ImplicitAssumption ==
  /\ NoBlock \notin Blocks
  /\ InitialIndexSize \in Nat \ {0} /\ MaxIndexSize \in Nat
  /\ InitialIndexSize <= MaxIndexSize
  /\ MaxSubqueueSize \in Nat
  /\ MallocFailsFirst \in BOOLEAN /\ Throws \in BOOLEAN

VARIABLES
  freeBlocks,   \* the block pool
  cell,         \* the elements of each block; Vacant where none is constructed
  dequeued,     \* elementsCompletelyDequeued
  headers,      \* the BlockIndexHeaders; blockIndex is the last, none: nullptr
  key, value,   \* the BlockIndexEntrys
  tailBlock,
  ppc,          \* where the producer's thread is
  enq           \* the locals of its call

storage == <<freeBlocks, cell, dequeued>>
indexVars == <<headers, key, value>>
producerVars == <<tailBlock, ppc, enq>>
vars == <<tailIndex, claimVars, storage, indexVars, producerVars>>

InvalidBlockBase == 1
Entries == 0 .. MaxIndexSize - 1

\* A header with the entries in the order of their slots.
Header(tail, entries) == [tail |-> tail, index |-> entries]
Capacity(h) == Cardinality(DOMAIN h.index)
NextSlot(h) == (h.tail + 1) % Capacity(h)
PrevSlot(h) == (h.tail - 1) % Capacity(h)
Last == headers[Len(headers)]
SetTail(t) == headers' = [headers EXCEPT ![Len(headers)].tail = t]

\* get_block_index_index_for_index
SlotFor(h, tail, tailBase, i) == (tail + BlockOffset(tailBase, i)) % Capacity(h)

EntryFor(i) == Last.index[SlotFor(Last, Last.tail, key[Last.index[Last.tail]], i)]
BlockFor(i) == value[EntryFor(i)]

NoEnqueue == [count |-> 0, bulk |-> FALSE, base |-> 0, entry |-> 0,
              fresh |-> NoBlock, chain |-> << >>]

ProducerGoto(l) == ppc' = l
EndCall == ProducerGoto("idle") /\ enq' = NoEnqueue

Init ==
  /\ ClaimInit
  /\ freeBlocks = Blocks
  /\ cell = [b \in Blocks |-> [i \in Slots |-> Vacant]]
  /\ dequeued = [b \in Blocks |-> 0]
  /\ headers \in {<<Header(InitialIndexSize - 1,
                           [i \in 0 .. InitialIndexSize - 1 |-> i])>>}
                 \cup (IF MallocFailsFirst THEN {<< >>} ELSE {})
  /\ key = [e \in Entries |-> InvalidBlockBase]
  /\ value = [e \in Entries |-> NoBlock]
  /\ tailBlock = NoBlock
  /\ ppc = "idle"
  /\ enq = NoEnqueue

------------------------------------------------------------------------------
(* enqueue and enqueue_bulk                                                *)

\* enqueue (count = 1) or enqueue_bulk: one block is prepared after the other,
\* until the last element has a place.
BeginEnqueue(count, bulk) ==
  LET first == Base(Minus(tailIndex, 1))
      last == Base(Plus(tailIndex, count - 1))
  IN /\ ppc = "idle"
     /\ bulk \/ count = 1
     /\ Minus(tailIndex, StartIndex) + count <= MaxEnqueued
     /\ enq' = [NoEnqueue EXCEPT !.count = count, !.bulk = bulk,
                                 !.base = Plus(first, BlockSize)]
     /\ ProducerGoto(IF first = last THEN "construct" ELSE "room")
     /\ UNCHANGED <<tailIndex, claimVars, storage, indexVars, tailBlock>>

Full(base) ==
  \/ ~Less(headIndex, Plus(base, BlockSize))
  \/ /\ MaxSubqueueSize < Numbers
     /\ MaxSubqueueSize = 0 \/ MaxSubqueueSize - BlockSize < Minus(base, headIndex)

CheckRoom ==
  /\ ppc = "room"
  /\ ProducerGoto(IF Full(enq.base) THEN "undo" ELSE "slot")
  /\ UNCHANGED <<tailIndex, claimVars, storage, indexVars, tailBlock, enq>>

\* insert_block_index_entry looks at the slot after the tail.
FindSlot ==
  /\ ppc = "slot"
  /\ headers # << >>
  /\ LET e == Last.index[NextSlot(Last)]
     IN /\ enq' = [enq EXCEPT !.entry = e]
        /\ ProducerGoto(IF key[e] = InvalidBlockBase \/ value[e] = NoBlock THEN "key"
                        ELSE "grow")
  /\ UNCHANGED <<tailIndex, claimVars, storage, indexVars, tailBlock>>

\* new_block_index: twice the slots; the old entries come first, oldest first.
Grow ==
  /\ ppc = "grow" /\ 2 * Capacity(Last) <= MaxIndexSize
  /\ LET n == Capacity(Last)
     IN /\ headers' = Append(headers, Header(n - 1, [i \in 0 .. 2 * n - 1 |->
             IF i < n THEN Last.index[(Last.tail + 1 + i) % n] ELSE i]))
        /\ enq' = [enq EXCEPT !.entry = n]
  /\ ProducerGoto("key")
  /\ UNCHANGED <<tailIndex, claimVars, storage, key, value, tailBlock>>

\* No memory, or CannotAlloc.
CannotGrow ==
  /\ ppc = "grow"
  /\ ProducerGoto("undo")
  /\ UNCHANGED <<tailIndex, claimVars, storage, indexVars, tailBlock, enq>>

StoreKey ==
  /\ ppc = "key"
  /\ key' = [key EXCEPT ![enq.entry] = enq.base]
  /\ ProducerGoto("indexTail")
  /\ UNCHANGED <<tailIndex, claimVars, storage, headers, value, tailBlock, enq>>

StoreIndexTail ==
  /\ ppc = "indexTail"
  /\ SetTail(NextSlot(Last))
  /\ ProducerGoto("requisition")
  /\ UNCHANGED <<tailIndex, claimVars, storage, key, value, tailBlock, enq>>

\* requisition_block, then reset_empty on the block nobody else knows.
Requisition ==
  /\ ppc = "requisition"
  /\ \E b \in freeBlocks :
       /\ freeBlocks' = freeBlocks \ {b}
       /\ dequeued' = [dequeued EXCEPT ![b] = 0]
       /\ enq' = [enq EXCEPT !.fresh = b]
  /\ ProducerGoto("value")
  /\ UNCHANGED <<tailIndex, claimVars, cell, indexVars, tailBlock>>

NoRequisition ==
  /\ ppc = "requisition"
  /\ ProducerGoto("rewind")
  /\ UNCHANGED <<tailIndex, claimVars, storage, indexVars, tailBlock, enq>>

\* A single enqueue of a type that may throw constructs before it publishes.
ThrowUnpublished ==
  /\ ppc = "value" /\ Throws /\ ~enq.bulk
  /\ ProducerGoto("rewind")
  /\ UNCHANGED <<tailIndex, claimVars, storage, indexVars, tailBlock, enq>>

StoreValue ==
  /\ ppc = "value"
  /\ value' = [value EXCEPT ![enq.entry] = enq.fresh]
  /\ LET more == enq.base # Base(Plus(tailIndex, enq.count - 1))
     IN /\ enq' = [enq EXCEPT !.chain = Append(@, enq.fresh), !.fresh = NoBlock,
                              !.base = IF more THEN Plus(@, BlockSize) ELSE @]
        /\ ProducerGoto(IF more THEN "room" ELSE "construct")
  /\ UNCHANGED <<tailIndex, claimVars, storage, headers, key, tailBlock>>

\* The blocks of the batch, in order: the rest of the tail block comes first.
Targets == (IF Slot(tailIndex) = 0 THEN << >> ELSE <<tailBlock>>) \o enq.chain
TargetOf(i) == Targets[(Minus(i, Base(tailIndex)) \div BlockSize) + 1]
Batch == {Plus(tailIndex, k) : k \in 0 .. enq.count - 1}

Construct ==
  /\ ppc = "construct"
  /\ cell' = [b \in Blocks |-> [s \in Slots |->
       LET here == {i \in Batch : TargetOf(i) = b /\ Slot(i) = s}
       IN IF here = {} THEN cell[b][s] ELSE CHOOSE i \in here : TRUE]]
  /\ tailBlock' = Targets[Len(Targets)]
  /\ ProducerGoto("commit")
  /\ UNCHANGED <<tailIndex, claimVars, freeBlocks, dequeued, indexVars, enq>>

\* What had been constructed is destroyed again, and the blocks go back.  (A single
\* enqueue that has prepared a block has already constructed its element.)
ThrowInBatch ==
  /\ ppc = "construct" /\ Throws
  /\ enq.bulk \/ enq.chain = << >>
  /\ ProducerGoto("undo")
  /\ UNCHANGED <<tailIndex, claimVars, storage, indexVars, tailBlock, enq>>

Commit ==
  /\ ppc = "commit"
  /\ tailIndex' = Plus(tailIndex, enq.count)
  /\ EndCall
  /\ UNCHANGED <<claimVars, storage, indexVars, tailBlock>>

------------------------------------------------------------------------------
(* Taking back what a failed enqueue has prepared                          *)

RewindTail ==
  /\ ppc = "rewind"
  /\ SetTail(PrevSlot(Last))
  /\ ProducerGoto("clear")
  /\ UNCHANGED <<tailIndex, claimVars, storage, key, value, tailBlock, enq>>

ClearValue ==
  /\ ppc = "clear"
  /\ value' = [value EXCEPT ![enq.entry] = NoBlock]
  /\ ProducerGoto("undo")
  /\ UNCHANGED <<tailIndex, claimVars, storage, headers, key, tailBlock, enq>>

Prepared == {enq.chain[i] : i \in DOMAIN enq.chain} \cup ({enq.fresh} \ {NoBlock})

\* The blocks of the chain leave the index, first to last; then all go back to
\* the pool.  base counts the blocks that have left.
Undo ==
  /\ ppc = "undo"
  /\ IF enq.chain = << >>
       THEN freeBlocks' = freeBlocks \cup Prepared /\ EndCall
       ELSE /\ enq' = [enq EXCEPT !.base = Plus(Base(Minus(tailIndex, 1)), BlockSize)]
            /\ ProducerGoto("unlink")
            /\ freeBlocks' = freeBlocks
  /\ UNCHANGED <<tailIndex, claimVars, cell, dequeued, indexVars, tailBlock>>

Unlink ==
  /\ ppc = "unlink"
  /\ value' = [value EXCEPT ![EntryFor(enq.base)] = NoBlock]
  /\ ProducerGoto("unwind")
  /\ UNCHANGED <<tailIndex, claimVars, storage, headers, key, tailBlock, enq>>

Unwind ==
  /\ ppc = "unwind"
  /\ SetTail(PrevSlot(Last))
  /\ LET gone == Minus(enq.base, Base(Minus(tailIndex, 1))) \div BlockSize
     IN IF gone = Len(enq.chain)
        THEN freeBlocks' = freeBlocks \cup Prepared /\ EndCall
        ELSE /\ enq' = [enq EXCEPT !.base = Plus(@, BlockSize)]
             /\ ProducerGoto("unlink")
             /\ freeBlocks' = freeBlocks
  /\ UNCHANGED <<tailIndex, claimVars, cell, dequeued, key, value, tailBlock>>

------------------------------------------------------------------------------
(* dequeue and dequeue_bulk, once the elements are claimed                 *)

\* The locals of a consumer that has claimed: header, slotTail, slot, block and
\* what it has moved out.
LoadHeader(c) ==
  /\ cpc[c] = "claimed"
  /\ call' = [call EXCEPT ![c] =
       [count |-> @.count, index |-> @.index, header |-> Len(headers), slot |-> 0,
        first |-> @.index, block |-> NoBlock, got |-> << >>]]
  /\ ConsumerGoto(c, "slotTail")
  /\ UNCHANGED <<tailIndex, counters, owed, storage, indexVars, producerVars>>

LoadSlotTail(c) ==
  /\ cpc[c] = "slotTail"
  /\ call' = [call EXCEPT ![c].slot = headers[call[c].header].tail]
  /\ ConsumerGoto(c, "slotKey")
  /\ UNCHANGED <<tailIndex, counters, owed, storage, indexVars, producerVars>>

\* Mutant of LoadSlotKey: the offset is not computed from the tail's key.
LoadNoKey(c) ==
  /\ cpc[c] = "slotKey"
  /\ LET h == headers[call[c].header]
     IN call' = [call EXCEPT ![c].slot = (call[c].index \div BlockSize) % Capacity(h)]
  /\ ConsumerGoto(c, "entry")
  /\ UNCHANGED <<tailIndex, counters, owed, storage, indexVars, producerVars>>

LoadSlotKey(c) ==
  /\ cpc[c] = "slotKey"
  /\ LET h == headers[call[c].header]
         tail == call[c].slot
     IN call' = [call EXCEPT ![c].slot = SlotFor(h, tail, key[h.index[tail]], call[c].index)]
  /\ ConsumerGoto(c, "entry")
  /\ UNCHANGED <<tailIndex, counters, owed, storage, indexVars, producerVars>>

EntryOf(c) == headers[call[c].header].index[call[c].slot]

\* Loads the block, moves elements out of it and destroys them; nobody else has their
\* indices.
Move(c) ==
  /\ cpc[c] = "entry" /\ value[EntryOf(c)] # NoBlock
  /\ LET b == value[EntryOf(c)]
         n == Cardinality(InBlock(c))
     IN /\ call' = [call EXCEPT ![c].block = b, ![c].got =
                      @ \o [k \in 1 .. n |-> cell[b][Slot(call[c].index) + k - 1]]]
        /\ cell' = [cell EXCEPT ![b] = [s \in Slots |->
                      IF \E i \in InBlock(c) : Slot(i) = s THEN Vacant ELSE @[s]]]
  /\ ConsumerGoto(c, "empty")
  /\ UNCHANGED <<tailIndex, counters, owed, freeBlocks, dequeued, indexVars, producerVars>>

\* The block is done with: on to the next block of the batch, or return.
NextBlock(c) ==
  LET n == Cardinality(InBlock(c))
      i == Plus(call[c].index, n)
  IN IF i = Plus(call[c].first, call[c].count)
     THEN ReturnFrom(c)
     ELSE /\ call' = [call EXCEPT ![c].index = i, ![c].block = NoBlock,
                        ![c].slot = (@ + 1) % Capacity(headers[call[c].header])]
          /\ ConsumerGoto(c, "entry")

\* set_empty, set_many_empty
SetEmpty(c) ==
  /\ cpc[c] = "empty"
  /\ LET b == call[c].block
         n == Cardinality(InBlock(c))
     IN /\ dequeued' = [dequeued EXCEPT ![b] = @ + n]
        /\ IF dequeued[b] + n = BlockSize
           THEN ConsumerGoto(c, "unlink") /\ call' = call
           ELSE NextBlock(c)
  /\ UNCHANGED <<tailIndex, counters, owed, freeBlocks, cell, indexVars, producerVars>>

UnlinkBlock(c) ==
  /\ cpc[c] = "unlink"
  /\ value' = [value EXCEPT ![EntryOf(c)] = NoBlock]
  /\ ConsumerGoto(c, "free")
  /\ UNCHANGED <<tailIndex, counters, call, owed, storage, headers, key, producerVars>>

FreeBlock(c) ==
  /\ cpc[c] = "free"
  /\ freeBlocks' = freeBlocks \cup {call[c].block}
  /\ NextBlock(c)
  /\ UNCHANGED <<tailIndex, counters, owed, cell, dequeued, indexVars, producerVars>>

------------------------------------------------------------------------------
(* ~ImplicitProducer, when every call has returned                         *)

Remaining == {Plus(headIndex, k) : k \in 0 .. Minus(tailIndex, headIndex) - 1}

\* Mutant of Destroy: the tail block is freed only if elements are left.
DestroyKeepingTail ==
  /\ ppc = "idle" /\ \A c \in Consumers : cpc[c] = "idle"
  /\ cell' = [b \in Blocks |-> [s \in Slots |->
       IF \E i \in Remaining : BlockFor(i) = b /\ Slot(i) = s THEN Vacant ELSE cell[b][s]]]
  /\ freeBlocks' = freeBlocks \cup {BlockFor(i) : i \in Remaining}
  /\ ProducerGoto("destroyed")
  /\ UNCHANGED <<tailIndex, claimVars, dequeued, indexVars, tailBlock, enq>>

\* Destroys what is left; frees the blocks it leaves behind and the tail block,
\* unless that was emptied to its end by a consumer.
Destroy ==
  /\ ppc = "idle" /\ \A c \in Consumers : cpc[c] = "idle"
  /\ cell' = [b \in Blocks |-> [s \in Slots |->
       IF \E i \in Remaining : BlockFor(i) = b /\ Slot(i) = s THEN Vacant ELSE cell[b][s]]]
  /\ LET last == BlockFor(Minus(tailIndex, 1))
         passed == IF Remaining = {} THEN {} ELSE {BlockFor(i) : i \in Remaining} \ {last}
         tail == IF tailBlock # NoBlock /\ (Remaining # {} \/ Slot(tailIndex) # 0)
                 THEN {tailBlock} ELSE {}
     IN freeBlocks' = freeBlocks \cup passed \cup tail
  /\ ProducerGoto("destroyed")
  /\ UNCHANGED <<tailIndex, claimVars, dequeued, indexVars, tailBlock, enq>>

------------------------------------------------------------------------------
Begin(c) ==
  /\ ppc # "destroyed"
  /\ \E max \in {1, MaxBulk} : BeginDequeue(c, max)
  /\ UNCHANGED <<storage, indexVars, producerVars>>

Share(c) == Sharing(c) /\ UNCHANGED <<storage, indexVars, producerVars>>

Dequeue(c) ==
  \/ Begin(c) \/ Share(c)
  \/ LoadHeader(c) \/ LoadSlotTail(c) \/ LoadSlotKey(c)
  \/ Move(c) \/ SetEmpty(c) \/ UnlinkBlock(c) \/ FreeBlock(c)

InsertIndexEntry ==
  FindSlot \/ Grow \/ CannotGrow \/ StoreKey \/ StoreIndexTail

Revert == RewindTail \/ ClearValue \/ Undo \/ Unlink \/ Unwind

Enqueue ==
  \/ \E n \in {1, MaxBulk} : \E bulk \in BOOLEAN :
       BeginEnqueue(n, bulk)
  \/ CheckRoom \/ InsertIndexEntry \/ Requisition \/ NoRequisition \/ StoreValue
  \/ Construct \/ Commit \/ ThrowUnpublished \/ ThrowInBatch \/ Revert

Next == Enqueue \/ Destroy \/ \E c \in Consumers : Dequeue(c)

Spec == Init /\ [][Next]_vars

------------------------------------------------------------------------------
(* Properties                                                              *)

ProducerPcs == {"idle", "room", "slot", "grow", "key", "indexTail", "requisition", "value",
  "construct", "commit", "rewind", "clear", "undo", "unlink", "unwind", "destroyed"}
ConsumerPcs == {"idle", "overcommit", "examine", "promise", "reload", "giveBack", "claim",
  "claimed", "slotTail", "slotKey", "entry", "empty", "unlink", "free"}

\* The variables keep their types; a block's counter does not pass BLOCK_SIZE.
TypeOK ==
  /\ {tailIndex, headIndex, dequeueOptimisticCount, dequeueOvercommit} \subseteq Index
  /\ freeBlocks \subseteq Blocks
  /\ cell \in [Blocks -> [Slots -> Index \cup {Vacant}]]
  /\ dequeued \in [Blocks -> 0 .. BlockSize]
  /\ key \in [Entries -> Index]
  /\ value \in [Entries -> Blocks \cup {NoBlock}]
  /\ tailBlock \in Blocks \cup {NoBlock}
  /\ ppc \in ProducerPcs
  /\ cpc \in [Consumers -> ConsumerPcs]

\* The assertions of get_block_index_index_for_index (concurrentqueue.h:2853, :2858):
\* whatever the producer does to the index meanwhile, a consumer computes its slot
\* from a valid tail key, and the slot lists a block with the base of its index.
LookupSound ==
  \A c \in Consumers :
    /\ cpc[c] = "slotKey" =>
         key[headers[call[c].header].index[call[c].slot]] # InvalidBlockBase
    /\ cpc[c] = "entry" =>
         key[EntryOf(c)] = Base(call[c].index) /\ value[EntryOf(c)] # NoBlock

\* The destructor destroys every element that is left and gives every block back.
DestroysAll ==
  ppc = "destroyed" =>
    /\ freeBlocks = Blocks
    /\ \A b \in Blocks : \A s \in Slots : cell[b][s] = Vacant

\* An element of the queue, as the block index finds it.
ElementAt(i) ==
  LET block == BlockFor(i) IN IF block = NoBlock THEN Vacant ELSE cell[block][Slot(i)]

\* What the abstract queue holds, what its dequeues ask for, and what they have got, here
\* also what they have yet to find.
Contents ==
  IF ppc = "destroyed" THEN << >>
  ELSE [k \in 1 .. Minus(tailIndex, headIndex) |-> ElementAt(Plus(headIndex, k - 1))]

Wanted == [c \in Consumers |-> IF c \in Unsettled THEN call[c].max ELSE 0]

InHand ==
  [c \in Consumers |->
    IF c \in Unsettled \/ cpc[c] = "idle" THEN << >>
    ELSE IF cpc[c] = "claimed"
    THEN [k \in 1 .. call[c].count |-> ElementAt(Plus(call[c].index, k - 1))]
    ELSE call[c].got \o
         [k \in 1 .. call[c].count - Len(call[c].got) |->
            ElementAt(Plus(call[c].first, Len(call[c].got) + k - 1))]]

\* A sub-queue is a first-in, first-out queue whose dequeues may miss elements
\* only while they overlap another dequeue.
Fifo == INSTANCE FifoQueue WITH
  FirstNumber <- StartIndex, next <- tailIndex,
  queue <- Contents, wanted <- Wanted, taken <- InHand

\* Elements are dequeued once each and in the order they were enqueued in, and a dequeue
\* that no other overlaps gets all it asks for or all there are.
FifoSpec == Fifo!FifoSpec

===============================================================================
