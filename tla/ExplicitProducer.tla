--------------------------- MODULE ExplicitProducer ---------------------------
(***************************************************************************)
(* ConcurrentQueue::ExplicitProducer: the sub-queue of a producer token.   *)
(* Its blocks form a ring that grows and never shrinks; the producer fills *)
(* the block ahead when all of its elements have been dequeued, and        *)
(* requisitions one otherwise.  A circular block index tells consumers     *)
(* which block starts at which index; it is copied when it grows.          *)
(*                                                                         *)
(* The flags of a block are a set of slots; is_empty reads them one by one *)
(* and set_many_empty stores them one by one, but they only rise until the *)
(* producer lowers all, so both are one step.  The two stores into an      *)
(* entry of the index are one step as well.                                *)
(***************************************************************************)
EXTENDS ProducerBase, FiniteSetsExt

CONSTANTS
  Blocks,             \* the blocks the pool can provide
  NoBlock,
  InitialIndexSize,   \* EXPLICIT_INITIAL_INDEX_SIZE, or initialBlockPoolSize if larger
  MaxHeaders,         \* bounds the block indices that malloc provides
  MaxSubqueueSize,    \* MAX_SUBQUEUE_SIZE; Numbers: not limited
  MallocFailsFirst,   \* the first block index may not be allocated
  PartialFailure,     \* a batch may fail when it has prepared some of its blocks
  ThrowsLate          \* constructing may throw in a call that has prepared a block

ASSUME ExplicitAssumption ==
  /\ IsFiniteSet(Blocks) /\ NoBlock \notin Blocks
  /\ InitialIndexSize \in Nat \ {0, 1} /\ MaxHeaders \in Nat \ {0}
  /\ MaxSubqueueSize \in Nat
  /\ {MallocFailsFirst, PartialFailure, ThrowsLate} \subseteq BOOLEAN

VARIABLES
  freeBlocks,   \* the block pool
  cell,         \* the elements of each block; Vacant where none is constructed
  emptied,      \* the slots of each block whose emptyFlags are set
  next,         \* Block::next, the ring
  headers,      \* the BlockIndexHeaders; blockIndex is the last, none: nullptr
  tailBlock,
  pr,           \* pr_blockIndexFront and pr_blockIndexSlotsUsed
  ppc,          \* where the producer's thread is
  enq           \* the locals of its call

storage == <<freeBlocks, cell, emptied, next>>
producerVars == <<tailBlock, pr, ppc, enq>>
vars == <<tailIndex, claimVars, storage, headers, producerVars>>

Wrecked == -2   \* destroyed although nothing was constructed

\* The memory of a new index is not initialised.
NoEntry == [base |-> -1, block |-> NoBlock]
Header(front, entries) == [front |-> front, entries |-> entries]
Capacity(h) == Cardinality(DOMAIN h.entries)
Last == headers[Len(headers)]

SlotFor(h, front, base, i) == (front + BlockOffset(base, i)) % Capacity(h)

BlockFor(i) ==
  LET h == Last IN h.entries[SlotFor(h, h.front, h.entries[h.front].base, i)].block

IsEmpty(b) == emptied[b] = Slots

\* The block n blocks after b in the ring.
After(b, n) ==
  LET at[k \in 0 .. n] == IF k = 0 THEN b ELSE next[at[k - 1]]
  IN at[n]

NoEnqueue == [count |-> 0, bulk |-> FALSE, noexcept |-> FALSE, base |-> 0,
              start |-> NoBlock, first |-> NoBlock, front |-> 0, used |-> 0]

ProducerGoto(l) == ppc' = l
EndCall == ProducerGoto("idle") /\ enq' = NoEnqueue

Init ==
  /\ ClaimInit
  /\ freeBlocks = Blocks
  /\ cell = [b \in Blocks |-> [s \in Slots |-> Vacant]]
  /\ emptied = [b \in Blocks |-> {}]
  /\ next = [b \in Blocks |-> NoBlock]
  /\ headers \in {<<Header(-1, [s \in 0 .. InitialIndexSize - 1 |-> NoEntry])>>}
                 \cup (IF MallocFailsFirst THEN {<< >>} ELSE {})
  /\ tailBlock = NoBlock
  /\ pr = [front |-> 0, used |-> 0]
  /\ ppc = "idle"
  /\ enq = NoEnqueue

------------------------------------------------------------------------------
(* enqueue and enqueue_bulk                                                *)

\* enqueue (count = 1) or enqueue_bulk: one block is prepared after the other,
\* until the last element has a place.
BeginEnqueue(count, bulk) ==
  LET first == Base(Minus(tailIndex, 1))
      last == Base(Plus(tailIndex, count - 1))
  IN /\ ppc = "idle"
     /\ bulk \/ count = 1
     /\ Minus(tailIndex, StartIndex) + count <= MaxEnqueued
     /\ enq' = [count |-> count, bulk |-> bulk, noexcept |-> FALSE,
                base |-> Plus(first, BlockSize), start |-> tailBlock, first |-> NoBlock,
                front |-> pr.front, used |-> pr.used]
     /\ ProducerGoto(IF first = last THEN "construct" ELSE "ahead")
     /\ UNCHANGED <<tailIndex, claimVars, storage, headers, tailBlock, pr>>

More == enq.base # Base(Plus(tailIndex, enq.count - 1))

\* The block is published first, unless constructing may throw.
ConstructOrPublish(publish) ==
  \E noexcept \in BOOLEAN :
    /\ enq' = [enq EXCEPT !.noexcept = noexcept]
    /\ ProducerGoto(IF noexcept THEN publish ELSE "construct")

NextFront == (pr.front + 1) % Capacity(Last)
AddEntry(b) ==
  headers' = [headers EXCEPT ![Len(headers)].entries[pr.front] =
                [base |-> enq.base, block |-> b]]

\* Mutant of EmptyAhead: a block is taken for empty when its last slot is.
LastSlotEmptyAhead ==
  /\ tailBlock # NoBlock
  /\ next[tailBlock] # enq.first /\ BlockSize - 1 \in emptied[next[tailBlock]]

\* The block ahead is used again if it is empty (and not already in this batch).
EmptyAhead ==
  /\ tailBlock # NoBlock
  /\ next[tailBlock] # enq.first /\ IsEmpty(next[tailBlock])

ReuseAhead ==
  /\ ppc = "ahead" /\ EmptyAhead
  /\ LET b == next[tailBlock]
     IN /\ tailBlock' = b
        /\ IF enq.bulk
           THEN /\ AddEntry(b)
                /\ pr' = [pr EXCEPT !.front = NextFront]
                /\ enq' = [enq EXCEPT !.first = IF @ = NoBlock THEN b ELSE @,
                                      !.base = IF More THEN Plus(@, BlockSize) ELSE @]
                /\ ProducerGoto(IF More THEN "ahead" ELSE "reset")
                /\ emptied' = emptied
           ELSE /\ emptied' = [emptied EXCEPT ![b] = {}]
                /\ ConstructOrPublish("entry")
                /\ UNCHANGED <<headers, pr>>
  /\ UNCHANGED <<tailIndex, claimVars, freeBlocks, cell, next>>

NothingAhead ==
  /\ ppc = "ahead" /\ ~EmptyAhead
  /\ ProducerGoto("room")
  /\ UNCHANGED <<tailIndex, claimVars, storage, headers, tailBlock, pr, enq>>

Full(base) ==
  \/ ~Less(headIndex, Plus(base, BlockSize))
  \/ /\ MaxSubqueueSize < Numbers
     /\ MaxSubqueueSize = 0 \/ MaxSubqueueSize - BlockSize < Minus(base, headIndex)

\* A failure of a batch that holds blocks already is what PartialFailure is about.
MayFail == PartialFailure \/ enq.first = NoBlock

\* Mutant of CheckRoom: the index is taken to have room.
CheckNoIndex ==
  /\ ppc = "room"
  /\ IF Full(enq.base) THEN MayFail /\ ProducerGoto("undo")
     ELSE IF headers # << >> THEN ProducerGoto("requisition")
     ELSE ProducerGoto("grow")
  /\ UNCHANGED <<tailIndex, claimVars, storage, headers, tailBlock, pr, enq>>

CheckRoom ==
  /\ ppc = "room"
  /\ IF Full(enq.base) THEN MayFail /\ ProducerGoto("undo")
     ELSE IF headers # << >> /\ pr.used # Capacity(Last) THEN ProducerGoto("requisition")
     ELSE ProducerGoto("grow")
  /\ UNCHANGED <<tailIndex, claimVars, storage, headers, tailBlock, pr, enq>>

\* Mutant of Grow: the entries are copied in the order of their slots.
GrowInSlotOrder ==
  /\ ppc = "grow" /\ Len(headers) < MaxHeaders
  /\ LET n == IF headers = << >> THEN InitialIndexSize ELSE 2 * Capacity(Last)
         exposed == IF enq.bulk THEN enq.used ELSE pr.used
     IN headers' = Append(headers, Header(exposed - 1, [s \in 0 .. n - 1 |->
          IF s < pr.used THEN Last.entries[s] ELSE NoEntry]))
  /\ pr' = [pr EXCEPT !.front = pr.used]
  /\ enq' = [enq EXCEPT !.front = enq.used]
  /\ ProducerGoto("requisition")
  /\ UNCHANGED <<tailIndex, claimVars, storage, tailBlock>>

\* new_block_index: twice the slots; the entries in use come first, oldest first.
Grow ==
  /\ ppc = "grow" /\ Len(headers) < MaxHeaders
  /\ LET n == IF headers = << >> THEN InitialIndexSize ELSE 2 * Capacity(Last)
         exposed == IF enq.bulk THEN enq.used ELSE pr.used
     IN headers' = Append(headers, Header(exposed - 1, [s \in 0 .. n - 1 |->
          IF s < pr.used THEN Last.entries[(pr.front - pr.used + s) % Capacity(Last)]
          ELSE NoEntry]))
  /\ pr' = [pr EXCEPT !.front = pr.used]
  /\ enq' = [enq EXCEPT !.front = enq.used]
  /\ ProducerGoto("requisition")
  /\ UNCHANGED <<tailIndex, claimVars, storage, tailBlock>>

\* No memory, or CannotAlloc.
CannotGrow ==
  /\ ppc = "grow" /\ MayFail
  /\ ProducerGoto("undo")
  /\ UNCHANGED <<tailIndex, claimVars, storage, headers, tailBlock, pr, enq>>

\* A block is put into the ring after the tail block.
Insert(b) ==
  /\ next' = IF tailBlock = NoBlock THEN [next EXCEPT ![b] = b]
             ELSE [next EXCEPT ![b] = next[tailBlock], ![tailBlock] = b]
  /\ tailBlock' = b

\* requisition_block; a batch marks its blocks as empty until it has them all.
Requisition ==
  /\ ppc = "requisition"
  /\ \E b \in freeBlocks :
       /\ freeBlocks' = freeBlocks \ {b}
       /\ Insert(b)
       /\ emptied' = [emptied EXCEPT ![b] = IF enq.bulk THEN Slots ELSE {}]
       /\ IF enq.bulk
          THEN /\ AddEntry(b)
               /\ pr' = [front |-> NextFront, used |-> pr.used + 1]
               /\ enq' = [enq EXCEPT !.first = IF @ = NoBlock THEN b ELSE @,
                                     !.base = IF More THEN Plus(@, BlockSize) ELSE @]
               /\ ProducerGoto(IF More THEN "room" ELSE "reset")
          ELSE /\ pr' = [pr EXCEPT !.used = @ + 1]
               /\ ConstructOrPublish("entry")
               /\ UNCHANGED headers
  /\ UNCHANGED <<tailIndex, claimVars, cell>>

NoRequisition ==
  /\ ppc = "requisition" /\ MayFail
  /\ ProducerGoto("undo")
  /\ UNCHANGED <<tailIndex, claimVars, storage, headers, tailBlock, pr, enq>>

\* The tail block and the index as they were, but injected blocks stay in the ring.
Restore ==
  /\ pr' = [front |-> enq.front, used |-> enq.used]
  /\ tailBlock' = IF enq.start = NoBlock THEN enq.first ELSE enq.start
  /\ EndCall

Undo ==
  /\ ppc = "undo"
  /\ IF enq.bulk THEN Restore ELSE EndCall /\ UNCHANGED <<pr, tailBlock>>
  /\ UNCHANGED <<tailIndex, claimVars, storage, headers>>

\* The blocks of a batch, from first to the tail block.
Prepared ==
  LET n == Minus(Base(Plus(tailIndex, enq.count - 1)), Base(Minus(tailIndex, 1)))
  IN {After(enq.first, k) : k \in 0 .. (n \div BlockSize) - 1}

\* All blocks of a batch are there: they are reset before they are filled.
ResetBlocks ==
  /\ ppc = "reset"
  /\ emptied' = [b \in Blocks |-> IF b \in Prepared THEN {} ELSE emptied[b]]
  /\ ConstructOrPublish("front")
  /\ UNCHANGED <<tailIndex, claimVars, freeBlocks, cell, next, headers, tailBlock, pr>>

\* A single enqueue lists its block once nothing can throw any more.
AddIndexEntry ==
  /\ ppc = "entry"
  /\ AddEntry(tailBlock)
  /\ ProducerGoto("front")
  /\ UNCHANGED <<tailIndex, claimVars, storage, tailBlock, pr, enq>>

StoreFront ==
  /\ ppc = "front"
  /\ headers' = [headers EXCEPT ![Len(headers)].front =
                   IF enq.bulk THEN (pr.front - 1) % Capacity(Last) ELSE pr.front]
  /\ pr' = IF enq.bulk THEN pr ELSE [pr EXCEPT !.front = NextFront]
  /\ ProducerGoto(IF enq.noexcept THEN "construct" ELSE "commit")
  /\ UNCHANGED <<tailIndex, claimVars, storage, tailBlock, enq>>

\* Where the elements of a batch go: the rest of the start block comes first.
Batch == {Plus(tailIndex, k) : k \in 0 .. enq.count - 1}
FirstTarget ==
  IF Slot(tailIndex) # 0 THEN enq.start ELSE IF enq.bulk THEN enq.first ELSE tailBlock
TargetOf(i) == After(FirstTarget, Minus(i, Base(tailIndex)) \div BlockSize)

BlocksPrepared == IF enq.bulk THEN enq.first # NoBlock ELSE Slot(tailIndex) = 0

Construct ==
  /\ ppc = "construct"
  /\ cell' = [b \in Blocks |-> [s \in Slots |->
       LET here == {i \in Batch : TargetOf(i) = b /\ Slot(i) = s}
       IN IF here = {} THEN cell[b][s] ELSE CHOOSE i \in here : TRUE]]
  /\ ProducerGoto(IF ~enq.noexcept /\ BlocksPrepared
                  THEN (IF enq.bulk THEN "front" ELSE "entry") ELSE "commit")
  /\ UNCHANGED <<tailIndex, claimVars, freeBlocks, emptied, next, headers, tailBlock, pr, enq>>

\* What had been constructed is destroyed again; the blocks stay as they are now.
Throw ==
  /\ ppc = "construct" /\ ~enq.noexcept
  /\ ThrowsLate \/ ~BlocksPrepared
  /\ IF enq.bulk THEN Restore
     ELSE /\ pr' = [pr EXCEPT !.used = enq.used]
          /\ tailBlock' = IF enq.start = NoBlock THEN tailBlock ELSE enq.start
          /\ EndCall
  /\ UNCHANGED <<tailIndex, claimVars, storage, headers>>

Commit ==
  /\ ppc = "commit"
  /\ tailIndex' = Plus(tailIndex, enq.count)
  /\ EndCall
  /\ UNCHANGED <<claimVars, storage, headers, tailBlock, pr>>

------------------------------------------------------------------------------
(* dequeue and dequeue_bulk, once the elements are claimed                 *)

\* The locals of a consumer that has claimed: header, front, slot, block and what
\* it has moved out.
LoadHeader(c) ==
  /\ cpc[c] = "claimed"
  /\ call' = [call EXCEPT ![c] =
       [count |-> @.count, index |-> @.index, header |-> Len(headers), slot |-> 0,
        first |-> @.index, block |-> NoBlock, got |-> << >>]]
  /\ ConsumerGoto(c, "front")
  /\ UNCHANGED <<tailIndex, counters, owed, storage, headers, producerVars>>

HeaderOf(c) == headers[call[c].header]

\* Mutant of LoadFront: looks at the slot that is filled next.
LoadNextFront(c) ==
  /\ cpc[c] = "front"
  /\ call' = [call EXCEPT ![c].slot = (HeaderOf(c).front + 1) % Capacity(HeaderOf(c))]
  /\ ConsumerGoto(c, "base")
  /\ UNCHANGED <<tailIndex, counters, owed, storage, headers, producerVars>>

LoadFront(c) ==
  /\ cpc[c] = "front"
  /\ call' = [call EXCEPT ![c].slot = HeaderOf(c).front]
  /\ ConsumerGoto(c, "base")
  /\ UNCHANGED <<tailIndex, counters, owed, storage, headers, producerVars>>

\* The slot of the claimed index, relative to the front and its base.
LoadBase(c) ==
  /\ cpc[c] = "base"
  /\ call[c].slot \in DOMAIN HeaderOf(c).entries
  /\ LET h == HeaderOf(c)
         front == call[c].slot
     IN call' = [call EXCEPT ![c].slot =
                   SlotFor(h, front, h.entries[front].base, call[c].index)]
  /\ ConsumerGoto(c, "entry")
  /\ UNCHANGED <<tailIndex, counters, owed, storage, headers, producerVars>>

EntryOf(c) == HeaderOf(c).entries[call[c].slot]

\* Loads the block, moves elements out of it and destroys them; nobody else has their
\* indices.
Move(c) ==
  /\ cpc[c] = "entry" /\ EntryOf(c).block # NoBlock
  /\ LET b == EntryOf(c).block
         n == Cardinality(InBlock(c))
     IN /\ call' = [call EXCEPT ![c].block = b, ![c].got =
                      @ \o [k \in 1 .. n |-> cell[b][Slot(call[c].index) + k - 1]]]
        /\ cell' = [cell EXCEPT ![b] = [s \in Slots |->
                      IF \E i \in InBlock(c) : Slot(i) = s THEN Vacant ELSE @[s]]]
  /\ ConsumerGoto(c, "empty")
  /\ UNCHANGED <<tailIndex, counters, owed, freeBlocks, emptied, next, headers, producerVars>>

\* Mutant of SetEmpty: all flags of the block are set.
SetAllEmpty(c) ==
  /\ cpc[c] = "empty"
  /\ emptied' = [emptied EXCEPT ![call[c].block] = Slots]
  /\ LET i == Plus(call[c].index, Cardinality(InBlock(c)))
     IN IF i = Plus(call[c].first, call[c].count)
        THEN ReturnFrom(c)
        ELSE /\ call' = [call EXCEPT ![c].index = i, ![c].block = NoBlock,
                           ![c].slot = (@ + 1) % Capacity(HeaderOf(c))]
             /\ ConsumerGoto(c, "entry")
  /\ UNCHANGED <<tailIndex, counters, owed, freeBlocks, cell, next, headers, producerVars>>

\* set_empty, set_many_empty; then the next block of the batch.
SetEmpty(c) ==
  /\ cpc[c] = "empty"
  /\ emptied' = [emptied EXCEPT ![call[c].block] = @ \cup {Slot(i) : i \in InBlock(c)}]
  /\ LET i == Plus(call[c].index, Cardinality(InBlock(c)))
     IN IF i = Plus(call[c].first, call[c].count)
        THEN ReturnFrom(c)
        ELSE /\ call' = [call EXCEPT ![c].index = i, ![c].block = NoBlock,
                           ![c].slot = (@ + 1) % Capacity(HeaderOf(c))]
             /\ ConsumerGoto(c, "entry")
  /\ UNCHANGED <<tailIndex, counters, owed, freeBlocks, cell, next, headers, producerVars>>

------------------------------------------------------------------------------
(* ~ExplicitProducer, when every call has returned                         *)

Ring == IF tailBlock = NoBlock THEN {}
        ELSE {After(tailBlock, k) : k \in 0 .. Cardinality(Blocks) - 1}

\* The block that the head is in, if it is not at the start of one: the first one of
\* the index, oldest first, that does not end before it.
HalfDequeuedBlock ==
  LET entry(k) == Last.entries[(pr.front - pr.used + k) % Capacity(Last)]
      reaches(k) == ~Less(Plus(entry(k).base, BlockSize), headIndex)
  IN IF Slot(headIndex) = 0 THEN NoBlock
     ELSE LET ks == {k \in 0 .. pr.used - 1 : reaches(k)}
          IN IF ks = {} THEN NoBlock ELSE entry(Min(ks)).block

\* The slots of a block that the destructor takes for elements.
TakenForElements(b) ==
  {s \in Slots : /\ b \in Ring /\ ~IsEmpty(b)
                 /\ b = HalfDequeuedBlock => s >= Slot(headIndex)
                 /\ b = tailBlock /\ Slot(tailIndex) # 0 => s < Slot(tailIndex)}

\* Mutant of Destroy: no look for the block that is half dequeued.
DestroyWhole ==
  /\ ppc = "idle" /\ \A c \in Consumers : cpc[c] = "idle"
  /\ cell' = [b \in Blocks |-> [s \in Slots |->
       IF /\ b \in Ring /\ ~IsEmpty(b)
          /\ b = tailBlock /\ Slot(tailIndex) # 0 => s < Slot(tailIndex)
       THEN (IF cell[b][s] = Vacant THEN Wrecked ELSE Vacant) ELSE cell[b][s]]]
  /\ freeBlocks' = freeBlocks \cup Ring
  /\ ProducerGoto("destroyed")
  /\ UNCHANGED <<tailIndex, claimVars, emptied, next, headers, tailBlock, pr, enq>>

\* Destroys what it takes for elements and gives the blocks back (the block pool is not
\* told of those that were allocated one by one: they are deleted).
Destroy ==
  /\ ppc = "idle" /\ \A c \in Consumers : cpc[c] = "idle"
  /\ cell' = [b \in Blocks |-> [s \in Slots |->
       IF s \notin TakenForElements(b) THEN cell[b][s]
       ELSE IF cell[b][s] = Vacant THEN Wrecked ELSE Vacant]]
  /\ freeBlocks' = freeBlocks \cup Ring
  /\ ProducerGoto("destroyed")
  /\ UNCHANGED <<tailIndex, claimVars, emptied, next, headers, tailBlock, pr, enq>>

------------------------------------------------------------------------------
Begin(c) ==
  /\ ppc # "destroyed"
  /\ \E max \in {1, MaxBulk} : BeginDequeue(c, max)
  /\ UNCHANGED <<storage, headers, producerVars>>

Share(c) == Sharing(c) /\ UNCHANGED <<storage, headers, producerVars>>

Dequeue(c) ==
  \/ Begin(c) \/ Share(c)
  \/ LoadHeader(c) \/ LoadFront(c) \/ LoadBase(c)
  \/ Move(c) \/ SetEmpty(c)

Enqueue ==
  \/ \E n \in {1, MaxBulk} : \E bulk \in BOOLEAN :
       BeginEnqueue(n, bulk)
  \/ ReuseAhead \/ NothingAhead \/ CheckRoom \/ Grow \/ CannotGrow
  \/ Requisition \/ NoRequisition \/ Undo \/ ResetBlocks
  \/ AddIndexEntry \/ StoreFront \/ Construct \/ Throw \/ Commit

Next == Enqueue \/ Destroy \/ \E c \in Consumers : Dequeue(c)

Spec == Init /\ [][Next]_vars

------------------------------------------------------------------------------
(* Properties                                                              *)

\* A consumer finds the block of its index, however far the producer has gone on in
\* the index or grown it meanwhile: the front it has loaded lists a block, and the slot
\* computed from it the block that starts at the base of its index.
LookupSound ==
  \A c \in Consumers :
    /\ cpc[c] = "base" =>
         /\ call[c].slot \in DOMAIN HeaderOf(c).entries
         /\ HeaderOf(c).entries[call[c].slot] # NoEntry
    /\ cpc[c] = "entry" => EntryOf(c).base = Base(call[c].index)

\* A consumer finds its own elements: constructed, not moved out by anybody else, and
\* with their flags not set (the assertions at concurrentqueue.h:1504 and :1526), so
\* that the producer cannot have taken their block for empty.
ReadsItsElements ==
  \A c \in Consumers :
    /\ cpc[c] = "entry" => \A i \in InBlock(c) :
         /\ cell[EntryOf(c).block][Slot(i)] = i
         /\ Slot(i) \notin emptied[EntryOf(c).block]
    /\ cpc[c] = "empty" => \A i \in InBlock(c) : Slot(i) \notin emptied[call[c].block]

\* Elements are constructed only in cells that hold none, whose flags are down.
ConstructsInVacant ==
  ppc = "construct" =>
    \A i \in Batch : /\ cell[TargetOf(i)][Slot(i)] = Vacant
                     /\ Slot(i) \notin emptied[TargetOf(i)]

\* The destructor destroys every element that is left, and no cell that has none
\* ("Destruct any elements not yet dequeued", concurrentqueue.h:1705), and gives back
\* every block.  With ThrowsLate this does not hold: the block that an exception
\* leaves in the ring has its flags down, and the destructor takes it for full.
DestroysAll ==
  ppc = "destroyed" =>
    /\ freeBlocks = Blocks
    /\ \A b \in Blocks : \A s \in Slots : cell[b][s] = Vacant

\* "guaranteed to be room" (concurrentqueue.h:1783): the slots in use list every block
\* of the ring that is not empty, so that a new entry overwrites none of those.
EveryBlockListed ==
  ppc = "idle" => \A b \in Ring : ~IsEmpty(b) =>
    \E k \in 1 .. pr.used : Last.entries[(pr.front - k) % Capacity(Last)].block = b

\* An element of the queue, as the block index finds it.
ElementAt(i) ==
  LET block == BlockFor(i) IN IF block = NoBlock THEN Vacant ELSE cell[block][Slot(i)]

\* What the abstract queue holds, what its dequeues ask for, and what they have got, here
\* also what they have yet to find.
Contents ==
  IF ppc = "destroyed" THEN << >>
  ELSE [k \in 1 .. Minus(tailIndex, headIndex) |-> ElementAt(Plus(headIndex, k - 1))]

Wanted == [c \in Consumers |-> IF c \in Unsettled THEN call[c].max ELSE 0]

InHand ==
  [c \in Consumers |->
    IF c \in Unsettled \/ cpc[c] = "idle" THEN << >>
    ELSE IF cpc[c] = "claimed"
    THEN [k \in 1 .. call[c].count |-> ElementAt(Plus(call[c].index, k - 1))]
    ELSE call[c].got \o
         [k \in 1 .. call[c].count - Len(call[c].got) |->
            ElementAt(Plus(call[c].first, Len(call[c].got) + k - 1))]]

\* A sub-queue is a first-in, first-out queue whose dequeues may miss elements
\* only while they overlap another dequeue.
Fifo == INSTANCE FifoQueue WITH
  FirstNumber <- StartIndex, next <- tailIndex,
  queue <- Contents, wanted <- Wanted, taken <- InHand

\* Elements are dequeued once each and in the order they were enqueued in, and a dequeue
\* that no other overlaps gets all it asks for or all there are.
FifoSpec == Fifo!FifoSpec

===============================================================================
