--------------------------- MODULE ConcurrentQueue ---------------------------
(***************************************************************************)
(* ConcurrentQueue as a whole: the list of its producers, the hash tables  *)
(* in which a thread finds its implicit producer, the tokens of explicit   *)
(* producers, which leave their producer to be recycled, and the ways a    *)
(* consumer goes through the list.                                         *)
(*                                                                         *)
(* What a producer is in itself is the subject of the modules about them.  *)
(* Here it is the number of its elements, and its calls are atomic; as in  *)
(* FifoQueue, which those modules implement, a dequeue of it gives what    *)
(* there is if there is no other dequeue under way, and else may give less *)
(* or nothing.                                                             *)
(***************************************************************************)
EXTENDS Integers, Sequences, FiniteSets

CONSTANTS
  Enqueuers,     \* threads that enqueue without a token
  Tokens,        \* producer tokens, each used by one thread at a time
  Consumers,
  HashOf,        \* hash_thread_id
  InitialSize,   \* INITIAL_IMPLICIT_PRODUCER_HASH_SIZE
  Quota,         \* EXPLICIT_CONSUMER_CONSUMPTION_QUOTA_BEFORE_ROTATE
  Batches,       \* how many elements an enqueue adds
  MaxBulk,       \* how many a dequeue asks for at most
  MaxCalls       \* bounds the calls

ASSUME ConcurrentQueueAssumption ==
  /\ IsFiniteSet(Enqueuers) /\ IsFiniteSet(Consumers)
  /\ 0 \notin Enqueuers \cup Tokens
  /\ Enqueuers \cap Tokens = {} /\ (Enqueuers \cup Tokens) \cap Consumers = {}
  /\ HashOf \in [Enqueuers -> Nat]
  /\ InitialSize \in Nat \ {0} /\ \E k \in 0 .. InitialSize : InitialSize = 2 ^ k
  /\ Quota \in Nat \ {0} /\ Batches \subseteq Nat /\ MaxBulk \in Nat \ {0} /\ MaxCalls \in Nat

VARIABLES
  prod,            \* the producers, by the order of their creation
  list,            \* producerListTail and what it leads to, the newest producer first
  producerCount,
  tables,          \* implicitProducerHash, the last, and those before it
  hashCount,       \* implicitProducerHashCount
  resizing,        \* implicitProducerHashResizeInProgress
  globalOffset,    \* globalExplicitConsumerOffset
  token,           \* the producer of a token, 0 if it is not valid
  ctoken,          \* the consumer tokens, one for each consumer
  pc,              \* where a thread is
  my,              \* the locals of enqueuers and of who uses a token
  call,            \* the locals of consumers
  calls,           \* how many calls there have been
  full             \* what no call sees: the producers that have had elements ever since
                   \* the call of a consumer began, while it is the only one

vars == <<prod, list, producerCount, tables, hashCount, resizing, globalOffset, token, ctoken,
          pc, my, call, calls, full>>
listVars == <<list, producerCount>>
hashVars == <<tables, hashCount, resizing>>
consumerVars == <<globalOffset, ctoken, call>>

NoOne == 0           \* nullptr
Users == Enqueuers \cup Tokens
Threads == Users \cup Consumers
NoLocals == [hash |-> 0, newCount |-> 0, slot |-> 0, made |-> NoOne, newCapacity |-> 0]
NoCall == [bulk |-> FALSE, left |-> 0, tail |-> NoOne, ptr |-> NoOne, best |-> NoOne,
           bestSize |-> 0, nonEmpty |-> 0, prodCount |-> 0]
NewToken(n) == [initialOffset |-> n, lastKnown |-> -1, consumed |-> 0,
                current |-> NoOne, desired |-> NoOne]
SmallerOf(a, b) == IF a < b THEN a ELSE b

Vacant == [key |-> NoOne, value |-> NoOne]
EmptyTable(capacity) == [i \in 0 .. capacity - 1 |-> Vacant]
Capacity(h) == Cardinality(DOMAIN tables[h])

\* producerListTail, and next_prod of a producer.
ListTail == IF list = <<>> THEN NoOne ELSE list[1]
Place(p) == CHOOSE i \in DOMAIN list : list[i] = p
NextProd(p) == IF Place(p) = Len(list) THEN NoOne ELSE list[Place(p) + 1]

\* k times next_prod, and back to a tail at the end of the list.
Around(tail, p, k) ==
  LET first == Place(tail)
  IN list[first + ((Place(p) - first + k) % (Len(list) - first + 1))]

Init ==
  /\ prod = <<>> /\ list = <<>> /\ producerCount = 0
  /\ tables = <<EmptyTable(InitialSize)>> /\ hashCount = 0 /\ resizing = FALSE
  /\ globalOffset = 0
  /\ token = [k \in Tokens |-> NoOne]
  \* The consumer tokens have been made, in some order, by fetch_add on nextExplicitConsumerId.
  /\ \E offset \in [Consumers -> 0 .. Cardinality(Consumers) - 1] :
       /\ \A c, d \in Consumers : c # d => offset[c] # offset[d]
       /\ ctoken = [c \in Consumers |-> NewToken(offset[c])]
  /\ pc = [t \in Threads |-> "idle"]
  /\ my = [t \in Users |-> NoLocals]
  /\ call = [c \in Consumers |-> NoCall]
  /\ calls = 0
  /\ full = [c \in Consumers |-> {}]

Goto(t, l) == pc' = [pc EXCEPT ![t] = l]
Locals(t, l) == my' = [my EXCEPT ![t] = l]
Begin(t) == pc[t] = "idle" /\ calls < MaxCalls /\ calls' = calls + 1

------------------------------------------------------------------------------
(* enqueue and enqueue_bulk without a token: get_or_add_implicit_producer         *)

\* The slot of a thread in a table.  Keys are never removed, and a thread's own is put
\* there by itself: others cannot change what the probing finds.
SlotOf(e, h) == {i \in DOMAIN tables[h] : tables[h][i].key = e}
Knows(e) == {h \in DOMAIN tables : SlotOf(e, h) # {}}

\* Goes on with a producer: in its table, or to be put in the main one.
Found(e, h) ==
  LET value == tables[h][CHOOSE i \in SlotOf(e, h) : TRUE].value
  IN IF h = Len(tables) THEN Goto(e, "enqueue") /\ Locals(e, [NoLocals EXCEPT !.made = value])
     ELSE /\ Goto(e, "probe")
          /\ Locals(e, [NoLocals EXCEPT !.hash = Len(tables), !.slot = HashOf[e], !.made = value])

\* Mutant of Lookup: the tables before the main one are forgotten.
LookupMain(e) ==
  /\ Begin(e)
  /\ IF Len(tables) \in Knows(e) THEN Found(e, Len(tables))
     ELSE Goto(e, "reserve") /\ Locals(e, [NoLocals EXCEPT !.hash = Len(tables)])
  /\ UNCHANGED <<prod, listVars, hashVars, consumerVars, token, full>>

\* The newest table that has the thread counts.
Lookup(e) ==
  /\ Begin(e)
  /\ \/ \E h \in Knows(e) : (\A g \in Knows(e) : g <= h) /\ Found(e, h)
     \/ /\ Knows(e) = {}
        /\ Goto(e, "reserve") /\ Locals(e, [NoLocals EXCEPT !.hash = Len(tables)])
  /\ UNCHANGED <<prod, listVars, hashVars, consumerVars, token, full>>

\* compare_exchange on the key of a slot, or the next slot.
Probe(e) ==
  /\ pc[e] = "probe"
  /\ LET h == my[e].hash
         i == my[e].slot % Capacity(h)
     IN IF tables[h][i].key = NoOne
        THEN /\ tables' = [tables EXCEPT ![h][i] = [key |-> e, value |-> my[e].made]]
             /\ Goto(e, "enqueue") /\ Locals(e, [NoLocals EXCEPT !.made = my[e].made])
        ELSE Locals(e, [my[e] EXCEPT !.slot = i + 1]) /\ UNCHANGED <<tables, pc>>
  /\ UNCHANGED <<prod, listVars, hashCount, resizing, consumerVars, token, calls, full>>

Reserve(e) ==
  /\ pc[e] = "reserve"
  /\ hashCount' = hashCount + 1
  /\ Locals(e, [my[e] EXCEPT !.newCount = hashCount + 1])
  /\ Goto(e, "grow")
  /\ UNCHANGED <<prod, listVars, tables, resizing, consumerVars, token, calls, full>>

\* Less than three quarters full: the old table will do; else it is looked at again.
CheckRoom(e) ==
  LET capacity == Capacity(my[e].hash)
  IN IF my[e].newCount < (capacity \div 2) + (capacity \div 4)
     THEN Goto(e, "create") /\ Locals(e, [my[e] EXCEPT !.newCount = 0])
     ELSE Goto(e, "reload") /\ UNCHANGED my

\* Half full: the first who gets the lock makes a new table.
TestAndSet(e) ==
  /\ pc[e] = "grow"
  /\ IF my[e].newCount >= Capacity(my[e].hash) \div 2 /\ ~resizing
     THEN resizing' = TRUE /\ Goto(e, "resize") /\ UNCHANGED my
     ELSE UNCHANGED resizing /\ CheckRoom(e)
  /\ UNCHANGED <<prod, listVars, tables, hashCount, consumerVars, token, calls, full>>

\* Somebody else is busy with a new table: wait for it.
Reload(e) ==
  /\ pc[e] = "reload"
  /\ Goto(e, "grow") /\ Locals(e, [my[e] EXCEPT !.hash = Len(tables)])
  /\ UNCHANGED <<prod, listVars, hashVars, consumerVars, token, calls, full>>

\* With the lock: the table may have been replaced already.
Resize(e) ==
  /\ pc[e] = "resize"
  /\ LET h == Len(tables)
     IN IF my[e].newCount >= Capacity(h) \div 2
        THEN /\ Locals(e, [my[e] EXCEPT !.hash = h, !.newCapacity = Capacity(h) * 2])
             /\ Goto(e, "allocate")
        ELSE Locals(e, [my[e] EXCEPT !.hash = h]) /\ Goto(e, "unlock")
  /\ UNCHANGED <<prod, listVars, hashVars, consumerVars, token, calls, full>>

\* The loop that looks for a capacity of which the count is less than half.
Double(e) ==
  /\ pc[e] = "allocate" /\ my[e].newCount >= my[e].newCapacity \div 2
  /\ Locals(e, [my[e] EXCEPT !.newCapacity = @ * 2])
  /\ UNCHANGED <<prod, listVars, hashVars, consumerVars, token, pc, calls, full>>

\* The new table, or no memory for it.
Allocate(e) ==
  /\ pc[e] = "allocate" /\ my[e].newCount < my[e].newCapacity \div 2
  /\ \/ /\ tables' = Append(tables, EmptyTable(my[e].newCapacity))
        /\ Locals(e, [my[e] EXCEPT !.hash = Len(tables) + 1, !.newCapacity = 0])
        /\ Goto(e, "unlock")
        /\ UNCHANGED hashCount
     \/ /\ hashCount' = hashCount - 1
        /\ Goto(e, "unlockFailed") /\ UNCHANGED <<tables, my>>
  /\ UNCHANGED <<prod, listVars, resizing, consumerVars, token, calls, full>>

\* Mutant of Unlock: a failed allocation leaves the lock set.
UnlockGrown(e) ==
  /\ pc[e] \in {"unlock", "unlockFailed"}
  /\ resizing' = (pc[e] = "unlockFailed")
  /\ IF pc[e] = "unlock" THEN CheckRoom(e)
     ELSE Goto(e, "idle") /\ Locals(e, NoLocals)
  /\ UNCHANGED <<prod, listVars, tables, hashCount, consumerVars, token, calls, full>>

Unlock(e) ==
  /\ pc[e] \in {"unlock", "unlockFailed"}
  /\ resizing' = FALSE
  /\ IF pc[e] = "unlock" THEN CheckRoom(e)
     ELSE Goto(e, "idle") /\ Locals(e, NoLocals)
  /\ UNCHANGED <<prod, listVars, tables, hashCount, consumerVars, token, calls, full>>

\* The producer of the thread is given its elements.
Enqueue(e, n) ==
  /\ pc[e] = "enqueue"
  /\ prod' = [prod EXCEPT ![my[e].made].size = @ + n]
  /\ Goto(e, "idle") /\ Locals(e, NoLocals)
  /\ UNCHANGED <<listVars, hashVars, consumerVars, token, calls, full>>

------------------------------------------------------------------------------
(* recycle_or_create_producer and add_producer.  No implicit producer is ever     *)
(* inactive, so that only the search for an explicit one can find something.      *)

\* Mutant of Recycle: the producer is not marked active again.
RecycleInactive(k) ==
  /\ pc[k] = "recycle"
  /\ LET p == my[k].made
     IN \/ /\ p = NoOne /\ Goto(k, "create") /\ UNCHANGED <<prod, my>>
        \/ /\ p # NoOne /\ prod[p].explicit /\ prod[p].inactive
           /\ Goto(k, "link") /\ UNCHANGED <<prod, my>>
        \/ /\ p # NoOne /\ ~(prod[p].explicit /\ prod[p].inactive)
           /\ Locals(k, [my[k] EXCEPT !.made = NextProd(p)]) /\ UNCHANGED <<prod, pc>>
  /\ UNCHANGED <<listVars, hashVars, consumerVars, token, calls, full>>

\* compare_exchange on inactive, for one producer of the list after the other.
Recycle(k) ==
  /\ pc[k] = "recycle"
  /\ LET p == my[k].made
     IN \/ /\ p = NoOne /\ Goto(k, "create") /\ UNCHANGED <<prod, my>>
        \/ /\ p # NoOne /\ prod[p].explicit /\ prod[p].inactive
           /\ prod' = [prod EXCEPT ![p].inactive = FALSE]
           /\ Goto(k, "link") /\ UNCHANGED my
        \/ /\ p # NoOne /\ ~(prod[p].explicit /\ prod[p].inactive)
           /\ Locals(k, [my[k] EXCEPT !.made = NextProd(p)]) /\ UNCHANGED <<prod, pc>>
  /\ UNCHANGED <<listVars, hashVars, consumerVars, token, calls, full>>

NewProducer(explicit) == [explicit |-> explicit, inactive |-> FALSE, token |-> NoOne, size |-> 0]

\* Mutant of Create: the new producer is counted only with the next one.
CreateCountedLate(t) ==
  /\ pc[t] = "create"
  /\ prod' = Append(prod, NewProducer(t \in Tokens))
  /\ producerCount' = Len(prod)
  /\ Locals(t, [my[t] EXCEPT !.made = Len(prod) + 1]) /\ Goto(t, "push")
  /\ UNCHANGED <<list, hashVars, consumerVars, token, calls, full>>

\* A new producer, which is counted before it is in the list; or no memory for it, and a
\* call that fails or a token that is not valid.
Create(t) ==
  /\ pc[t] = "create"
  /\ \/ /\ prod' = Append(prod, NewProducer(t \in Tokens))
        /\ producerCount' = producerCount + 1
        /\ Locals(t, [my[t] EXCEPT !.made = Len(prod) + 1]) /\ Goto(t, "push")
        /\ UNCHANGED hashCount
     \/ /\ hashCount' = IF t \in Enqueuers THEN hashCount - 1 ELSE hashCount
        /\ Locals(t, NoLocals) /\ Goto(t, "idle")
        /\ UNCHANGED <<prod, producerCount>>
  /\ UNCHANGED <<list, tables, resizing, consumerVars, token, calls, full>>

\* The push in front of the list, with the compare_exchange that succeeds.
Push(t) ==
  /\ pc[t] = "push"
  /\ list' = <<my[t].made>> \o list
  /\ IF t \in Tokens THEN Goto(t, "link") /\ UNCHANGED my
     ELSE Goto(t, "probe") /\ Locals(t, [my[t] EXCEPT !.slot = HashOf[t]])
  /\ UNCHANGED <<prod, producerCount, hashVars, consumerVars, token, calls, full>>

------------------------------------------------------------------------------
(* ProducerToken.  A token that is not valid, or not there, has no producer.      *)

Construct(k) ==
  /\ Begin(k) /\ token[k] = NoOne
  /\ Locals(k, [NoLocals EXCEPT !.made = ListTail]) /\ Goto(k, "recycle")
  /\ UNCHANGED <<prod, listVars, hashVars, consumerVars, token, full>>

Link(k) ==
  /\ pc[k] = "link"
  /\ token' = [token EXCEPT ![k] = my[k].made]
  /\ prod' = [prod EXCEPT ![my[k].made].token = k]
  /\ Goto(k, "idle") /\ Locals(k, NoLocals)
  /\ UNCHANGED <<listVars, hashVars, consumerVars, calls, full>>

\* The destructor gives the producer back in two steps.
BeginDestroy(k) ==
  /\ Begin(k) /\ token[k] # NoOne
  /\ prod' = [prod EXCEPT ![token[k]].token = NoOne]
  /\ token' = [token EXCEPT ![k] = NoOne]
  /\ Locals(k, [NoLocals EXCEPT !.made = token[k]]) /\ Goto(k, "deactivate")
  /\ UNCHANGED <<listVars, hashVars, consumerVars, full>>

Deactivate(k) ==
  /\ pc[k] = "deactivate"
  /\ prod' = [prod EXCEPT ![my[k].made].inactive = TRUE]
  /\ Goto(k, "idle") /\ Locals(k, NoLocals)
  /\ UNCHANGED <<listVars, hashVars, consumerVars, token, calls, full>>

\* swap of two tokens; with one that is not valid, it is the move constructor as well.
Swap(k, j) ==
  /\ Begin(k) /\ k # j /\ pc[j] = "idle" /\ token[k] # NoOne
  /\ token' = [token EXCEPT ![k] = token[j], ![j] = token[k]]
  /\ prod' = [p \in DOMAIN prod |->
               IF p = token[k] THEN [prod[p] EXCEPT !.token = j]
               ELSE IF p = token[j] THEN [prod[p] EXCEPT !.token = k] ELSE prod[p]]
  /\ UNCHANGED <<listVars, hashVars, consumerVars, pc, my, full>>

\* enqueue and enqueue_bulk with a token.
EnqueueWith(k, n) ==
  /\ Begin(k) /\ token[k] # NoOne
  /\ prod' = [prod EXCEPT ![token[k]].size = @ + n]
  /\ UNCHANGED <<listVars, hashVars, consumerVars, token, pc, my, full>>

------------------------------------------------------------------------------
(* The dequeue calls                                                              *)

CallLocals(c, l) == call' = [call EXCEPT ![c] = l]

\* Other dequeues are under way: what a producer shows and gives may be less than what it
\* has.  (They may be about another producer, in which case the code would give it all.)
Contended(c) == \E d \in Consumers \ {c} : pc[d] # "idle"
Shown(c, n) == IF Contended(c) THEN 0 .. n ELSE {n}

NonEmpty == {p \in DOMAIN prod : (\E i \in DOMAIN list : list[i] = p) /\ prod[p].size > 0}

BeginDequeue(c, l, locals) ==
  /\ Begin(c)
  /\ CallLocals(c, locals) /\ Goto(c, l)
  /\ full' = [d \in Consumers |-> IF d = c /\ ~Contended(c) THEN NonEmpty ELSE {}]
  /\ UNCHANGED <<prod, listVars, hashVars, globalOffset, ctoken, token, my>>

Return(c, l) ==
  /\ Goto(c, l) /\ CallLocals(c, NoCall)

\* dequeue and dequeue_bulk of a producer, with which the call may be done.
Given(c, p) == Shown(c, SmallerOf(prod[p].size, call[c].left))
TakeFrom(c, p, n, done) ==
  /\ prod' = [prod EXCEPT ![p].size = @ - n]
  /\ full' = [full EXCEPT ![c] = IF done THEN {} ELSE IF n = prod[p].size THEN @ \ {p} ELSE @]

\* The caller has been given less than it asked for.
AnswerShort(c) ==
  /\ pc[c] = "short"
  /\ Goto(c, "idle")
  /\ full' = [full EXCEPT ![c] = {}]
  /\ UNCHANGED <<prod, listVars, hashVars, consumerVars, token, my, calls>>

\* try_dequeue: the largest of the first three that have elements is tried first.
BeginScored(c) == BeginDequeue(c, "score", [NoCall EXCEPT !.left = 1, !.ptr = ListTail])

Score(c) ==
  /\ pc[c] = "score" /\ call[c].ptr # NoOne /\ call[c].nonEmpty < 3
  /\ \E size \in Shown(c, prod[call[c].ptr].size) :
       LET next == [call[c] EXCEPT !.ptr = NextProd(@), !.nonEmpty = IF size > 0 THEN @ + 1 ELSE @]
       IN CallLocals(c, IF size > call[c].bestSize
                        THEN [next EXCEPT !.best = call[c].ptr, !.bestSize = size] ELSE next)
  /\ UNCHANGED <<prod, listVars, hashVars, globalOffset, ctoken, token, pc, my, calls, full>>

ScoreDone(c) == pc[c] = "score" /\ (call[c].ptr = NoOne \/ call[c].nonEmpty = 3)

ScoreNone(c) ==
  /\ ScoreDone(c) /\ call[c].best = NoOne
  /\ Return(c, "short")
  /\ UNCHANGED <<prod, listVars, hashVars, globalOffset, ctoken, token, my, calls, full>>

\* Goes on with a producer of the list, or has come to its end.
WalkFrom(c, p, l) ==
  IF p = NoOne THEN Return(c, "short") ELSE Goto(c, "walk") /\ CallLocals(c, [l EXCEPT !.ptr = p])

TakeBest(c) ==
  /\ ScoreDone(c) /\ call[c].best # NoOne
  /\ LET best == call[c].best
     IN \E given \in Given(c, best) :
          /\ TakeFrom(c, best, given, given = 1)
          /\ IF given = 1 THEN Return(c, "idle")
             ELSE WalkFrom(c, ListTail, [NoCall EXCEPT !.left = 1, !.best = best])
  /\ UNCHANGED <<listVars, hashVars, globalOffset, ctoken, token, my, calls>>

\* try_dequeue_bulk and try_dequeue_non_interleaved: from the front of the list to its end.
BeginWalk(c, max) ==
  BeginDequeue(c, IF list = <<>> THEN "short" ELSE "walk",
               IF list = <<>> THEN NoCall ELSE [NoCall EXCEPT !.left = max, !.ptr = ListTail])

\* One producer of it; not the best one, which has been tried.
Walk(c) ==
  /\ pc[c] = "walk"
  /\ LET p == call[c].ptr
         next == NextProd(p)
     IN \/ /\ p = call[c].best
           /\ WalkFrom(c, next, call[c]) /\ UNCHANGED <<prod, full>>
        \/ /\ p # call[c].best
           /\ \E given \in Given(c, p) :
                /\ TakeFrom(c, p, given, given = call[c].left)
                /\ IF given = call[c].left THEN Return(c, "idle")
                   ELSE WalkFrom(c, next, [call[c] EXCEPT !.left = @ - given])
  /\ UNCHANGED <<listVars, hashVars, globalOffset, ctoken, token, my, calls>>

\* try_dequeue_from_producer and its bulk form.
BeginFrom(c, k, max) ==
  /\ token[k] # NoOne
  /\ BeginDequeue(c, "from", [NoCall EXCEPT !.left = max, !.ptr = token[k]])

TakeFromOne(c) ==
  /\ pc[c] = "from"
  /\ \E given \in Given(c, call[c].ptr) : TakeFrom(c, call[c].ptr, given, TRUE)
  /\ Return(c, "idle")
  /\ UNCHANGED <<listVars, hashVars, globalOffset, ctoken, token, my, calls>>

------------------------------------------------------------------------------
(* try_dequeue and try_dequeue_bulk with a consumer token                         *)

BeginWithToken(c, bulk, max) ==
  BeginDequeue(c, IF ctoken[c].desired = NoOne \/ ctoken[c].lastKnown # globalOffset
                  THEN "rotation" ELSE "current",
               [NoCall EXCEPT !.bulk = bulk, !.left = max])

\* update_current_producer_after_rotation.
RotationTail(c) ==
  /\ pc[c] = "rotation"
  /\ IF ListTail = NoOne THEN Return(c, "short")
     ELSE CallLocals(c, [call[c] EXCEPT !.tail = ListTail]) /\ Goto(c, "rotationCount")
  /\ UNCHANGED <<prod, listVars, hashVars, globalOffset, ctoken, token, my, calls, full>>

RotationCount(c) ==
  /\ pc[c] = "rotationCount"
  /\ CallLocals(c, [call[c] EXCEPT !.prodCount = producerCount]) /\ Goto(c, "rotate")
  /\ UNCHANGED <<prod, listVars, hashVars, globalOffset, ctoken, token, my, calls, full>>

\* The first place counts from the oldest producer; a token moves on by as many as the
\* global offset has.
Rotate(c) ==
  /\ pc[c] = "rotate"
  /\ LET t == ctoken[c]
         tail == call[c].tail
         count == call[c].prodCount
         place == IF t.desired # NoOne THEN t.desired
                  ELSE Around(tail, tail, count - 1 - (t.initialOffset % count))
         desired == Around(tail, place, (globalOffset - t.lastKnown) % count)
     IN ctoken' = [ctoken EXCEPT ![c] = [t EXCEPT !.desired = desired, !.current = desired,
                                                  !.lastKnown = globalOffset, !.consumed = 0]]
  /\ CallLocals(c, [call[c] EXCEPT !.tail = NoOne, !.prodCount = 0]) /\ Goto(c, "current")
  /\ UNCHANGED <<prod, listVars, hashVars, globalOffset, token, my, calls, full>>

\* The producer the token is at.  Who has had its quota makes everybody rotate: the single
\* call when it meets it, the bulk call when it has passed it, if it got all it asked for.
TakeCurrent(c) ==
  /\ pc[c] = "current"
  /\ LET p == ctoken[c].current
     IN \E given \in Given(c, p) :
          LET done == given = call[c].left
              consumed == ctoken[c].consumed + given
              rotates == IF call[c].bulk THEN consumed >= Quota ELSE consumed = Quota
          IN /\ TakeFrom(c, p, given, done)
             /\ ctoken' = [ctoken EXCEPT ![c].consumed = consumed]
             /\ IF done THEN Return(c, IF rotates THEN "quota" ELSE "idle")
                ELSE Goto(c, "tail") /\ CallLocals(c, [call[c] EXCEPT !.left = @ - given])
  /\ UNCHANGED <<listVars, hashVars, globalOffset, token, my, calls>>

MakeAllRotate(c) ==
  /\ pc[c] = "quota"
  /\ globalOffset' = globalOffset + 1
  /\ Goto(c, "idle")
  /\ UNCHANGED <<prod, listVars, hashVars, ctoken, token, my, call, calls, full>>

\* Mutant of OthersFrom: the end of the list ends the search.
OthersToTheEnd(c, p, tail, current, left) ==
  LET next == NextProd(p)
  IN IF next = NoOne \/ next = current THEN Return(c, "short")
     ELSE /\ Goto(c, "others")
          /\ CallLocals(c, [NoCall EXCEPT !.tail = tail, !.ptr = next, !.left = left])

\* Goes on with the producer after p, or has come back to where the token is.
OthersFrom(c, p, tail, current, left) ==
  LET next == IF NextProd(p) = NoOne THEN tail ELSE NextProd(p)
  IN IF next = current THEN Return(c, "short")
     ELSE /\ Goto(c, "others")
          /\ CallLocals(c, [NoCall EXCEPT !.tail = tail, !.ptr = next, !.left = left])

LoadTail(c) ==
  /\ pc[c] = "tail"
  /\ OthersFrom(c, ctoken[c].current, ListTail, ctoken[c].current, call[c].left)
  /\ UNCHANGED <<prod, listVars, hashVars, globalOffset, ctoken, token, my, calls, full>>

TakeOther(c) ==
  /\ pc[c] = "others"
  /\ LET p == call[c].ptr
     IN \E given \in Given(c, p) :
          LET done == given = call[c].left
              current == IF given = 0 THEN ctoken[c].current ELSE p
          IN /\ TakeFrom(c, p, given, done)
             /\ ctoken' = IF given = 0 THEN ctoken
                          ELSE [ctoken EXCEPT ![c].current = p, ![c].consumed = given]
             /\ IF done THEN Return(c, "idle")
                ELSE OthersFrom(c, p, call[c].tail, current, call[c].left - given)
  /\ UNCHANGED <<listVars, hashVars, globalOffset, token, my, calls>>

------------------------------------------------------------------------------
EnqueuerStep(e) ==
  \/ Probe(e) \/ Reserve(e) \/ TestAndSet(e) \/ Reload(e)
  \/ Resize(e) \/ Double(e) \/ Allocate(e) \/ Unlock(e)
  \/ Create(e) \/ Push(e)
  \/ \E n \in Batches : Enqueue(e, n)

TokenStep(k) == Recycle(k) \/ Create(k) \/ Push(k) \/ Link(k) \/ Deactivate(k)

ConsumerStep(c) ==
  \/ AnswerShort(c) \/ Score(c) \/ ScoreNone(c) \/ TakeBest(c) \/ Walk(c) \/ TakeFromOne(c)
  \/ RotationTail(c) \/ RotationCount(c) \/ Rotate(c) \/ TakeCurrent(c) \/ MakeAllRotate(c)
  \/ LoadTail(c) \/ TakeOther(c)

TokenCall(k) ==
  \/ Construct(k) \/ BeginDestroy(k)
  \/ \E j \in Tokens : Swap(k, j)
  \/ \E n \in Batches : EnqueueWith(k, n)

ConsumerCall(c) ==
  \/ BeginScored(c) \/ BeginWithToken(c, FALSE, 1)
  \/ \E max \in 1 .. MaxBulk :
       \/ BeginWalk(c, max) \/ BeginWithToken(c, TRUE, max)
       \/ \E k \in Tokens : BeginFrom(c, k, max)

Next ==
  \/ \E e \in Enqueuers : Lookup(e) \/ EnqueuerStep(e)
  \/ \E k \in Tokens : TokenCall(k) \/ TokenStep(k)
  \/ \E c \in Consumers : ConsumerCall(c) \/ ConsumerStep(c)

Spec == Init /\ [][Next]_vars

------------------------------------------------------------------------------
(* Properties                                                                     *)

\* The implicit producers that a thread has found or made.
ProducersOf(e) ==
  (UNION {{tables[h][i].value : i \in SlotOf(e, h)} : h \in DOMAIN tables})
  \cup ({my[e].made} \ {NoOne})

\* A thread has one implicit producer, however the tables grow and whoever else puts
\* itself into them, and has it alone: the producer's code relies on a single thread that
\* enqueues, and a second producer would undo the order of the thread's elements.
OwnProducer ==
  /\ \A e \in Enqueuers : Cardinality(ProducersOf(e)) <= 1
  /\ \A e, d \in Enqueuers : e # d => ProducersOf(e) \cap ProducersOf(d) = {}

\* A valid token and its producer know each other, through swaps, moves, and producers
\* that are given back by one thread while others search: so no two tokens share a
\* producer, and the queue's destructor invalidates all of them.
TokensLinked ==
  \A k \in Tokens : token[k] # NoOne =>
    prod[token[k]].token = k /\ prod[token[k]].explicit /\ ~prod[token[k]].inactive

\* A rotation divides by a count that has been read after the tail: it covers all the
\* producers that can be reached from there, and is not zero.
CountCoversList ==
  \A c \in Consumers : pc[c] = "rotate" =>
    /\ call[c].prodCount > 0
    /\ call[c].prodCount >= Len(list) - Place(call[c].tail) + 1

\* A dequeue that no other overlaps gives less than it was asked for only if each producer
\* that was there when it began has been without elements at some moment since, whichever
\* way it goes around the list, and whatever is enqueued and added to the list meanwhile.
ShortAnswersHonest == \A c \in Consumers : pc[c] = "short" => full[c] = {}

\* What the loops of get_or_add_implicit_producer count on to end: each table, the old ones
\* to which threads are still adding included, has a free slot for the probing to stop at;
\* and as long as the lock of the resize is set, exactly one thread has it, which releases
\* it, with or without a new table, before it returns.
NobodySpins ==
  /\ \A h \in DOMAIN tables : \E i \in DOMAIN tables[h] : tables[h][i].key = NoOne
  /\ LET lockers == {e \in Enqueuers : pc[e] \in {"resize", "allocate", "unlock", "unlockFailed"}}
     IN Cardinality(lockers) = IF resizing THEN 1 ELSE 0

===============================================================================
