------------------------------ MODULE FifoQueue ------------------------------
(***************************************************************************)
(* What one producer's sub-queue of the concurrent queue promises: one     *)
(* thread enqueues batches, any thread dequeues up to a number of          *)
(* elements, first in, first out.  A dequeue that overlaps no other        *)
(* dequeue gets as many elements as there were when it began (or as many   *)
(* as it asked for); one that overlaps others may get fewer, down to none, *)
(* although elements are left.                                             *)
(*                                                                         *)
(* Elements are numbered in the order of their construction, modulo        *)
(* Numbers.                                                                *)
(***************************************************************************)
EXTENDS Integers, Sequences

CONSTANTS Consumers, Numbers, FirstNumber, MaxBulk

VARIABLES
  queue,    \* the elements, oldest first
  next,     \* the number of the next element
  wanted,   \* how many elements a dequeue under way asks for; 0: none under way
  owed,     \* how many it must get
  taken     \* what a dequeue got, until it returns

fifoVars == <<queue, next, wanted, owed, taken>>

SmallerOf(a, b) == IF a < b THEN a ELSE b

FifoInit ==
  /\ queue = << >>
  /\ next = FirstNumber
  /\ wanted = [c \in Consumers |-> 0]
  /\ owed = [c \in Consumers |-> 0]
  /\ taken = [c \in Consumers |-> << >>]

EnqueueBatch(n) ==
  /\ next' = (next + n) % Numbers
  /\ queue' = queue \o [i \in 1 .. n |-> (next + i - 1) % Numbers]
  /\ UNCHANGED <<wanted, owed, taken>>

Call(c, n) ==
  /\ wanted[c] = 0
  /\ wanted' = [wanted EXCEPT ![c] = n]
  /\ taken[c] = << >>
  /\ owed' = [d \in Consumers |->
                IF d = c /\ \A e \in Consumers : wanted[e] = 0
                THEN SmallerOf(n, Len(queue)) ELSE 0]
  /\ UNCHANGED <<queue, next, taken>>

Take(c, n) ==
  /\ wanted[c] > 0
  /\ wanted' = [wanted EXCEPT ![c] = 0]
  /\ owed' = [owed EXCEPT ![c] = 0]
  /\ n \in owed[c] .. SmallerOf(wanted[c], Len(queue))
  /\ taken' = [taken EXCEPT ![c] = SubSeq(queue, 1, n)]
  /\ queue' = SubSeq(queue, n + 1, Len(queue))
  /\ UNCHANGED next

Return(c) ==
  /\ wanted[c] = 0 /\ taken[c] # << >>
  /\ taken' = [taken EXCEPT ![c] = << >>]
  /\ UNCHANGED <<queue, next, wanted, owed>>

\* The queue is destroyed with what is left, while nobody uses it.
Discard ==
  /\ \A c \in Consumers : wanted[c] = 0
  /\ UNCHANGED <<next, wanted, owed>>
  /\ queue' = << >>
  /\ \A c \in Consumers : taken[c] = << >>
  /\ UNCHANGED taken

FifoNext ==
  \/ Discard
  \/ \E n \in 1 .. MaxBulk : EnqueueBatch(n)
  \/ \E c \in Consumers : \E n \in 1 .. MaxBulk : Call(c, n)
  \/ \E c \in Consumers : \E n \in 0 .. MaxBulk : Take(c, n)
  \/ \E c \in Consumers : Return(c)

FifoSpec == FifoInit /\ [][FifoNext]_fifoVars

==============================================================================
