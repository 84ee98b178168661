---------------------------- MODULE BlockingQueue ----------------------------
(***************************************************************************)
(* BlockingConcurrentQueue: a concurrent queue and a LightweightSemaphore  *)
(* that counts its elements.  A producer enqueues first and signals next;  *)
(* a consumer acquires first, with its spinning, waiting and timing out,   *)
(* and then takes as many elements as it has acquired.                     *)
(*                                                                         *)
(* The queue itself is the number of its elements: what a consumer gets    *)
(* out of it is the subject of the modules about the producers.  The       *)
(* semaphore of the kernel wakes sleepers as soon as it is released and    *)
(* keeps the tokens that nobody sleeps for.                                *)
(***************************************************************************)
EXTENDS Integers, FiniteSets, FiniteSetsExt, Sums

CONSTANTS
  Producers, Consumers,
  MaxBulk,       \* the most elements a call is about
  MaxEnqueued    \* bounds the elements

ASSUME BlockingQueueAssumption ==
  /\ IsFiniteSet(Producers) /\ IsFiniteSet(Consumers)
  /\ MaxBulk \in Nat \ {0} /\ MaxEnqueued \in Nat

VARIABLES
  size,       \* the elements of the inner queue
  enqueued,   \* how many have ever been enqueued
  count,      \* m_count
  tokens,     \* m_sema
  ppc, items, \* where a producer is, and what it is about: its count, then toRelease
  cpc,        \* where a consumer is
  call        \* its locals

vars == <<size, enqueued, count, tokens, ppc, items, cpc, call>>
producerVars == <<ppc, items>>
consumerVars == <<cpc, call>>

Modes == {"try", "timed", "forever"}
NoCall == [max |-> 0, mode |-> "try", old |-> 0, got |-> 0]
SmallerOf(a, b) == IF a < b THEN a ELSE b
Positive(n) == IF n > 0 THEN n ELSE 0

Init ==
  /\ size = 0 /\ enqueued = 0
  /\ count = 0 /\ tokens = 0
  /\ ppc = [p \in Producers |-> "idle"] /\ items = [p \in Producers |-> 0]
  /\ cpc = [c \in Consumers |-> "idle"] /\ call = [c \in Consumers |-> NoCall]

------------------------------------------------------------------------------
(* enqueue, enqueue_bulk and the try_ calls; a failure of the inner queue changes *)
(* nothing and is left out.                                                       *)
EnqueueInner(p, n) ==
  /\ ppc[p] = "idle" /\ enqueued + n <= MaxEnqueued
  /\ size' = size + n
  /\ enqueued' = enqueued + n
  /\ items' = [items EXCEPT ![p] = n]
  /\ ppc' = [ppc EXCEPT ![p] = "signal"]
  /\ UNCHANGED <<count, tokens, consumerVars>>

\* Mutant of Signal: the waiters are counted after the increment.
SignalTooLate(p) ==
  /\ ppc[p] = "signal"
  /\ count' = count + items[p]
  /\ LET toRelease == SmallerOf(Positive(-count'), items[p])
     IN /\ items' = [items EXCEPT ![p] = toRelease]
        /\ ppc' = [ppc EXCEPT ![p] = IF toRelease > 0 THEN "release" ELSE "idle"]
  /\ UNCHANGED <<size, enqueued, tokens, consumerVars>>

\* LightweightSemaphore::signal: as many tokens as there were waiters.
Signal(p) ==
  /\ ppc[p] = "signal"
  /\ count' = count + items[p]
  /\ LET toRelease == SmallerOf(Positive(-count), items[p])
     IN /\ items' = [items EXCEPT ![p] = toRelease]
        /\ ppc' = [ppc EXCEPT ![p] = IF toRelease > 0 THEN "release" ELSE "idle"]
  /\ UNCHANGED <<size, enqueued, tokens, consumerVars>>

\* ReleaseSemaphore: sleepers are woken with a token each, the other tokens stay.
ReleaseTokens(p) ==
  /\ ppc[p] = "release"
  /\ LET sleepers == {c \in Consumers : cpc[c] = "sleep"}
         n == SmallerOf(items[p], Cardinality(sleepers))
     IN /\ \E woken \in kSubset(n, sleepers) :
             cpc' = [c \in Consumers |-> IF c \in woken THEN "woken" ELSE cpc[c]]
        /\ tokens' = tokens + items[p] - n
  /\ items' = [items EXCEPT ![p] = 0]
  /\ ppc' = [ppc EXCEPT ![p] = "idle"]
  /\ UNCHANGED <<size, enqueued, count, call>>

------------------------------------------------------------------------------
(* LightweightSemaphore, for one consumer.  A call for one is a call for many with *)
(* max = 1.                                                                        *)
Goto(c, l) == cpc' = [cpc EXCEPT ![c] = l]
Locals(c, l) == call' = [call EXCEPT ![c] = l]

BeginDequeue(c, max, mode) ==
  /\ cpc[c] = "idle"
  /\ Locals(c, [NoCall EXCEPT !.max = max, !.mode = mode])
  /\ Goto(c, "try")
  /\ UNCHANGED <<size, enqueued, count, tokens, producerVars>>

\* Permits have been acquired: n of them, and what had been before.
Acquired(c, n) ==
  LET got == call[c].got + n
  IN /\ Locals(c, [call[c] EXCEPT !.got = got, !.old = 0])
     /\ Goto(c, IF cpc[c] \in {"sub", "wait", "woken", "retry"} /\ call[c].max > 1 THEN "try" ELSE "take")

\* tryWait, tryWaitMany: without a permit, the call ends, starts to wait, or is content
\* with the one it has waited for.
TryFailed(c) ==
  \/ /\ call[c].got > 0
     /\ Goto(c, "take") /\ Locals(c, [call[c] EXCEPT !.old = 0])
  \/ /\ call[c].got = 0 /\ call[c].mode = "try"
     /\ Goto(c, "idle") /\ Locals(c, NoCall)
  \/ /\ call[c].got = 0 /\ call[c].mode # "try"
     /\ Goto(c, "spin") /\ Locals(c, [call[c] EXCEPT !.old = 0])

TryLoad(c) ==
  /\ cpc[c] = "try"
  /\ IF count > 0 THEN Goto(c, "tryCas") /\ Locals(c, [call[c] EXCEPT !.old = count])
     ELSE TryFailed(c)
  /\ UNCHANGED <<size, enqueued, count, tokens, producerVars>>

\* Mutant of TryCas: a plain store.
TryStore(c) ==
  /\ cpc[c] = "tryCas"
  /\ LET n == SmallerOf(call[c].old, call[c].max - call[c].got)
     IN count' = call[c].old - n /\ Acquired(c, n)
  /\ UNCHANGED <<size, enqueued, tokens, producerVars>>

\* A failed compare_exchange loads the count again.
TryCas(c) ==
  /\ cpc[c] = "tryCas"
  /\ LET n == SmallerOf(call[c].old, call[c].max - call[c].got)
     IN IF count = call[c].old THEN count' = count - n /\ Acquired(c, n)
        ELSE /\ UNCHANGED count
             /\ IF count > 0 THEN UNCHANGED cpc /\ Locals(c, [call[c] EXCEPT !.old = count])
                ELSE TryFailed(c)
  /\ UNCHANGED <<size, enqueued, tokens, producerVars>>

\* The spinning of the wait calls, any number of times.
SpinLoad(c) ==
  /\ cpc[c] = "spin"
  /\ Locals(c, [call[c] EXCEPT !.old = count])
  /\ Goto(c, "spinCas")
  /\ UNCHANGED <<size, enqueued, count, tokens, producerVars>>

SpinCas(c) ==
  /\ cpc[c] = "spinCas"
  /\ LET n == SmallerOf(call[c].old, call[c].max)
     IN IF call[c].old > 0 /\ count = call[c].old THEN count' = count - n /\ Acquired(c, n)
        ELSE /\ UNCHANGED count
             /\ Locals(c, [call[c] EXCEPT !.old = 0])
             /\ Goto(c, "spin") \/ Goto(c, "sub")
  /\ UNCHANGED <<size, enqueued, tokens, producerVars>>

\* The count goes below zero by the number of those who wait.
FetchSub(c) ==
  /\ cpc[c] = "sub"
  /\ count' = count - 1
  /\ IF count > 0 THEN Acquired(c, 1) ELSE Goto(c, "wait") /\ UNCHANGED call
  /\ UNCHANGED <<size, enqueued, tokens, producerVars>>

SemaWait(c) ==
  /\ cpc[c] = "wait"
  /\ IF tokens > 0 THEN tokens' = tokens - 1 /\ Acquired(c, 1)
     ELSE Goto(c, "sleep") /\ UNCHANGED <<tokens, call>>
  /\ UNCHANGED <<size, enqueued, count, producerVars>>

WakeUp(c) ==
  /\ cpc[c] = "woken"
  /\ Acquired(c, 1)
  /\ UNCHANGED <<size, enqueued, count, tokens, producerVars>>

Timeout(c) ==
  /\ cpc[c] = "sleep" /\ call[c].mode = "timed"
  /\ Goto(c, "adjust")
  /\ UNCHANGED <<size, enqueued, count, tokens, producerVars, call>>

\* The thread still counts as waiting: it takes itself off the count or, if it has been
\* signalled since, takes its token.
AdjustLoad(c) ==
  /\ cpc[c] = "adjust"
  /\ Locals(c, [call[c] EXCEPT !.old = count])
  /\ Goto(c, IF count >= 0 THEN "retry" ELSE "adjustCas")
  /\ UNCHANGED <<size, enqueued, count, tokens, producerVars>>

\* Mutant of TryWaitToken: a count that is not negative is taken for a token.
TakeForToken(c) ==
  /\ cpc[c] = "retry"
  /\ Acquired(c, 1)
  /\ UNCHANGED <<size, enqueued, count, tokens, producerVars>>

TryWaitToken(c) ==
  /\ cpc[c] = "retry"
  /\ IF tokens > 0 THEN tokens' = tokens - 1 /\ Acquired(c, 1)
     ELSE Goto(c, "adjust") /\ UNCHANGED <<tokens, call>>
  /\ UNCHANGED <<size, enqueued, count, producerVars>>

\* Mutant of AdjustCas: fetch_add, whatever has happened since the load.
AdjustBlindly(c) ==
  /\ cpc[c] = "adjustCas"
  /\ count' = count + 1 /\ Goto(c, "idle") /\ Locals(c, NoCall)
  /\ UNCHANGED <<size, enqueued, tokens, producerVars>>

AdjustCas(c) ==
  /\ cpc[c] = "adjustCas"
  /\ IF count = call[c].old
     THEN count' = count + 1 /\ Goto(c, "idle") /\ Locals(c, NoCall)
     ELSE Goto(c, "adjust") /\ UNCHANGED <<count, call>>
  /\ UNCHANGED <<size, enqueued, tokens, producerVars>>

\* The inner queue is asked until it has given what was acquired; it may give less at a
\* time, or nothing.
Take(c) ==
  /\ cpc[c] = "take"
  /\ \E n \in 1 .. SmallerOf(call[c].got, size) :
       /\ size' = size - n
       /\ IF n = call[c].got THEN Goto(c, "idle") /\ Locals(c, NoCall)
          ELSE Locals(c, [call[c] EXCEPT !.got = @ - n]) /\ UNCHANGED cpc
  /\ UNCHANGED <<enqueued, count, tokens, producerVars>>

------------------------------------------------------------------------------
SemaphoreCall(c) ==
  \/ TryLoad(c) \/ TryCas(c) \/ SpinLoad(c) \/ SpinCas(c) \/ FetchSub(c) \/ SemaWait(c) \/ WakeUp(c)
  \/ AdjustLoad(c) \/ TryWaitToken(c) \/ AdjustCas(c)

Publish(p) == Signal(p) \/ ReleaseTokens(p)

Next ==
  \/ \E p \in Producers : Publish(p) \/ \E n \in 0 .. MaxBulk : EnqueueInner(p, n)
  \/ \E c \in Consumers : SemaphoreCall(c) \/ Timeout(c) \/ Take(c)
  \/ \E c \in Consumers : \E max \in 1 .. MaxBulk : \E mode \in Modes :
       BeginDequeue(c, max, mode)

\* A call goes on until it returns, and leaves its spinning after a while.  Nobody has
\* to call, and a timeout need not come.
Spec ==
  /\ Init /\ [][Next]_vars
  /\ \A p \in Producers : WF_vars(Publish(p))
  /\ \A c \in Consumers : /\ WF_vars(SemaphoreCall(c)) /\ WF_vars(Take(c))
                          /\ SF_vars(SpinCas(c) /\ cpc'[c] # "spin")

------------------------------------------------------------------------------
(* Properties                                                                     *)

\* The threads that are counted as waiting.
Waiters == {c \in Consumers : cpc[c] \in {"wait", "sleep", "woken", "adjust", "retry", "adjustCas"}}
ItemsAt(l) == Total(items, {p \in Producers : ppc[p] = l}, MaxBulk)
Held == Total([c \in Consumers |-> call[c].got], Consumers, MaxBulk)

\* The tokens that are there, have just been handed over, or are on their way.
AllTokens ==
  tokens + Cardinality({c \in Consumers : cpc[c] = "woken"}) + ItemsAt("release")

\* A thread counts as waiting until it has a token or has taken itself off again: for each
\* of them the count is one below zero, or a token is there or on its way.  A thread that
\* times out cannot leave a token behind, nor take one that is not for it.
WaitersExact == Cardinality(Waiters) = Positive(-count) + AllTokens

\* Every element has one permit: it is not signalled yet, counted, on its way to a waiter,
\* or held by a consumer that has yet to take it.  So no element is stranded, the loops
\* that take what was acquired come to an end, and size_approx (the positive count) is
\* exact when nobody is in a call.
ElementsAccounted ==
  size = ItemsAt("signal") + Positive(count) + AllTokens + Held

\* Nobody sleeps for ever in a queue that has elements.
SleepersWake ==
  (size > 0 /\ \E c \in Consumers : cpc[c] = "sleep")
    ~> (size = 0 \/ \A c \in Consumers : cpc[c] # "sleep")

\* LightweightSemaphore implements a counting semaphore: permits that a producer has yet
\* to hand over to the waiters exist already.
InSemaphore(c) == cpc[c] \notin {"idle", "take"}
Permits == Positive(count) + AllTokens
Wanted == [c \in Consumers |-> IF InSemaphore(c) THEN call[c].max - call[c].got ELSE 0]
HasOne == [c \in Consumers |-> InSemaphore(c) /\ call[c].got > 0]
Semaphore == INSTANCE CountingSemaphore WITH
  Threads <- Consumers, permits <- Permits, wanted <- Wanted, acquired <- HasOne

\* A call of the semaphore gets permits that exist, no more than it asks for, and fails,
\* by a try or by a timeout, only if all of them have other takers.
SemaphoreSpec == Semaphore!SemaphoreSpec

===============================================================================
