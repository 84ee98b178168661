-------------------------- MODULE CountingSemaphore --------------------------
(***************************************************************************)
(* What LightweightSemaphore promises its callers: permits are neither     *)
(* made up nor lost, a call acquires what it is allowed to ask for, and it *)
(* comes back with nothing only when all permits there are have other      *)
(* takers that wait for them.                                              *)
(***************************************************************************)
EXTENDS Integers, FiniteSets

CONSTANTS Threads, MaxBulk

VARIABLES
  permits,
  wanted,     \* how many permits a thread in a call still asks for
  acquired    \* it has got one already

semaphoreVars == <<permits, wanted, acquired>>

SemaphoreInit ==
  /\ permits = 0
  /\ wanted = [t \in Threads |-> 0]
  /\ acquired = [t \in Threads |-> FALSE]

Leave(t) ==
  /\ wanted' = [wanted EXCEPT ![t] = 0]
  /\ acquired' = [acquired EXCEPT ![t] = FALSE]

Call(t, n) ==
  /\ wanted[t] = 0
  /\ wanted' = [wanted EXCEPT ![t] = n]
  /\ UNCHANGED <<permits, acquired>>

Acquire(t, n) ==
  /\ n <= wanted[t] /\ n <= permits
  /\ permits' = permits - n
  /\ \/ Leave(t)
     \/ /\ n < wanted[t]
        /\ wanted' = [wanted EXCEPT ![t] = @ - n]
        /\ acquired' = [acquired EXCEPT ![t] = TRUE]

Stop(t) ==
  /\ acquired[t]
  /\ Leave(t)
  /\ UNCHANGED permits

\* A try, or a timeout.
Fail(t) ==
  /\ wanted[t] > 0 /\ ~acquired[t]
  /\ permits <= Cardinality({s \in Threads \ {t} : wanted[s] > 0})
  /\ Leave(t)
  /\ UNCHANGED permits

Signal(n) ==
  /\ permits' = permits + n
  /\ UNCHANGED <<wanted, acquired>>

SemaphoreNext ==
  \/ \E n \in 1 .. MaxBulk : Signal(n)
  \/ \E t \in Threads : \E n \in 1 .. MaxBulk : Call(t, n) \/ Acquire(t, n)
  \/ \E t \in Threads : Stop(t) \/ Fail(t)

SemaphoreSpec == SemaphoreInit /\ [][SemaphoreNext]_semaphoreVars

==============================================================================
