------------------------- MODULE BlockingQueueProofs -------------------------
(***************************************************************************)
(* Theorems about BlockingQueue that hold for every number of producers    *)
(* and consumers and every size of a batch.                                *)
(***************************************************************************)
EXTENDS BlockingQueue, FiniteSetTheorems, TLAPS

------------------------------------------------------------------------------
(* How a sum changes with one of its terms.                                *)

\* A function whose values on S can be summed up.
Summable(f, S, max) == IsFiniteSet(S) /\ \A i \in S : f[i] \in 0 .. max

Term(f, S, i) == IF i \in S THEN f[i] ELSE 0

LEMMA UnitsFinite ==
  ASSUME NEW max \in Nat, NEW S, NEW f, Summable(f, S, max)
  PROVE  IsFiniteSet(Units(f, S, max)) /\ Total(f, S, max) \in Nat
<1>1. IsFiniteSet(1 .. max)
  BY FS_Interval
<1>2. IsFiniteSet(S \X (1 .. max))
  BY <1>1, FS_Product DEF Summable
<1>3. Units(f, S, max) \in SUBSET (S \X (1 .. max))
  BY DEF Units
<1>4. IsFiniteSet(Units(f, S, max))
  BY <1>2, <1>3, FS_Subset
<1>5. QED
  BY <1>4, FS_CardinalityType DEF Total

\* The units of one term.
LEMMA OwnUnits ==
  ASSUME NEW i, NEW n \in Nat
  PROVE  IsFiniteSet({i} \X (1 .. n)) /\ Cardinality({i} \X (1 .. n)) = n
<1>1. IsFiniteSet(1 .. n) /\ Cardinality(1 .. n) = n
  BY FS_Interval
<1>2. IsFiniteSet({i}) /\ Cardinality({i}) = 1
  BY FS_Singleton
<1>3. IsFiniteSet({i} \X (1 .. n)) /\ Cardinality({i} \X (1 .. n)) = 1 * n
  BY <1>1, <1>2, FS_Product
<1>4. QED
  BY <1>3

\* The units of all terms but one.
Rest(f, S, max, i) == {x \in Units(f, S, max) : x[1] # i}

\* The sum is one term and the rest.
LEMMA TotalSplit ==
  ASSUME NEW max \in Nat, NEW S, NEW f, Summable(f, S, max), NEW i
  PROVE  /\ Cardinality(Rest(f, S, max, i)) \in Nat
         /\ Total(f, S, max) = Cardinality(Rest(f, S, max, i)) + Term(f, S, i)
<1> DEFINE rest == Rest(f, S, max, i)
           own == {i} \X (1 .. f[i])
<1>1. IsFiniteSet(rest) /\ Cardinality(rest) \in Nat
  <2>1. rest \in SUBSET Units(f, S, max)
    BY DEF Rest
  <2>2. QED
    BY <2>1, UnitsFinite, FS_Subset, FS_CardinalityType
<1>2. CASE i \notin S
  <2>1. rest = Units(f, S, max)
    BY <1>2 DEF Rest, Units
  <2>2. QED
    BY <1>1, <1>2, <2>1 DEF Total, Term
<1>3. CASE i \in S
  <2>1. f[i] \in Nat /\ f[i] <= max
    BY <1>3 DEF Summable
  <2>2. IsFiniteSet(own) /\ Cardinality(own) = f[i]
    BY <2>1, OwnUnits
  <2>3. Units(f, S, max) = rest \cup own
    BY <1>3, <2>1 DEF Units, Rest
  <2>4. rest \cap own = {}
    BY DEF Rest
  <2>5. Cardinality(rest \cup own) = Cardinality(rest) + f[i] - 0
    BY <1>1, <2>2, <2>4, FS_Union, FS_EmptySet
  <2>6. QED
    BY <1>1, <1>3, <2>1, <2>3, <2>5 DEF Total, Term
<1>4. QED
  BY <1>2, <1>3

\* Where two sums differ in one term only.
LEMMA TotalChange ==
  ASSUME NEW max \in Nat, NEW S, NEW f, Summable(f, S, max),
         NEW T, NEW g, Summable(g, T, max),
         NEW i, S \ {i} = T \ {i}, \A j \in S \ {i} : g[j] = f[j]
  PROVE  Total(g, T, max) = Total(f, S, max) + Term(g, T, i) - Term(f, S, i)
<1>1. Rest(g, T, max, i) = Rest(f, S, max, i)
  BY DEF Rest, Units
<1>2. /\ Total(f, S, max) = Cardinality(Rest(f, S, max, i)) + Term(f, S, i)
      /\ Cardinality(Rest(f, S, max, i)) \in Nat
  BY TotalSplit
<1>3. Total(g, T, max) = Cardinality(Rest(g, T, max, i)) + Term(g, T, i)
  BY TotalSplit
<1>4. Term(f, S, i) \in Nat /\ Term(g, T, i) \in Nat
  BY DEF Term, Summable
<1>5. QED
  BY <1>1, <1>2, <1>3, <1>4

\* Where two sums over one set differ in one term only.
LEMMA TotalOne ==
  ASSUME NEW max \in Nat, NEW S, NEW f, Summable(f, S, max), NEW g, Summable(g, S, max),
         NEW i \in S, \A j \in S \ {i} : g[j] = f[j]
  PROVE  Total(g, S, max) = Total(f, S, max) + g[i] - f[i]
<1>1. \E T : T = S
  OBVIOUS
<1>2. Total(g, S, max) = Total(f, S, max) + Term(g, S, i) - Term(f, S, i)
  <2>1. PICK T : T = S
    BY <1>1
  <2>2. Summable(g, T, max) /\ S \ {i} = T \ {i}
    BY <2>1
  <2>3. Total(g, T, max) = Total(f, S, max) + Term(g, T, i) - Term(f, S, i)
    BY <2>2, TotalChange
  <2> QED
    BY <2>1, <2>3
<1>3. QED
  BY <1>2 DEF Term

LEMMA TotalZero ==
  ASSUME NEW max \in Nat, NEW S, NEW f, \A i \in S : f[i] = 0
  PROVE  Total(f, S, max) = 0
<1>1. Units(f, S, max) = {}
  BY DEF Units
<1>2. QED
  BY <1>1, FS_EmptySet DEF Total

-----------------------------------------------------------------------------
(* The inductive invariant.                                                *)

WaiterPcs == {"wait", "sleep", "woken", "adjust", "retry", "adjustCas"}
ConsumerPcs == {"idle", "try", "tryCas", "spin", "spinCas", "sub", "take"} \cup WaiterPcs

Calls == [max : Nat, mode : Modes, old : Int, got : Nat]

TypeOK ==
  /\ size \in Nat /\ enqueued \in Nat
  /\ count \in Int /\ tokens \in Nat
  /\ ppc \in [Producers -> {"idle", "signal", "release"}]
  /\ items \in [Producers -> 0 .. MaxBulk]
  /\ cpc \in [Consumers -> ConsumerPcs]
  /\ call \in [Consumers -> Calls]

\* What a consumer has in hand at a place of its call: it still wants permits in the
\* semaphore, and has got some after it; it waits for its first permit only.  It tries
\* to exchange a positive count to acquire, and a negative one to stop waiting.
Fits(l, e) ==
  /\ l = "idle" => e = NoCall
  /\ l # "idle" => e.max \in 1 .. MaxBulk
  /\ l \in {"try", "tryCas"} => e.got < e.max
  /\ l \in {"spin", "spinCas", "sub"} \cup WaiterPcs => e.got = 0
  /\ l = "take" => e.got \in 1 .. e.max
  /\ l = "tryCas" => e.old > 0
  /\ l = "adjustCas" => e.old < 0

LocalsOK == \A c \in Consumers : Fits(cpc[c], call[c])

IInv == TypeOK /\ LocalsOK /\ WaitersExact /\ ElementsAccounted

-----------------------------------------------------------------------------
(* Types and locals.                                                       *)

LEMMA MinPos ==
  \A a, b \in Int :
    /\ SmallerOf(a, b) \in Int /\ SmallerOf(a, b) <= a /\ SmallerOf(a, b) <= b
    /\ SmallerOf(a, b) = a \/ SmallerOf(a, b) = b
BY DEF SmallerOf

LEMMA InitIInv == Init => IInv
<1> SUFFICES ASSUME Init PROVE IInv
  OBVIOUS
<1> USE BlockingQueueAssumption DEF BlockingQueueAssumption
<1>1. TypeOK /\ LocalsOK
  BY DEF Init, TypeOK, LocalsOK, Fits, Calls, Modes, NoCall, ConsumerPcs, WaiterPcs
<1>2. Waiters = {} /\ {c \in Consumers : cpc[c] = "woken"} = {}
  BY DEF Init, Waiters
<1>3. ItemsAt("release") = 0 /\ ItemsAt("signal") = 0
  BY TotalZero DEF Init, ItemsAt
<1>4. Held = 0
  BY TotalZero DEF Init, Held, NoCall
<1>5. QED
  BY <1>1, <1>2, <1>3, <1>4, FS_EmptySet
  DEF Init, IInv, WaitersExact, ElementsAccounted, AllTokens, Positive

LEMMA PositiveParts ==
  ASSUME NEW n \in Int
  PROVE  /\ Positive(n) \in Nat /\ Positive(-n) \in Nat
         /\ n >= 0 => Positive(n) = n /\ Positive(-n) = 0
         /\ n <= 0 => Positive(n) = 0 /\ Positive(-n) = -n
BY DEF Positive

LEMMA SubsetsFinite ==
  \A S \in SUBSET Consumers : IsFiniteSet(S) /\ Cardinality(S) \in Nat
BY FS_Subset, FS_CardinalityType, BlockingQueueAssumption DEF BlockingQueueAssumption

LEMMA ProducerType ==
  ASSUME IInv, NEW p \in Producers, Publish(p) \/ \E n \in 0 .. MaxBulk : EnqueueInner(p, n)
  PROVE  TypeOK' /\ LocalsOK'
<1> USE BlockingQueueAssumption DEF BlockingQueueAssumption, IInv, TypeOK
<1>1. CASE \E n \in 0 .. MaxBulk : EnqueueInner(p, n)
  BY <1>1 DEF EnqueueInner, LocalsOK, consumerVars
<1>2. CASE Signal(p)
  <2>1. SmallerOf(Positive(-count), items[p]) \in 0 .. MaxBulk
    BY DEF SmallerOf, Positive
  <2>2. QED
    BY <1>2, <2>1 DEF Signal, LocalsOK, consumerVars
<1>3. CASE ReleaseTokens(p)
  <2>1. PICK woken \in SUBSET {c \in Consumers : cpc[c] = "sleep"} :
          cpc' = [c \in Consumers |-> IF c \in woken THEN "woken" ELSE cpc[c]]
    BY <1>3 DEF ReleaseTokens, kSubset
  <2>2. cpc' \in [Consumers -> ConsumerPcs] /\ call' = call
    BY <1>3, <2>1 DEF ReleaseTokens, ConsumerPcs, WaiterPcs
  <2>3. LocalsOK'
    BY <2>1, <2>2 DEF LocalsOK, Fits, WaiterPcs
  <2>4. tokens' \in Nat
    <3>1. Cardinality({c \in Consumers : cpc[c] = "sleep"}) \in Nat
      BY SubsetsFinite
    <3>2. items[p] \in Nat
      OBVIOUS
    <3>3. QED
      BY <1>3, <3>1, <3>2 DEF ReleaseTokens, SmallerOf
  <2>5. QED
    BY <1>3, <2>2, <2>3, <2>4 DEF ReleaseTokens
<1>4. QED
  BY <1>1, <1>2, <1>3 DEF Publish

\* A consumer step sets its place and its locals.
Moves(c, l, e) == cpc' = [cpc EXCEPT ![c] = l] /\ call' = [call EXCEPT ![c] = e]

LEMMA MovesType ==
  ASSUME TypeOK, LocalsOK, NEW c \in Consumers, NEW l \in ConsumerPcs, NEW e \in Calls,
         Fits(l, e), Moves(c, l, e)
  PROVE  /\ cpc' \in [Consumers -> ConsumerPcs]
         /\ call' \in [Consumers -> Calls]
         /\ LocalsOK'
BY DEF TypeOK, LocalsOK, Moves

LEMMA CallUpdate ==
  ASSUME NEW r \in Calls, NEW g \in Nat, NEW o \in Int
  PROVE  /\ [r EXCEPT !.got = g, !.old = o] \in Calls
         /\ [r EXCEPT !.got = g, !.old = o].got = g
         /\ [r EXCEPT !.got = g, !.old = o].max = r.max
BY DEF Calls

\* Where a consumer goes with the permits it has acquired.
LEMMA AcquiredMoves ==
  ASSUME TypeOK, LocalsOK, NEW c \in Consumers, NEW n \in Nat \ {0},
         cpc[c] \notin {"idle", "take"}, call[c].got + n <= call[c].max,
         cpc[c] \in {"sub", "wait", "woken", "retry"} => n = 1,
         Acquired(c, n)
  PROVE  \E l \in {"try", "take"}, e \in Calls :
           /\ Fits(l, e) /\ Moves(c, l, e)
           /\ e.got = call[c].got + n /\ e.max = call[c].max
           /\ l = "try" <=> cpc[c] \in {"sub", "wait", "woken", "retry"} /\ call[c].max > 1
<1>1. call[c] \in Calls /\ Fits(cpc[c], call[c]) /\ cpc[c] \in ConsumerPcs
  BY DEF TypeOK, LocalsOK
<1>2. PICK r \in Calls, g \in Nat : r = call[c] /\ g = r.got + n
  BY <1>1 DEF Calls
<1> DEFINE e == [r EXCEPT !.got = g, !.old = 0]
<1>3. e \in Calls /\ e.got = g /\ e.max = r.max
  <2>1. PICK o \in Int : o = 0
    OBVIOUS
  <2>2. /\ [r EXCEPT !.got = g, !.old = o] \in Calls
        /\ [r EXCEPT !.got = g, !.old = o].got = g
        /\ [r EXCEPT !.got = g, !.old = o].max = r.max
    BY DEF Calls
  <2>3. QED
    BY <2>1, <2>2
<1> DEFINE l == IF cpc[c] \in {"sub", "wait", "woken", "retry"} /\ r.max > 1
                THEN "try" ELSE "take"
<1>4. Moves(c, l, e)
  BY <1>2 DEF Acquired, Locals, Goto, Moves
<1>5. r.max \in 1 .. MaxBulk /\ g <= r.max /\ g >= 1
  BY <1>1, <1>2 DEF Fits, Calls
<1>6. l = "try" => g = 1 /\ r.max > 1
  BY <1>1, <1>2 DEF Fits, WaiterPcs
<1>7. Fits(l, e)
  BY <1>3, <1>5, <1>6 DEF Fits, WaiterPcs
<1>8. QED
  BY <1>2, <1>3, <1>4, <1>7

-----------------------------------------------------------------------------
(* What a step of a consumer amounts to: l and e are where it goes and its *)
(* new locals.                                                             *)

Gets(c, l, e, n) ==
  /\ n \in Nat \ {0} /\ call[c].got + n <= call[c].max
  /\ l \in {"try", "take"}
  /\ e.max = call[c].max /\ e.got = call[c].got + n

FromCount(c, l, e) ==
  /\ cpc[c] \in {"tryCas", "spinCas", "sub"}
  /\ \E n \in 1 .. count : Gets(c, l, e, n) /\ count' = count - n
  /\ UNCHANGED <<size, enqueued, tokens>>

FromTokens(c, l, e) ==
  /\ cpc[c] \in {"wait", "retry"} /\ Gets(c, l, e, 1)
  /\ tokens > 0 /\ tokens' = tokens - 1
  /\ UNCHANGED <<size, enqueued, count>>

FromWaker(c, l, e) ==
  /\ cpc[c] = "woken" /\ Gets(c, l, e, 1)
  /\ UNCHANGED <<size, enqueued, count, tokens>>

StartsWaiting(c, l, e) ==
  /\ cpc[c] = "sub" /\ l = "wait" /\ e = call[c]
  /\ count <= 0 /\ count' = count - 1
  /\ UNCHANGED <<size, enqueued, tokens>>

StopsWaiting(c, l, e) ==
  /\ cpc[c] = "adjustCas" /\ l = "idle" /\ e = NoCall
  /\ count < 0 /\ count' = count + 1
  /\ UNCHANGED <<size, enqueued, tokens>>

Begins(c, l, e) ==
  /\ cpc[c] = "idle" /\ l = "try" /\ e.got = 0
  /\ UNCHANGED <<size, enqueued, count, tokens>>

GivesUp(c, l, e) ==
  /\ cpc[c] \in {"try", "tryCas"} /\ l = "idle" /\ e = NoCall
  /\ call[c].got = 0 /\ count <= 0
  /\ UNCHANGED <<size, enqueued, count, tokens>>

IsContent(c, l, e) ==
  /\ cpc[c] \in {"try", "tryCas"} /\ l = "take"
  /\ call[c].got > 0 /\ e.got = call[c].got
  /\ UNCHANGED <<size, enqueued, count, tokens>>

GoesOn(c, l, e) ==
  /\ {cpc[c], l} \cap {"idle", "take", "woken"} = {}
  /\ cpc[c] \in WaiterPcs <=> l \in WaiterPcs
  /\ e.max = call[c].max /\ e.got = call[c].got
  /\ UNCHANGED <<size, enqueued, count, tokens>>

Takes(c, l, e) ==
  /\ cpc[c] = "take" /\ l \in {"take", "idle"}
  /\ \E n \in 1 .. size : n <= call[c].got /\ size' = size - n /\ e.got = call[c].got - n
  /\ UNCHANGED <<enqueued, count, tokens>>

Effect(c, l, e) ==
  \/ FromCount(c, l, e) \/ FromTokens(c, l, e) \/ FromWaker(c, l, e)
  \/ StartsWaiting(c, l, e) \/ StopsWaiting(c, l, e)
  \/ Begins(c, l, e) \/ GivesUp(c, l, e) \/ IsContent(c, l, e) \/ GoesOn(c, l, e)
  \/ Takes(c, l, e)

StepOf(c) ==
  /\ UNCHANGED producerVars
  /\ \E l \in ConsumerPcs, e \in Calls : Fits(l, e) /\ Moves(c, l, e) /\ Effect(c, l, e)

LEMMA TryFailedStep ==
  ASSUME TypeOK, LocalsOK, NEW c \in Consumers, cpc[c] \in {"try", "tryCas"},
         TryFailed(c), count <= 0, UNCHANGED <<size, enqueued, count, tokens, producerVars>>
  PROVE  StepOf(c)
<1>1. PICK r \in Calls : r = call[c] /\ Fits(cpc[c], r)
  BY DEF TypeOK, LocalsOK
<1> DEFINE e == [r EXCEPT !.old = 0]
<1>2. /\ e \in Calls /\ e.got = r.got /\ e.max = r.max
      /\ r.max \in 1 .. MaxBulk /\ r.got \in Nat /\ r.got < r.max
  BY <1>1 DEF Calls, Fits
<1>3. CASE call[c].got > 0 /\ Goto(c, "take") /\ Locals(c, [call[c] EXCEPT !.old = 0])
  <2>1. Fits("take", e) /\ Moves(c, "take", e) /\ IsContent(c, "take", e)
    BY <1>1, <1>2, <1>3 DEF Fits, WaiterPcs, Moves, Goto, Locals, IsContent
  <2>2. QED
    BY <1>2, <2>1 DEF StepOf, Effect, ConsumerPcs
<1>4. CASE call[c].got = 0 /\ Goto(c, "idle") /\ Locals(c, NoCall)
  <2>1. NoCall \in Calls /\ Fits("idle", NoCall)
    BY DEF NoCall, Calls, Modes, Fits, WaiterPcs
  <2>2. Moves(c, "idle", NoCall) /\ GivesUp(c, "idle", NoCall)
    BY <1>4 DEF Moves, Goto, Locals, GivesUp
  <2>3. QED
    BY <2>1, <2>2 DEF StepOf, Effect, ConsumerPcs
<1>5. CASE call[c].got = 0 /\ Goto(c, "spin") /\ Locals(c, [call[c] EXCEPT !.old = 0])
  <2>1. Fits("spin", e) /\ Moves(c, "spin", e) /\ GoesOn(c, "spin", e)
    BY <1>1, <1>2, <1>5 DEF Fits, WaiterPcs, Moves, Goto, Locals, GoesOn
  <2>2. QED
    BY <1>2, <2>1 DEF StepOf, Effect, ConsumerPcs
<1>6. QED
  BY <1>3, <1>4, <1>5 DEF TryFailed

\* A thread that reads the count, or goes on without touching anything shared.
LEMMA GoesOnStep ==
  ASSUME TypeOK, LocalsOK, NEW c \in Consumers, NEW o \in Int, NEW l \in ConsumerPcs,
         {cpc[c], l} \cap {"idle", "take", "woken"} = {},
         cpc[c] \in WaiterPcs <=> l \in WaiterPcs,
         l \in {"try", "tryCas"} => cpc[c] \in {"try", "tryCas"},
         cpc[c] \in {"try", "tryCas"} => l \in {"try", "tryCas"},
         l = "tryCas" => o > 0, l = "adjustCas" => o < 0,
         Goto(c, l), Locals(c, [call[c] EXCEPT !.old = o]),
         UNCHANGED <<size, enqueued, count, tokens, producerVars>>
  PROVE  StepOf(c)
<1>1. PICK r \in Calls : r = call[c] /\ Fits(cpc[c], r)
  BY DEF TypeOK, LocalsOK
<1> DEFINE e == [r EXCEPT !.old = o]
<1>2. e \in Calls /\ e.got = r.got /\ e.max = r.max /\ e.old = o
  BY DEF Calls
<1>3. cpc[c] \in {"try", "tryCas", "spin", "spinCas", "sub"} \cup WaiterPcs
  BY DEF TypeOK, ConsumerPcs
<1>4. Fits(l, e)
  BY <1>1, <1>2, <1>3 DEF Fits, ConsumerPcs, WaiterPcs
<1>5. Moves(c, l, e) /\ GoesOn(c, l, e)
  BY <1>1, <1>2 DEF Moves, Goto, Locals, GoesOn
<1>6. QED
  BY <1>2, <1>4, <1>5 DEF StepOf, Effect

\* A consumer that acquires permits of one of the three kinds.
LEMMA AcquireStep ==
  ASSUME TypeOK, LocalsOK, NEW c \in Consumers, NEW n \in Nat \ {0},
         call[c].got + n <= call[c].max, Acquired(c, n), UNCHANGED producerVars,
         \/ /\ cpc[c] \in {"tryCas", "spinCas", "sub"} /\ n <= count /\ count' = count - n
            /\ cpc[c] = "sub" => n = 1
            /\ UNCHANGED <<size, enqueued, tokens>>
         \/ /\ cpc[c] \in {"wait", "retry"} /\ n = 1 /\ tokens > 0 /\ tokens' = tokens - 1
            /\ UNCHANGED <<size, enqueued, count>>
         \/ cpc[c] = "woken" /\ n = 1 /\ UNCHANGED <<size, enqueued, count, tokens>>
  PROVE  StepOf(c)
<1>1. PICK l \in {"try", "take"}, e \in Calls :
        /\ Fits(l, e) /\ Moves(c, l, e)
        /\ e.got = call[c].got + n /\ e.max = call[c].max
  BY AcquiredMoves
<1>2. Gets(c, l, e, n)
  BY <1>1 DEF Gets
<1>3. n = 1 => Gets(c, l, e, 1)
  BY <1>2
<1>4. count \in Int
  BY DEF TypeOK
<1>5. FromCount(c, l, e) \/ FromTokens(c, l, e) \/ FromWaker(c, l, e)
  BY <1>2, <1>3, <1>4 DEF FromCount, FromTokens, FromWaker
<1>6. QED
  BY <1>1, <1>5 DEF StepOf, Effect, ConsumerPcs

\* A consumer that moves and leaves its locals alone.
LEMMA StaysWaitingStep ==
  ASSUME TypeOK, LocalsOK, NEW c \in Consumers, NEW l \in WaiterPcs \ {"woken", "adjustCas"},
         cpc[c] \in WaiterPcs \ {"woken"},
         Goto(c, l), UNCHANGED <<size, enqueued, count, tokens, producerVars, call>>
  PROVE  StepOf(c)
<1>1. PICK e \in Calls : e = call[c] /\ Fits(cpc[c], e)
  BY DEF TypeOK, LocalsOK
<1>2. Fits(l, e)
  BY <1>1 DEF Fits, WaiterPcs
<1>3. Moves(c, l, e)
  BY <1>1 DEF Moves, Goto, TypeOK
<1>4. GoesOn(c, l, e)
  BY <1>1 DEF GoesOn, WaiterPcs
<1>5. QED
  BY <1>2, <1>3, <1>4 DEF StepOf, Effect, ConsumerPcs

LEMMA NoCallFits == NoCall \in Calls /\ Fits("idle", NoCall) /\ NoCall.got = 0
BY DEF NoCall, Calls, Modes, Fits, WaiterPcs

LEMMA BeginCall ==
  ASSUME NEW max \in 1 .. MaxBulk, NEW mode \in Modes
  PROVE  /\ [NoCall EXCEPT !.max = max, !.mode = mode] \in Calls
         /\ [NoCall EXCEPT !.max = max, !.mode = mode].max = max
         /\ [NoCall EXCEPT !.max = max, !.mode = mode].got = 0
<1>1. max \in Nat
  BY BlockingQueueAssumption DEF BlockingQueueAssumption
<1>2. PICK r \in Calls : r = NoCall /\ r.got = 0
  BY NoCallFits
<1>3. /\ [r EXCEPT !.max = max, !.mode = mode] \in Calls
      /\ [r EXCEPT !.max = max, !.mode = mode].max = max
      /\ [r EXCEPT !.max = max, !.mode = mode].got = r.got
  BY <1>1 DEF Calls
<1>4. QED
  BY <1>2, <1>3

LEMMA CallFacts ==
  ASSUME TypeOK, LocalsOK, NEW c \in Consumers
  PROVE  /\ call[c] \in Calls /\ Fits(cpc[c], call[c]) /\ cpc[c] \in ConsumerPcs
         /\ call[c].max \in Nat /\ call[c].got \in Nat /\ call[c].old \in Int
         /\ call[c].got \in 0 .. MaxBulk
         /\ count \in Int /\ tokens \in Nat /\ size \in Nat
<1> USE BlockingQueueAssumption DEF BlockingQueueAssumption
<1>1. call[c] \in Calls /\ Fits(cpc[c], call[c]) /\ cpc[c] \in ConsumerPcs
  BY DEF TypeOK, LocalsOK
<1>2. call[c].max \in Nat /\ call[c].got \in Nat /\ call[c].old \in Int
  BY <1>1 DEF Calls
<1>3. call[c].got \in 0 .. MaxBulk
  BY <1>1, <1>2 DEF Fits, ConsumerPcs, NoCall
<1>4. QED
  BY <1>1, <1>2, <1>3 DEF TypeOK

LEMMA ConsumerStep ==
  ASSUME TypeOK, LocalsOK, NEW c \in Consumers,
         \/ SemaphoreCall(c) \/ Timeout(c) \/ Take(c)
         \/ \E max \in 1 .. MaxBulk, mode \in Modes : BeginDequeue(c, max, mode)
  PROVE  StepOf(c)
<1>1. /\ call[c] \in Calls /\ Fits(cpc[c], call[c]) /\ cpc[c] \in ConsumerPcs
      /\ call[c].max \in Nat /\ call[c].got \in Nat /\ call[c].old \in Int
      /\ count \in Int /\ tokens \in Nat /\ size \in Nat
  BY CallFacts
<1>2. CASE TryLoad(c)
  <2>1. CASE count > 0
    BY <1>1, <1>2, <2>1, GoesOnStep DEF TryLoad, ConsumerPcs, WaiterPcs
  <2>2. CASE ~ count > 0
    BY <1>1, <1>2, <2>2, TryFailedStep DEF TryLoad
  <2>3. QED
    BY <2>1, <2>2
<1>3. CASE TryCas(c)
  <2> DEFINE n == SmallerOf(call[c].old, call[c].max - call[c].got)
  <2>1. call[c].got < call[c].max /\ call[c].old > 0 /\ cpc[c] = "tryCas"
    BY <1>1, <1>3 DEF TryCas, Fits
  <2>2. n \in Nat \ {0} /\ n <= call[c].old /\ call[c].got + n <= call[c].max
    BY <1>1, <2>1 DEF SmallerOf
  <2>3. CASE count = call[c].old
    <3>1. count' = count - n /\ Acquired(c, n) /\ UNCHANGED <<size, enqueued, tokens, producerVars>>
      BY <1>3, <2>3 DEF TryCas
    <3>2. QED
      BY <2>1, <2>2, <2>3, <3>1, AcquireStep
  <2>4. CASE count # call[c].old /\ count > 0
    <3>1. Goto(c, "tryCas") /\ Locals(c, [call[c] EXCEPT !.old = count])
      BY <1>3, <2>1, <2>4 DEF TryCas, Goto, TypeOK
    <3>2. UNCHANGED <<size, enqueued, count, tokens, producerVars>>
      BY <1>3, <2>4 DEF TryCas
    <3>3. QED
      BY <1>1, <2>1, <2>4, <3>1, <3>2, GoesOnStep DEF ConsumerPcs, WaiterPcs
  <2>5. CASE count # call[c].old /\ ~ count > 0
    BY <1>1, <1>3, <2>1, <2>5, TryFailedStep DEF TryCas
  <2>6. QED
    BY <2>3, <2>4, <2>5
<1>4. CASE SpinLoad(c)
  BY <1>1, <1>4, GoesOnStep DEF SpinLoad, ConsumerPcs, WaiterPcs
<1>5. CASE SpinCas(c)
  <2> DEFINE n == SmallerOf(call[c].old, call[c].max)
  <2>1. call[c].got = 0 /\ call[c].max > 0 /\ cpc[c] = "spinCas"
    BY <1>1, <1>5 DEF SpinCas, Fits, WaiterPcs
  <2>2. CASE call[c].old > 0 /\ count = call[c].old
    <3>1. n \in Nat \ {0} /\ n <= call[c].old /\ call[c].got + n <= call[c].max
      BY <1>1, <2>1, <2>2 DEF SmallerOf
    <3>2. count' = count - n /\ Acquired(c, n) /\ UNCHANGED <<size, enqueued, tokens, producerVars>>
      BY <1>5, <2>2 DEF SpinCas
    <3>3. QED
      BY <2>1, <2>2, <3>1, <3>2, AcquireStep
  <2>3. CASE ~(call[c].old > 0 /\ count = call[c].old)
    <3>1. PICK l \in {"spin", "sub"} : Goto(c, l)
      BY <1>5, <2>3 DEF SpinCas
    <3>2. /\ Locals(c, [call[c] EXCEPT !.old = 0])
          /\ UNCHANGED <<size, enqueued, count, tokens, producerVars>>
      BY <1>5, <2>3 DEF SpinCas
    <3>3. QED
      BY <2>1, <3>1, <3>2, GoesOnStep DEF ConsumerPcs, WaiterPcs
  <2>4. QED
    BY <2>2, <2>3
<1>6. CASE FetchSub(c)
  <2>1. call[c].got = 0 /\ call[c].max > 0 /\ cpc[c] = "sub"
    BY <1>1, <1>6 DEF FetchSub, Fits, WaiterPcs
  <2>2. CASE count > 0
    BY <1>1, <1>6, <2>1, <2>2, AcquireStep DEF FetchSub
  <2>3. CASE ~ count > 0
    <3>1. Fits("wait", call[c])
      BY <1>1, <2>1 DEF Fits, WaiterPcs
    <3>2. Moves(c, "wait", call[c])
      BY <1>6, <2>3 DEF FetchSub, Moves, Goto, TypeOK
    <3>3. StartsWaiting(c, "wait", call[c])
      BY <1>1, <1>6, <2>3, <2>1 DEF FetchSub, StartsWaiting
    <3>4. QED
      BY <1>1, <1>6, <3>1, <3>2, <3>3 DEF FetchSub, StepOf, Effect, ConsumerPcs, WaiterPcs
  <2>4. QED
    BY <2>2, <2>3
<1>7. CASE SemaWait(c)
  <2>1. call[c].got = 0 /\ call[c].max > 0 /\ cpc[c] = "wait"
    BY <1>1, <1>7 DEF SemaWait, Fits, WaiterPcs
  <2>2. CASE tokens > 0
    BY <1>1, <1>7, <2>1, <2>2, AcquireStep DEF SemaWait
  <2>3. CASE ~ tokens > 0
    BY <1>7, <2>1, <2>3, StaysWaitingStep DEF SemaWait, WaiterPcs
  <2>4. QED
    BY <2>2, <2>3
<1>8. CASE WakeUp(c)
  <2>1. call[c].got = 0 /\ call[c].max > 0 /\ cpc[c] = "woken"
    BY <1>1, <1>8 DEF WakeUp, Fits, WaiterPcs
  <2>2. QED
    BY <1>1, <1>8, <2>1, AcquireStep DEF WakeUp
<1>9. CASE AdjustLoad(c)
  <2>1. CASE count >= 0
    BY <1>1, <1>9, <2>1, GoesOnStep DEF AdjustLoad, ConsumerPcs, WaiterPcs
  <2>2. CASE ~ count >= 0
    BY <1>1, <1>9, <2>2, GoesOnStep DEF AdjustLoad, ConsumerPcs, WaiterPcs
  <2>3. QED
    BY <2>1, <2>2
<1>10. CASE TryWaitToken(c)
  <2>1. call[c].got = 0 /\ call[c].max > 0 /\ cpc[c] = "retry"
    BY <1>1, <1>10 DEF TryWaitToken, Fits, WaiterPcs
  <2>2. CASE tokens > 0
    BY <1>1, <1>10, <2>1, <2>2, AcquireStep DEF TryWaitToken
  <2>3. CASE ~ tokens > 0
    BY <1>10, <2>1, <2>3, StaysWaitingStep DEF TryWaitToken, WaiterPcs
  <2>4. QED
    BY <2>2, <2>3
<1>11. CASE AdjustCas(c)
  <2>1. cpc[c] = "adjustCas" /\ call[c].old < 0
    BY <1>1, <1>11 DEF AdjustCas, Fits
  <2>2. CASE count = call[c].old
    <3>1. Moves(c, "idle", NoCall) /\ StopsWaiting(c, "idle", NoCall)
      BY <1>11, <2>1, <2>2 DEF AdjustCas, Moves, Goto, Locals, StopsWaiting
    <3>2. QED
      BY <1>11, <3>1, NoCallFits DEF AdjustCas, StepOf, Effect, ConsumerPcs
  <2>3. CASE count # call[c].old
    BY <1>11, <2>1, <2>3, StaysWaitingStep DEF AdjustCas, WaiterPcs
  <2>4. QED
    BY <2>2, <2>3
<1>12. CASE Timeout(c)
  BY <1>12, StaysWaitingStep DEF Timeout, WaiterPcs
<1>13. CASE Take(c)
  <2>1. cpc[c] = "take" /\ call[c].max \in 1 .. MaxBulk /\ call[c].got \in 1 .. call[c].max
    BY <1>1, <1>13 DEF Take, Fits
  <2>2. SmallerOf(call[c].got, size) <= call[c].got /\ SmallerOf(call[c].got, size) <= size
    BY <1>1 DEF SmallerOf
  <2>3. PICK n \in 1 .. size : /\ n <= call[c].got /\ size' = size - n
                               /\ IF n = call[c].got THEN Goto(c, "idle") /\ Locals(c, NoCall)
                                  ELSE Locals(c, [call[c] EXCEPT !.got = @ - n]) /\ UNCHANGED cpc
    BY <1>1, <1>13, <2>2, MinPos DEF Take
  <2>4. UNCHANGED <<enqueued, count, tokens, producerVars>>
    BY <1>13 DEF Take
  <2>5. CASE n = call[c].got
    <3>1. Moves(c, "idle", NoCall)
      BY <2>3, <2>5 DEF Moves, Goto, Locals
    <3>2. Takes(c, "idle", NoCall)
      BY <1>1, <2>1, <2>3, <2>4, <2>5, NoCallFits DEF Takes
    <3>3. QED
      BY <2>4, <3>1, <3>2, NoCallFits DEF StepOf, Effect, ConsumerPcs
  <2>6. CASE n # call[c].got
    <3>1. PICK r \in Calls, g \in Nat : r = call[c] /\ g = r.got - n /\ g \in 1 .. r.max
      BY <1>1, <2>1, <2>3, <2>6
    <3> DEFINE e == [r EXCEPT !.got = g]
    <3>2. e \in Calls /\ e.got = g /\ e.max = r.max
      BY DEF Calls
    <3>3. Fits("take", e)
      BY <2>1, <3>1, <3>2 DEF Fits, WaiterPcs
    <3>4. Moves(c, "take", e)
      BY <2>1, <2>3, <2>6, <3>1 DEF Moves, Locals, TypeOK
    <3>5. Takes(c, "take", e)
      BY <1>1, <2>1, <2>3, <2>4, <3>1, <3>2 DEF Takes
    <3>6. QED
      BY <2>4, <3>2, <3>3, <3>4, <3>5 DEF StepOf, Effect, ConsumerPcs
  <2>7. QED
    BY <2>5, <2>6
<1>14. CASE \E max \in 1 .. MaxBulk, mode \in Modes : BeginDequeue(c, max, mode)
  <2>1. PICK max \in 1 .. MaxBulk, mode \in Modes : BeginDequeue(c, max, mode)
    BY <1>14
  <2> DEFINE e == [NoCall EXCEPT !.max = max, !.mode = mode]
  <2>2. e \in Calls /\ e.max = max /\ e.got = 0
    BY BeginCall
  <2>3. Fits("try", e)
    BY <2>2 DEF Fits, WaiterPcs
  <2>4. Moves(c, "try", e) /\ Begins(c, "try", e)
    BY <2>1, <2>2 DEF BeginDequeue, Moves, Goto, Locals, Begins
  <2>5. QED
    BY <2>1, <2>2, <2>3, <2>4 DEF BeginDequeue, StepOf, Effect, ConsumerPcs
<1>15. QED
  BY <1>2, <1>3, <1>4, <1>5, <1>6, <1>7, <1>8, <1>9, <1>10, <1>11, <1>12, <1>13, <1>14
  DEF SemaphoreCall

-----------------------------------------------------------------------------
(* The sums.                                                               *)

Woken == {c \in Consumers : cpc[c] = "woken"}
Bit(b) == IF b THEN 1 ELSE 0

\* A set that differs in one element at most.
LEMMA OneDiffers ==
  ASSUME NEW S \in SUBSET Consumers, NEW T \in SUBSET Consumers, NEW c \in Consumers,
         S \ {c} = T \ {c}
  PROVE  Cardinality(T) = Cardinality(S) + Bit(c \in T) - Bit(c \in S)
<1>1. IsFiniteSet(S) /\ IsFiniteSet(T) /\ Cardinality(S) \in Nat /\ Cardinality(T) \in Nat
  BY SubsetsFinite
<1>2. c \in S => Cardinality(S \ {c}) = Cardinality(S) - 1
  BY <1>1, FS_RemoveElement
<1>3. c \in T => Cardinality(T \ {c}) = Cardinality(T) - 1
  BY <1>1, FS_RemoveElement
<1>4. c \notin S => S \ {c} = S
  OBVIOUS
<1>5. c \notin T => T \ {c} = T
  OBVIOUS
<1>6. PICK s \in Nat, t \in Nat : s = Cardinality(S \ {c}) /\ t = Cardinality(T \ {c}) /\ s = t
  BY SubsetsFinite
<1>7. Cardinality(S) = s + Bit(c \in S)
  BY <1>1, <1>2, <1>4, <1>6 DEF Bit
<1>8. Cardinality(T) = s + Bit(c \in T)
  BY <1>1, <1>3, <1>5, <1>6, SMTT(30) DEF Bit
<1>9. QED
  BY <1>7, <1>8 DEF Bit

LEMMA CountTypes ==
  ASSUME IInv
  PROVE  /\ Cardinality(Waiters) \in Nat /\ Cardinality(Woken) \in Nat
         /\ Held \in Nat /\ ItemsAt("signal") \in Nat /\ ItemsAt("release") \in Nat
<1> USE BlockingQueueAssumption DEF BlockingQueueAssumption, IInv
<1>1. Cardinality(Waiters) \in Nat /\ Cardinality(Woken) \in Nat
  BY SubsetsFinite DEF Waiters, Woken
<1>2. \A c \in Consumers : call[c].got \in 0 .. MaxBulk
  BY CallFacts
<1>3. Held \in Nat
  BY <1>2, UnitsFinite DEF Held, Summable
<1>4. ASSUME NEW l PROVE ItemsAt(l) \in Nat
  <2>1. {p \in Producers : ppc[p] = l} \in SUBSET Producers
    OBVIOUS
  <2>2. IsFiniteSet({p \in Producers : ppc[p] = l})
    BY <2>1, FS_Subset
  <2>3. QED
    BY <2>2, UnitsFinite DEF ItemsAt, Summable, TypeOK
<1>5. QED
  BY <1>1, <1>3, <1>4

LEMMA ConsumerCounts ==
  ASSUME TypeOK, LocalsOK, NEW c \in Consumers, NEW l \in ConsumerPcs, NEW e \in Calls,
         Fits(l, e), Moves(c, l, e), UNCHANGED producerVars
  PROVE  /\ Cardinality(Waiters)' = Cardinality(Waiters) + Bit(l \in WaiterPcs) - Bit(cpc[c] \in WaiterPcs)
         /\ Cardinality(Woken)' = Cardinality(Woken) + Bit(l = "woken") - Bit(cpc[c] = "woken")
         /\ Held' = Held + e.got - call[c].got
         /\ UNCHANGED <<ItemsAt("signal"), ItemsAt("release")>>
<1> USE BlockingQueueAssumption DEF BlockingQueueAssumption
<1>1. /\ \A d \in Consumers : cpc'[d] = IF d = c THEN l ELSE cpc[d]
      /\ \A d \in Consumers : call'[d] = IF d = c THEN e ELSE call[d]
  BY DEF Moves, TypeOK
<1>2. TypeOK /\ \A d \in Consumers : call'[d] \in Calls /\ Fits(cpc'[d], call'[d]) /\ cpc'[d] \in ConsumerPcs
  BY MovesType DEF LocalsOK
<1>3. Cardinality(Waiters)' = Cardinality(Waiters) + Bit(l \in WaiterPcs) - Bit(cpc[c] \in WaiterPcs)
  <2>1. Waiters \in SUBSET Consumers /\ Waiters' \in SUBSET Consumers
    BY DEF Waiters
  <2>2. Waiters \ {c} = Waiters' \ {c}
    BY <1>1 DEF Waiters
  <2>3. (c \in Waiters' <=> l \in WaiterPcs) /\ (c \in Waiters <=> cpc[c] \in WaiterPcs)
    BY <1>1 DEF Waiters, WaiterPcs
  <2>4. Cardinality(Waiters') = Cardinality(Waiters) + Bit(c \in Waiters') - Bit(c \in Waiters)
    BY <2>1, <2>2, OneDiffers
  <2>5. QED
    BY <2>3, <2>4 DEF Bit
<1>4. Cardinality(Woken)' = Cardinality(Woken) + Bit(l = "woken") - Bit(cpc[c] = "woken")
  <2>1. Woken \in SUBSET Consumers /\ Woken' \in SUBSET Consumers
    BY DEF Woken
  <2>2. Woken \ {c} = Woken' \ {c}
    BY <1>1 DEF Woken
  <2>3. (c \in Woken' <=> l = "woken") /\ (c \in Woken <=> cpc[c] = "woken")
    BY <1>1 DEF Woken
  <2>4. Cardinality(Woken') = Cardinality(Woken) + Bit(c \in Woken') - Bit(c \in Woken)
    BY <2>1, <2>2, OneDiffers
  <2>5. QED
    BY <2>3, <2>4 DEF Bit
<1>5. Held' = Held + e.got - call[c].got
  <2> DEFINE f == [d \in Consumers |-> call[d].got]
             g == [d \in Consumers |-> call'[d].got]
  <2>1. \A d \in Consumers : f[d] \in 0 .. MaxBulk
    BY CallFacts
  <2>2. ASSUME NEW d \in Consumers PROVE g[d] \in 0 .. MaxBulk
    <3>1. call'[d] \in Calls /\ Fits(cpc'[d], call'[d]) /\ cpc'[d] \in ConsumerPcs
      BY <1>2
    <3>2. call'[d].got \in Nat /\ call'[d].max \in Nat
      BY <3>1 DEF Calls
    <3>3. call'[d].got \in 0 .. MaxBulk
      BY <3>1, <3>2 DEF Fits, ConsumerPcs, NoCall
    <3>4. QED
      BY <3>3
  <2>3. Summable(f, Consumers, MaxBulk) /\ Summable(g, Consumers, MaxBulk)
    BY <2>1, <2>2 DEF Summable
  <2>4. \A d \in Consumers \ {c} : g[d] = f[d]
    BY <1>1
  <2>5. g[c] = e.got /\ f[c] = call[c].got
    BY <1>1
  <2> HIDE DEF f, g
  <2>6. Total(g, Consumers, MaxBulk) = Total(f, Consumers, MaxBulk) + g[c] - f[c]
    BY <2>3, <2>4, TotalOne, BlockingQueueAssumption, SMTT(60)
  <2>7. Total(g, Consumers, MaxBulk) = Total(f, Consumers, MaxBulk) + e.got - call[c].got
    BY <2>5, <2>6
  <2>8. QED
    BY <2>7 DEF f, g, Held
<1>6. UNCHANGED <<ItemsAt("signal"), ItemsAt("release")>>
  BY DEF ItemsAt, producerVars
<1>7. QED
  BY <1>3, <1>4, <1>5, <1>6

LEMMA ConsumerInv ==
  ASSUME IInv, NEW c \in Consumers, StepOf(c)
  PROVE  IInv'
<1> USE DEF IInv
<1>1. PICK l \in ConsumerPcs, e \in Calls : Fits(l, e) /\ Moves(c, l, e) /\ Effect(c, l, e)
  BY DEF StepOf
<1>2. UNCHANGED producerVars
  BY DEF StepOf
<1>3. /\ cpc' \in [Consumers -> ConsumerPcs] /\ call' \in [Consumers -> Calls] /\ LocalsOK'
  BY <1>1, MovesType
<1>4. /\ Cardinality(Waiters)' = Cardinality(Waiters) + Bit(l \in WaiterPcs) - Bit(cpc[c] \in WaiterPcs)
      /\ Cardinality(Woken)' = Cardinality(Woken) + Bit(l = "woken") - Bit(cpc[c] = "woken")
      /\ Held' = Held + e.got - call[c].got
      /\ ItemsAt("signal")' = ItemsAt("signal") /\ ItemsAt("release")' = ItemsAt("release")
  BY <1>1, <1>2, ConsumerCounts
<1>5. /\ Cardinality(Waiters) \in Nat /\ Cardinality(Woken) \in Nat
      /\ Held \in Nat /\ ItemsAt("signal") \in Nat /\ ItemsAt("release") \in Nat
  BY CountTypes
<1>6. /\ call[c].max \in Nat /\ call[c].got \in Nat
      /\ cpc[c] = "idle" => call[c].got = 0
      /\ cpc[c] = "adjustCas" => call[c].got = 0
      /\ count \in Int /\ tokens \in Nat /\ size \in Nat
  BY CallFacts DEF Fits, NoCall, WaiterPcs
<1>7. e.got \in Nat /\ NoCall.got = 0
  BY NoCallFits DEF Calls
<1>8. /\ Cardinality(Waiters) = Positive(-count) + tokens + Cardinality(Woken) + ItemsAt("release")
      /\ size = ItemsAt("signal") + Positive(count) + tokens + Cardinality(Woken) + ItemsAt("release") + Held
  <2>1. Positive(count) \in Int /\ Positive(-count) \in Int
    BY <1>6 DEF Positive
  <2>2. QED
    BY <1>5, <1>6, <2>1 DEF WaitersExact, ElementsAccounted, AllTokens, Woken
<1>9. /\ size' \in Nat /\ enqueued' \in Nat /\ count' \in Int /\ tokens' \in Nat
      /\ Cardinality(Waiters)' = Positive(-count') + tokens' + Cardinality(Woken)' + ItemsAt("release")'
      /\ size' = ItemsAt("signal")' + Positive(count') + tokens' + Cardinality(Woken)' + ItemsAt("release")' + Held'
  <2> USE <1>4, <1>5, <1>6, <1>7, <1>8 DEF Bit, Positive
  <2>0. enqueued \in Nat
    BY DEF TypeOK
  <2>1. CASE FromCount(c, l, e)
    BY <2>0, <2>1 DEF FromCount, Gets, WaiterPcs
  <2>2. CASE FromTokens(c, l, e)
    BY <2>0, <2>2 DEF FromTokens, Gets, WaiterPcs
  <2>3. CASE FromWaker(c, l, e)
    BY <2>0, <2>3 DEF FromWaker, Gets, WaiterPcs
  <2>4. CASE StartsWaiting(c, l, e)
    BY <2>0, <2>4 DEF StartsWaiting, WaiterPcs
  <2>5. CASE StopsWaiting(c, l, e)
    <3>1. e.got = 0 /\ call[c].got = 0 /\ cpc[c] = "adjustCas" /\ l = "idle"
      BY <2>5 DEF StopsWaiting
    <3>2. /\ Cardinality(Waiters)' = Cardinality(Waiters) - 1 /\ Cardinality(Woken)' = Cardinality(Woken)
          /\ Held' = Held
      BY <3>1 DEF WaiterPcs
    <3>3. PICK k \in Int : k = count' /\ k = count + 1 /\ count < 0
      BY <2>5 DEF StopsWaiting
    <3>4. Positive(-k) = Positive(-count) - 1 /\ Positive(k) = Positive(count)
      BY <3>3
    <3>5. QED
      BY <2>0, <2>5, <3>2, <3>3, <3>4 DEF StopsWaiting
  <2>6. CASE Begins(c, l, e)
    BY <2>0, <2>6 DEF Begins, WaiterPcs
  <2>7. CASE GivesUp(c, l, e)
    BY <2>0, <2>7 DEF GivesUp, WaiterPcs
  <2>8. CASE IsContent(c, l, e)
    BY <2>0, <2>8 DEF IsContent, WaiterPcs
  <2>9. CASE GoesOn(c, l, e)
    <3>1. /\ cpc[c] # "woken" /\ l # "woken" /\ (cpc[c] \in WaiterPcs <=> l \in WaiterPcs)
          /\ e.got = call[c].got
          /\ UNCHANGED <<size, enqueued, count, tokens>>
      BY <2>9 DEF GoesOn
    <3>3. /\ Cardinality(Waiters)' = Cardinality(Waiters) /\ Cardinality(Woken)' = Cardinality(Woken)
          /\ Held' = Held
      BY <3>1
    <3>4. QED
      BY <2>0, <3>1, <3>3
  <2>10. CASE Takes(c, l, e)
    BY <2>0, <2>10 DEF Takes, WaiterPcs
  <2>11. QED
    BY <1>1, <2>1, <2>2, <2>3, <2>4, <2>5, <2>6, <2>7, <2>8, <2>9, <2>10 DEF Effect
<1>10. TypeOK'
  BY <1>2, <1>3, <1>9 DEF TypeOK, producerVars
<1>11. WaitersExact' /\ ElementsAccounted'
  <2>0. count' \in Int
    BY <1>9
  <2>1. Positive(count') \in Int /\ Positive(-count') \in Int
    BY <2>0, PositiveParts
  <2>2. /\ Cardinality(Woken)' \in Int /\ ItemsAt("release")' \in Int
        /\ ItemsAt("signal")' \in Int /\ Held' \in Int
    BY <1>4, <1>5, <1>6, <1>7 DEF Bit
  <2>3. QED
    BY <1>9, <2>1, <2>2 DEF WaitersExact, ElementsAccounted, AllTokens, Woken
<1>12. QED
  BY <1>3, <1>10, <1>11

\* A producer that goes to k with m elements.
LEMMA ProducerCounts ==
  ASSUME IInv, NEW p \in Producers, NEW k \in {"idle", "signal", "release"}, NEW m \in 0 .. MaxBulk,
         \A q \in Producers : ppc'[q] = IF q = p THEN k ELSE ppc[q],
         \A q \in Producers : items'[q] = IF q = p THEN m ELSE items[q],
         NEW l
  PROVE  ItemsAt(l)' = ItemsAt(l) + (IF k = l THEN m ELSE 0) - (IF ppc[p] = l THEN items[p] ELSE 0)
<1> USE BlockingQueueAssumption DEF BlockingQueueAssumption
<1>1. \A q \in Producers : items[q] \in 0 .. MaxBulk
  BY DEF IInv, TypeOK
<1> DEFINE S == {q \in Producers : ppc[q] = l}
           T == {q \in Producers : ppc'[q] = l}
<1>2. IsFiniteSet(S) /\ IsFiniteSet(T)
  <2>1. S \in SUBSET Producers /\ T \in SUBSET Producers
    OBVIOUS
  <2>2. QED
    BY <2>1, FS_Subset
<1>3. Summable(items, S, MaxBulk) /\ Summable(items', T, MaxBulk)
  BY <1>1, <1>2 DEF Summable
<1>4. S \ {p} = T \ {p} /\ \A q \in S \ {p} : items'[q] = items[q]
  BY <1>1
<1>5. (p \in S <=> ppc[p] = l) /\ (p \in T <=> k = l) /\ items'[p] = m
  BY <1>1
<1>6. ItemsAt(l) = Total(items, S, MaxBulk) /\ ItemsAt(l)' = Total(items', T, MaxBulk)
  BY DEF ItemsAt
<1> HIDE DEF S, T
<1>7. MaxBulk \in Nat
  OBVIOUS
<1>8. Total(items', T, MaxBulk) = Total(items, S, MaxBulk) + Term(items', T, p) - Term(items, S, p)
  BY <1>3, <1>4, <1>7, TotalChange
<1>9. QED
  BY <1>5, <1>6, <1>8 DEF Term

\* The sleepers that are woken join those that have been.
LEMMA WakeCounts ==
  ASSUME IInv, NEW n \in Nat, NEW woken, woken \in kSubset(n, {c \in Consumers : cpc[c] = "sleep"}),
         cpc' = [c \in Consumers |-> IF c \in woken THEN "woken" ELSE cpc[c]], UNCHANGED call
  PROVE  /\ Cardinality(Woken)' = Cardinality(Woken) + n
         /\ UNCHANGED <<Waiters, Held>>
<1>1. woken \in SUBSET Consumers /\ Cardinality(woken) = n /\ \A c \in woken : cpc[c] = "sleep"
  BY DEF kSubset
<1>2. \A c \in Consumers : cpc'[c] = IF c \in woken THEN "woken" ELSE cpc[c]
  OBVIOUS
<1>3. Woken' = Woken \cup woken /\ Woken \cap woken = {}
  BY <1>1, <1>2 DEF Woken
<1>4. IsFiniteSet(Woken) /\ IsFiniteSet(woken) /\ Cardinality(Woken) \in Nat
  BY <1>1, SubsetsFinite DEF Woken
<1>5. Cardinality(Woken') = Cardinality(Woken) + n
  <2>1. Cardinality(Woken \cup woken) = Cardinality(Woken) + Cardinality(woken) - Cardinality(Woken \cap woken)
    BY <1>4, FS_Union
  <2>2. Cardinality(Woken \cap woken) = 0
    BY <1>3, FS_EmptySet
  <2>3. QED
    BY <1>1, <1>3, <1>4, <2>1, <2>2
<1>6. Waiters' = Waiters
  BY <1>1, <1>2 DEF Waiters
<1>7. Held' = Held
  BY DEF Held
<1>8. QED
  BY <1>5, <1>6, <1>7

\* What a step of a producer amounts to.
Enqueues(p) ==
  \E n \in 0 .. MaxBulk :
    /\ ppc[p] = "idle" /\ ppc' = [ppc EXCEPT ![p] = "signal"] /\ items' = [items EXCEPT ![p] = n]
    /\ size' = size + n /\ UNCHANGED <<count, tokens, consumerVars>>

Signals(p) ==
  \E m \in 0 .. MaxBulk :
    /\ ppc[p] = "signal"
    /\ ppc' = [ppc EXCEPT ![p] = IF m > 0 THEN "release" ELSE "idle"] /\ items' = [items EXCEPT ![p] = m]
    /\ m = SmallerOf(Positive(-count), items[p])
    /\ count' = count + items[p] /\ UNCHANGED <<size, tokens, consumerVars>>

Releases(p) ==
  \E n \in 0 .. MaxBulk :
    /\ ppc[p] = "release" /\ ppc' = [ppc EXCEPT ![p] = "idle"] /\ items' = [items EXCEPT ![p] = 0]
    /\ n <= items[p] /\ tokens' = tokens + items[p] - n
    /\ \E woken \in kSubset(n, {c \in Consumers : cpc[c] = "sleep"}) :
         cpc' = [c \in Consumers |-> IF c \in woken THEN "woken" ELSE cpc[c]]
    /\ UNCHANGED <<size, count, call>>

LEMMA ProducerStep ==
  ASSUME IInv, NEW p \in Producers, Publish(p) \/ \E n \in 0 .. MaxBulk : EnqueueInner(p, n)
  PROVE  Enqueues(p) \/ Signals(p) \/ Releases(p)
<1> USE BlockingQueueAssumption DEF BlockingQueueAssumption
<1>1. items[p] \in 0 .. MaxBulk /\ count \in Int
  BY DEF IInv, TypeOK
<1>2. CASE \E n \in 0 .. MaxBulk : EnqueueInner(p, n)
  BY <1>2 DEF EnqueueInner, Enqueues
<1>3. CASE Signal(p)
  <2>1. SmallerOf(Positive(-count), items[p]) \in 0 .. MaxBulk
    BY <1>1 DEF SmallerOf, Positive
  <2>2. QED
    BY <1>3, <2>1 DEF Signal, Signals
<1>4. CASE ReleaseTokens(p)
  <2> DEFINE n == SmallerOf(items[p], Cardinality({c \in Consumers : cpc[c] = "sleep"}))
  <2>1. n \in 0 .. MaxBulk /\ n <= items[p]
    <3>1. Cardinality({c \in Consumers : cpc[c] = "sleep"}) \in Nat
      BY SubsetsFinite
    <3>2. QED
      BY <1>1, <3>1 DEF SmallerOf
  <2>2. /\ ppc[p] = "release" /\ ppc' = [ppc EXCEPT ![p] = "idle"] /\ items' = [items EXCEPT ![p] = 0]
        /\ tokens' = tokens + items[p] - n
        /\ \E woken \in kSubset(n, {c \in Consumers : cpc[c] = "sleep"}) :
             cpc' = [c \in Consumers |-> IF c \in woken THEN "woken" ELSE cpc[c]]
        /\ UNCHANGED <<size, count, call>>
    BY <1>4 DEF ReleaseTokens
  <2> HIDE DEF n
  <2>3. QED
    BY <2>1, <2>2 DEF Releases
<1>5. QED
  BY <1>2, <1>3, <1>4 DEF Publish

LEMMA ProducerInv ==
  ASSUME IInv, NEW p \in Producers, Publish(p) \/ \E n \in 0 .. MaxBulk : EnqueueInner(p, n)
  PROVE  /\ IInv'
         /\ Held' = Held
         /\ size' - ItemsAt("signal")' = size - ItemsAt("signal") + (IF ppc[p] = "signal" THEN items[p] ELSE 0)
<1> USE BlockingQueueAssumption DEF BlockingQueueAssumption
<1>1. TypeOK' /\ LocalsOK'
  BY ProducerType
<1>2. /\ Cardinality(Waiters) \in Nat /\ Cardinality(Woken) \in Nat
      /\ Held \in Nat /\ ItemsAt("signal") \in Nat /\ ItemsAt("release") \in Nat
  BY CountTypes
<1>3. items[p] \in 0 .. MaxBulk /\ count \in Int /\ tokens \in Nat /\ size \in Nat
  BY DEF IInv, TypeOK
<1>4. /\ Cardinality(Waiters) = Positive(-count) + tokens + Cardinality(Woken) + ItemsAt("release")
      /\ size = ItemsAt("signal") + Positive(count) + tokens + Cardinality(Woken) + ItemsAt("release") + Held
  BY <1>2, <1>3, PositiveParts DEF IInv, WaitersExact, ElementsAccounted, AllTokens, Woken
<1>5. /\ Cardinality(Waiters)' = Positive(-count') + tokens' + Cardinality(Woken)' + ItemsAt("release")'
      /\ size' = ItemsAt("signal")' + Positive(count') + tokens' + Cardinality(Woken)' + ItemsAt("release")' + Held'
      /\ Cardinality(Woken)' \in Int /\ Held' \in Int
      /\ ItemsAt("signal")' \in Int /\ ItemsAt("release")' \in Int
      /\ Held' = Held
      /\ size' - ItemsAt("signal")' = size - ItemsAt("signal") + (IF ppc[p] = "signal" THEN items[p] ELSE 0)
  <2>1. CASE Enqueues(p)
    <3>1. PICK n \in 0 .. MaxBulk :
            /\ ppc[p] = "idle" /\ ppc' = [ppc EXCEPT ![p] = "signal"] /\ items' = [items EXCEPT ![p] = n]
            /\ size' = size + n /\ UNCHANGED <<count, tokens, consumerVars>>
      BY <2>1 DEF Enqueues
    <3>2. ItemsAt("signal")' = ItemsAt("signal") + n /\ ItemsAt("release")' = ItemsAt("release")
      <4>1. /\ \A q \in Producers : ppc'[q] = IF q = p THEN "signal" ELSE ppc[q]
            /\ \A q \in Producers : items'[q] = IF q = p THEN n ELSE items[q]
        BY <3>1 DEF IInv, TypeOK
      <4>2. ASSUME NEW l
            PROVE  ItemsAt(l)' = ItemsAt(l) + (IF "signal" = l THEN n ELSE 0) - (IF ppc[p] = l THEN items[p] ELSE 0)
        BY <1>3, <4>1, ProducerCounts
      <4>3. QED
        BY <1>2, <1>3, <3>1, <4>2
    <3>3. UNCHANGED <<Waiters, Woken, Held>>
      BY <3>1 DEF Waiters, Woken, Held, consumerVars
    <3>4. UNCHANGED <<count, tokens>> /\ size' = size + n
      BY <3>1
    <3>5. Positive(count) \in Int
      BY <1>3, PositiveParts
    <3>9. ppc[p] = "idle"
      BY <3>1
    <3>10. QED
      BY <1>2, <1>3, <1>4, <3>2, <3>3, <3>4, <3>5, <3>9
  <2>2. CASE Signals(p)
    <3>1. PICK m \in 0 .. MaxBulk :
            /\ ppc[p] = "signal"
            /\ ppc' = [ppc EXCEPT ![p] = IF m > 0 THEN "release" ELSE "idle"] /\ items' = [items EXCEPT ![p] = m]
            /\ m = SmallerOf(Positive(-count), items[p])
            /\ count' = count + items[p] /\ UNCHANGED <<size, tokens, consumerVars>>
      BY <2>2 DEF Signals
    <3>2. ItemsAt("signal")' = ItemsAt("signal") - items[p] /\ ItemsAt("release")' = ItemsAt("release") + m
      <4>0. PICK k \in {"idle", "signal", "release"} :
              k = IF m > 0 THEN "release" ELSE "idle"
        OBVIOUS
      <4>1. /\ \A q \in Producers : ppc'[q] = IF q = p THEN k ELSE ppc[q]
            /\ \A q \in Producers : items'[q] = IF q = p THEN m ELSE items[q]
        BY <3>1, <4>0 DEF IInv, TypeOK
      <4>2. ASSUME NEW l
            PROVE  ItemsAt(l)' = ItemsAt(l) + (IF k = l THEN m ELSE 0) - (IF ppc[p] = l THEN items[p] ELSE 0)
        BY <1>3, <4>1, ProducerCounts
      <4>3. QED
        BY <1>2, <1>3, <3>1, <4>0, <4>2
    <3>3. UNCHANGED <<Waiters, Woken, Held>>
      BY <3>1 DEF Waiters, Woken, Held, consumerVars
    <3>4. UNCHANGED <<size, tokens>>
      BY <3>1
    <3>5. PICK a \in Int : a = count' /\ a = count + items[p]
      BY <1>3, <3>1
    <3>6. Positive(-a) = Positive(-count) - m /\ Positive(a) = Positive(count) + items[p] - m
      <4>1. m = SmallerOf(Positive(-count), items[p])
        BY <3>1
      <4>2. QED
        BY <1>3, <3>5, <4>1 DEF Positive, SmallerOf
    <3>7. Positive(count) \in Int /\ Positive(-count) \in Int
      BY <1>3, PositiveParts
    <3>9. ppc[p] = "signal"
      BY <3>1
    <3>10. QED
      BY <1>2, <1>3, <1>4, <3>2, <3>3, <3>4, <3>5, <3>6, <3>7, <3>9
  <2>3. CASE Releases(p)
    <3>1. PICK n \in 0 .. MaxBulk :
            /\ ppc[p] = "release" /\ ppc' = [ppc EXCEPT ![p] = "idle"] /\ items' = [items EXCEPT ![p] = 0]
            /\ n <= items[p] /\ tokens' = tokens + items[p] - n
            /\ \E woken \in kSubset(n, {c \in Consumers : cpc[c] = "sleep"}) :
                 cpc' = [c \in Consumers |-> IF c \in woken THEN "woken" ELSE cpc[c]]
            /\ UNCHANGED <<size, count, call>>
      BY <2>3 DEF Releases
    <3>2. ItemsAt("signal")' = ItemsAt("signal") /\ ItemsAt("release")' = ItemsAt("release") - items[p]
      <4>1. /\ \A q \in Producers : ppc'[q] = IF q = p THEN "idle" ELSE ppc[q]
            /\ \A q \in Producers : items'[q] = IF q = p THEN 0 ELSE items[q]
        BY <3>1 DEF IInv, TypeOK
      <4>2. ASSUME NEW l
            PROVE  ItemsAt(l)' = ItemsAt(l) + (IF "idle" = l THEN 0 ELSE 0) - (IF ppc[p] = l THEN items[p] ELSE 0)
        BY <1>3, <4>1, ProducerCounts
      <4>3. QED
        BY <1>2, <1>3, <3>1, <4>2
    <3>3. Cardinality(Woken)' = Cardinality(Woken) + n /\ UNCHANGED <<Waiters, Held>>
      BY <3>1, WakeCounts
    <3>4. Positive(count) \in Int /\ Positive(-count) \in Int
      BY <1>3, PositiveParts
    <3>5. tokens' = tokens + items[p] - n /\ UNCHANGED <<size, count>>
      BY <3>1
    <3>9. ppc[p] = "release"
      BY <3>1
    <3>10. QED
      BY <1>2, <1>3, <1>4, <3>2, <3>3, <3>4, <3>5, <3>9
  <2>4. QED
    BY <2>1, <2>2, <2>3, ProducerStep
<1>6. count' \in Int /\ tokens' \in Int
  BY <1>1 DEF TypeOK
<1>7. Positive(count') \in Int /\ Positive(-count') \in Int
  BY <1>6, PositiveParts
<1>8. QED
  BY <1>1, <1>5, <1>6, <1>7 DEF IInv, WaitersExact, ElementsAccounted, AllTokens, Woken

-----------------------------------------------------------------------------
(* The theorems.                                                           *)

LEMMA NextInv == IInv /\ [Next]_vars => IInv'
<1> SUFFICES ASSUME IInv, [Next]_vars PROVE IInv'
  OBVIOUS
<1>1. ASSUME NEW p \in Producers, Publish(p) \/ \E n \in 0 .. MaxBulk : EnqueueInner(p, n)
      PROVE  IInv'
  BY <1>1, ProducerInv
<1>2. ASSUME NEW c \in Consumers,
             \/ SemaphoreCall(c) \/ Timeout(c) \/ Take(c)
             \/ \E max \in 1 .. MaxBulk, mode \in Modes : BeginDequeue(c, max, mode)
      PROVE  IInv'
  BY <1>2, ConsumerStep, ConsumerInv DEF IInv
<1>3. CASE UNCHANGED vars
  BY <1>3 DEF vars, producerVars, consumerVars, IInv, TypeOK, LocalsOK, WaitersExact, ElementsAccounted, AllTokens,
              Waiters, ItemsAt, Held
<1>4. QED
  BY <1>1, <1>2, <1>3 DEF Next

\* The inductive invariant.
THEOREM Invariance == Spec => []IInv
<1>1. Init => IInv
  BY InitIInv
<1>2. IInv /\ [Next]_vars => IInv'
  BY NextInv
<1>3. QED
  BY <1>1, <1>2, PTL DEF Spec

\* Every variable has its type, the locals of the consumers included.
THEOREM Typing == Spec => []TypeOK
BY Invariance, PTL DEF IInv

\* LightweightSemaphore: for any number of threads that wait, time out and are signalled,
\* whoever counts as waiting has its one below zero in m_count or a token that is there or
\* on its way.
THEOREM WaitersAreExact == Spec => []WaitersExact
BY Invariance, PTL DEF IInv

\* BlockingConcurrentQueue: for any number of producers and consumers, every element has
\* one permit.
THEOREM EveryElementAccounted == Spec => []ElementsAccounted
BY Invariance, PTL DEF IInv

-----------------------------------------------------------------------------
(* The refinement: what the variables of CountingSemaphore stand for.      *)

\* The permits are the elements that are signalled and not held.
PermitsOK ==
  Permits \in Nat /\ ItemsAt("signal") \in Nat /\ Permits = size - ItemsAt("signal") - Held

LEMMA PermitsAreElements == IInv => PermitsOK
<1> SUFFICES ASSUME IInv PROVE PermitsOK
  OBVIOUS
<1>1. /\ Cardinality(Woken) \in Nat
      /\ Held \in Nat /\ ItemsAt("signal") \in Nat /\ ItemsAt("release") \in Nat
  BY CountTypes
<1>2. tokens \in Nat /\ Positive(count) \in Nat /\ size \in Nat
  BY PositiveParts DEF IInv, TypeOK
<1>3. size = ItemsAt("signal") + Positive(count) + AllTokens + Held
  BY DEF IInv, ElementsAccounted
<1>4. AllTokens \in Nat
  BY <1>1, <1>2 DEF AllTokens, Woken
<1>5. QED
  BY <1>1, <1>2, <1>3, <1>4 DEF Permits, PermitsOK

LEMMA PermitsNext == IInv' => PermitsOK'
BY PermitsAreElements, PTL

\* What a consumer leaves behind it when it gives up: permits that others wait for.
LEMMA OthersWait ==
  ASSUME IInv, NEW c \in Consumers, c \in Waiters => count < 0, count <= 0
  PROVE  Permits <= Cardinality({d \in Consumers \ {c} : Wanted[d] > 0})
<1> DEFINE Others == {d \in Consumers \ {c} : Wanted[d] > 0}
<1>1. Cardinality(Waiters) = -count + AllTokens /\ Permits = AllTokens /\ AllTokens \in Nat
  <2>1. count \in Int
    BY DEF IInv, TypeOK
  <2>2. Positive(-count) = -count /\ Positive(count) = 0
    BY <2>1, PositiveParts
  <2>3. Permits \in Nat
    BY PermitsAreElements DEF PermitsOK
  <2>4. Permits = 0 + AllTokens
    BY <2>2 DEF Permits
  <2>5. AllTokens \in Int
    <3>1. Cardinality(Woken) \in Nat /\ ItemsAt("release") \in Nat /\ tokens \in Nat
      BY CountTypes DEF IInv, TypeOK
    <3>2. QED
      BY <3>1 DEF AllTokens, Woken
  <2>6. QED
    BY <2>2, <2>3, <2>4, <2>5 DEF IInv, WaitersExact
<1>2. Waiters \in SUBSET Consumers
  BY DEF Waiters
<1>3. Cardinality(Waiters \ {c}) = Cardinality(Waiters) - (IF c \in Waiters THEN 1 ELSE 0)
  <2>1. IsFiniteSet(Waiters) /\ Cardinality(Waiters) \in Nat
    BY <1>2, SubsetsFinite
  <2>2. c \in Waiters => Cardinality(Waiters \ {c}) = Cardinality(Waiters) - 1
    BY <2>1, FS_RemoveElement
  <2>3. c \notin Waiters => Waiters \ {c} = Waiters
    OBVIOUS
  <2>4. QED
    BY <2>1, <2>2, <2>3
<1>4. Waiters \ {c} \in SUBSET Others
  <2>1. SUFFICES ASSUME NEW d \in Waiters \ {c} PROVE Wanted[d] > 0
    BY <1>2
  <2>2. d \in Consumers /\ cpc[d] \in WaiterPcs
    BY DEF Waiters, WaiterPcs
  <2>3. call[d].max > 0 /\ call[d].got = 0
    BY <2>2, CallFacts, BlockingQueueAssumption DEF BlockingQueueAssumption, Fits, WaiterPcs, IInv
  <2>4. Wanted[d] = call[d].max - call[d].got
    BY <2>2 DEF Wanted, InSemaphore, WaiterPcs
  <2>5. QED
    BY <2>2, <2>3, <2>4, CallFacts DEF IInv
<1>5. Others \in SUBSET Consumers
  OBVIOUS
<1> HIDE DEF Others
<1>6. Cardinality(Waiters \ {c}) <= Cardinality(Others)
  BY <1>4, <1>5, FS_Subset, SubsetsFinite
<1>7. Permits <= Cardinality(Others)
  <2>1. count \in Int /\ Cardinality(Others) \in Nat
    BY <1>5, SubsetsFinite DEF IInv, TypeOK
  <2>2. Cardinality(Waiters \ {c}) >= AllTokens
    BY <1>1, <1>3, <2>1
  <2>3. QED
    BY <1>1, <1>3, <1>6, <2>1, <2>2
<1>8. QED
  BY <1>7 DEF Others

\* A step of a consumer, in the variables of the semaphore.
LEMMA WantedNext ==
  ASSUME IInv, NEW c \in Consumers, NEW l \in ConsumerPcs, NEW e \in Calls,
         Fits(l, e), Moves(c, l, e)
  PROVE  /\ Wanted' = [Wanted EXCEPT ![c] = IF l \in {"idle", "take"} THEN 0 ELSE e.max - e.got]
         /\ HasOne' = [HasOne EXCEPT ![c] = l \notin {"idle", "take"} /\ e.got > 0]
         /\ Wanted[c] = IF cpc[c] \in {"idle", "take"} THEN 0 ELSE call[c].max - call[c].got
         /\ HasOne[c] = (cpc[c] \notin {"idle", "take"} /\ call[c].got > 0)
         /\ Wanted \in [Consumers -> Int] /\ HasOne \in [Consumers -> BOOLEAN]
<1>1. /\ \A d \in Consumers : cpc'[d] = IF d = c THEN l ELSE cpc[d]
      /\ \A d \in Consumers : call'[d] = IF d = c THEN e ELSE call[d]
  BY DEF Moves, IInv, TypeOK
<1>2. \A d \in Consumers : call[d].max \in Nat /\ call[d].got \in Nat
  BY CallFacts DEF IInv
<1>3. Wanted' = [Wanted EXCEPT ![c] = IF l \in {"idle", "take"} THEN 0 ELSE e.max - e.got]
  BY <1>1 DEF Wanted, InSemaphore
<1>4. Wanted[c] = IF cpc[c] \in {"idle", "take"} THEN 0 ELSE call[c].max - call[c].got
  BY DEF Wanted, InSemaphore
<1>5. Wanted \in [Consumers -> Int]
  BY <1>2 DEF Wanted
<1>6. HasOne \in [Consumers -> BOOLEAN]
  BY Zenon DEF HasOne
<1>7. HasOne[c] = (cpc[c] \notin {"idle", "take"} /\ call[c].got > 0)
  BY DEF HasOne, InSemaphore
<1>8. HasOne' = [HasOne EXCEPT ![c] = l \notin {"idle", "take"} /\ e.got > 0]
  <2>1. ASSUME NEW d \in Consumers, d # c
        PROVE  (InSemaphore(d) /\ call[d].got > 0)' = (InSemaphore(d) /\ call[d].got > 0)
    BY <1>1, <2>1 DEF InSemaphore
  <2>2. (InSemaphore(c) /\ call[c].got > 0)' = (l \notin {"idle", "take"} /\ e.got > 0)
    BY <1>1 DEF InSemaphore
  <2>3. QED
    BY <2>1, <2>2, Zenon DEF HasOne
<1>9. QED
  BY <1>3, <1>4, <1>5, <1>6, <1>7, <1>8

\* The permits change by the elements that are taken from those that are not held.
LEMMA PermitsChange ==
  ASSUME IInv, NEW c \in Consumers, NEW l \in ConsumerPcs, NEW e \in Calls,
         Fits(l, e), Moves(c, l, e), StepOf(c)
  PROVE  /\ Permits \in Nat /\ Permits' \in Nat
         /\ Permits' = Permits + (size' - size) - (e.got - call[c].got)
<1>1. IInv'
  BY ConsumerInv
<1>2. PermitsOK /\ PermitsOK'
  BY <1>1, PermitsAreElements, PermitsNext
<1>3. Held' = Held + e.got - call[c].got /\ ItemsAt("signal")' = ItemsAt("signal")
  BY ConsumerCounts DEF IInv, StepOf
<1>4. /\ Held \in Nat /\ ItemsAt("signal") \in Nat /\ size \in Nat /\ size' \in Nat
      /\ call[c].got \in Nat /\ e.got \in Nat
  BY <1>1, CountTypes, CallFacts DEF IInv, TypeOK, Calls
<1>5. QED
  BY <1>2, <1>3, <1>4 DEF PermitsOK

\* What the step of a consumer is to the semaphore.
LEMMA ConsumerRefines ==
  ASSUME IInv, NEW c \in Consumers, StepOf(c)
  PROVE  [Semaphore!SemaphoreNext]_(Semaphore!semaphoreVars)
<1> USE BlockingQueueAssumption DEF BlockingQueueAssumption
<1>1. PICK l \in ConsumerPcs, e \in Calls : Fits(l, e) /\ Moves(c, l, e) /\ Effect(c, l, e)
  BY DEF StepOf
<1>2. /\ Permits \in Nat /\ Permits' \in Nat
      /\ Permits' = Permits + (size' - size) - (e.got - call[c].got)
  BY <1>1, PermitsChange
<1>3. /\ Wanted' = [Wanted EXCEPT ![c] = IF l \in {"idle", "take"} THEN 0 ELSE e.max - e.got]
      /\ HasOne' = [HasOne EXCEPT ![c] = l \notin {"idle", "take"} /\ e.got > 0]
      /\ Wanted[c] = IF cpc[c] \in {"idle", "take"} THEN 0 ELSE call[c].max - call[c].got
      /\ HasOne[c] = (cpc[c] \notin {"idle", "take"} /\ call[c].got > 0)
      /\ Wanted \in [Consumers -> Int] /\ HasOne \in [Consumers -> BOOLEAN]
  BY <1>1, WantedNext
<1>4. /\ call[c].max \in Nat /\ call[c].got \in Nat /\ Fits(cpc[c], call[c]) /\ cpc[c] \in ConsumerPcs
      /\ count \in Int /\ tokens \in Nat /\ size \in Nat
      /\ e.max \in Nat /\ e.got \in Nat
  BY CallFacts DEF IInv, Calls
<1>5. Positive(count) \in Nat /\ Cardinality(Woken) \in Nat /\ ItemsAt("release") \in Nat
  BY <1>4, PositiveParts, CountTypes
<1>6. Permits = Positive(count) + tokens + Cardinality(Woken) + ItemsAt("release")
  BY <1>4, <1>5 DEF Permits, AllTokens, Woken
<1> HIDE DEF Permits, Wanted, HasOne
<1>7. ASSUME NEW n \in Nat \ {0}, Gets(c, l, e, n), n <= Permits, UNCHANGED size,
             cpc[c] \in {"tryCas", "spinCas", "sub"} \cup WaiterPcs
      PROVE  \E k \in 1 .. MaxBulk : Semaphore!Acquire(c, k)
  <2>1. /\ call[c].got + n <= call[c].max /\ l \in {"try", "take"}
        /\ e.max = call[c].max /\ e.got = call[c].got + n
    BY <1>7 DEF Gets
  <2>2. Wanted[c] = call[c].max - call[c].got /\ call[c].max <= MaxBulk
    BY <1>3, <1>4, <1>7 DEF Fits, WaiterPcs
  <2>3. n \in 1 .. MaxBulk /\ n <= Wanted[c] /\ Permits' = Permits - n
    BY <1>2, <1>4, <1>7, <2>1, <2>2
  <2>4. CASE l = "take"
    <3>1. Wanted' = [Wanted EXCEPT ![c] = 0] /\ HasOne' = [HasOne EXCEPT ![c] = FALSE]
      BY <1>3, <2>4
    <3>2. QED
      BY <1>7, <2>3, <3>1 DEF Semaphore!Acquire, Semaphore!Leave
  <2>5. CASE l = "try"
    <3>1. e.got < e.max /\ e.got > 0
      BY <1>1, <1>4, <1>7, <2>1, <2>5 DEF Fits
    <3>2. n < Wanted[c] /\ e.max - e.got = Wanted[c] - n
      BY <1>4, <2>1, <2>2, <3>1
    <3>3. Wanted' = [Wanted EXCEPT ![c] = Wanted[c] - n] /\ HasOne' = [HasOne EXCEPT ![c] = TRUE]
      BY <1>3, <2>5, <3>1, <3>2
    <3>4. QED
      BY <1>7, <2>3, <3>2, <3>3 DEF Semaphore!Acquire
  <2>6. QED
    BY <2>1, <2>4, <2>5
<1>8. ASSUME Wanted[c] > 0, ~HasOne[c], l = "idle", e = NoCall, Permits' = Permits,
             Permits <= Cardinality({d \in Consumers \ {c} : Wanted[d] > 0})
      PROVE  Semaphore!Fail(c)
  <2>1. Wanted' = [Wanted EXCEPT ![c] = 0] /\ HasOne' = [HasOne EXCEPT ![c] = FALSE]
    BY <1>3, <1>8
  <2>2. Semaphore!Leave(c)
    BY <2>1 DEF Semaphore!Leave
  <2>3. QED
    BY <1>8, <2>2, Zenon DEF Semaphore!Fail, Semaphore!Cardinality, Cardinality
<1>9. CASE FromCount(c, l, e)
  <2>1. PICK n \in 1 .. count : Gets(c, l, e, n)
    BY <1>9 DEF FromCount
  <2>2. n \in Nat \ {0} /\ n <= Permits /\ UNCHANGED size /\ cpc[c] \in {"tryCas", "spinCas", "sub"}
    BY <1>4, <1>5, <1>6, <1>9 DEF FromCount, Positive
  <2>3. \E k \in 1 .. MaxBulk : Semaphore!Acquire(c, k)
    BY <1>7, <2>1, <2>2
  <2>4. QED
    BY <2>3 DEF Semaphore!SemaphoreNext
<1>10. CASE FromTokens(c, l, e)
  <2>1. Gets(c, l, e, 1) /\ 1 <= Permits /\ UNCHANGED size /\ cpc[c] \in WaiterPcs
    BY <1>4, <1>5, <1>6, <1>10 DEF FromTokens, WaiterPcs
  <2>2. \E k \in 1 .. MaxBulk : Semaphore!Acquire(c, k)
    BY <1>7, <2>1
  <2>3. QED
    BY <2>2 DEF Semaphore!SemaphoreNext
<1>11. CASE FromWaker(c, l, e)
  <2>1. Cardinality(Woken) >= 1
    <3>1. c \in Woken /\ Woken \in SUBSET Consumers
      BY <1>11 DEF FromWaker, Woken
    <3>2. IsFiniteSet(Woken)
      BY <3>1, SubsetsFinite
    <3>3. Cardinality(Woken \ {c}) = Cardinality(Woken) - 1 /\ Cardinality(Woken \ {c}) \in Nat
      BY <3>1, <3>2, FS_RemoveElement, SubsetsFinite
    <3>4. QED
      BY <1>5, <3>3
  <2>2. Gets(c, l, e, 1) /\ 1 <= Permits /\ UNCHANGED size /\ cpc[c] \in WaiterPcs
    BY <1>4, <1>5, <1>6, <1>11, <2>1 DEF FromWaker, WaiterPcs
  <2>3. \E k \in 1 .. MaxBulk : Semaphore!Acquire(c, k)
    BY <1>7, <2>2
  <2>4. QED
    BY <2>3 DEF Semaphore!SemaphoreNext
<1>12. CASE StopsWaiting(c, l, e)
  <2>1. cpc[c] = "adjustCas" /\ l = "idle" /\ e = NoCall /\ count < 0 /\ UNCHANGED size
    BY <1>12 DEF StopsWaiting
  <2>2. call[c].max > 0 /\ call[c].got = 0
    BY <1>4, <2>1 DEF Fits, WaiterPcs
  <2>3. Wanted[c] > 0 /\ ~HasOne[c]
    BY <1>3, <1>4, <2>1, <2>2
  <2>4. Permits' = Permits
    BY <1>2, <1>4, <2>1, <2>2, NoCallFits
  <2>5. Permits <= Cardinality({d \in Consumers \ {c} : Wanted[d] > 0})
    BY <1>4, <2>1, OthersWait
  <2>6. QED
    BY <1>8, <2>1, <2>3, <2>4, <2>5 DEF Semaphore!SemaphoreNext
<1>13. CASE GivesUp(c, l, e)
  <2>1. /\ cpc[c] \in {"try", "tryCas"} /\ l = "idle" /\ e = NoCall /\ count <= 0 /\ UNCHANGED size
        /\ call[c].got = 0
    BY <1>13 DEF GivesUp
  <2>2. call[c].max > 0
    BY <1>4, <2>1 DEF Fits
  <2>3. Wanted[c] > 0 /\ ~HasOne[c]
    BY <1>3, <1>4, <2>1, <2>2
  <2>4. Permits' = Permits
    BY <1>2, <1>4, <2>1, <2>2, NoCallFits
  <2>5. c \notin Waiters
    BY <2>1 DEF Waiters
  <2>6. Permits <= Cardinality({d \in Consumers \ {c} : Wanted[d] > 0})
    BY <1>4, <2>1, <2>5, OthersWait
  <2>7. QED
    BY <1>8, <2>1, <2>3, <2>4, <2>6 DEF Semaphore!SemaphoreNext
<1>14. CASE Begins(c, l, e)
  <2>1. cpc[c] = "idle" /\ l = "try" /\ e.got = 0 /\ UNCHANGED size
    BY <1>14 DEF Begins
  <2>2. e.max \in 1 .. MaxBulk /\ call[c].got = 0
    BY <1>1, <1>4, <2>1 DEF Fits, NoCall
  <2>3. Wanted[c] = 0 /\ Wanted' = [Wanted EXCEPT ![c] = e.max]
    <3>1. e.max - e.got = e.max
      BY <1>4, <2>1
    <3>2. QED
      BY <1>3, <2>1, <3>1
  <2>4. HasOne[c] = FALSE /\ HasOne' = [HasOne EXCEPT ![c] = FALSE]
    <3>1. ~(e.got > 0)
      BY <1>4, <2>1
    <3>2. QED
      BY <1>3, <2>1, <3>1, Zenon
  <2>5. HasOne' = HasOne
    BY <1>3, <2>4
  <2>6. Permits' = Permits
    BY <1>2, <1>4, <2>1, <2>2
  <2>7. Semaphore!Call(c, e.max)
    BY <2>3, <2>5, <2>6 DEF Semaphore!Call
  <2>8. QED
    BY <2>2, <2>7 DEF Semaphore!SemaphoreNext
<1>15. CASE IsContent(c, l, e)
  <2>1. cpc[c] \in {"try", "tryCas"} /\ l = "take" /\ call[c].got > 0 /\ e.got = call[c].got /\ UNCHANGED size
    BY <1>15 DEF IsContent
  <2>2. HasOne[c]
    BY <1>3, <2>1
  <2>3. Wanted' = [Wanted EXCEPT ![c] = 0] /\ HasOne' = [HasOne EXCEPT ![c] = FALSE]
    BY <1>3, <2>1
  <2>4. Permits' = Permits
    BY <1>2, <1>4, <2>1
  <2>5. Semaphore!Stop(c)
    BY <2>2, <2>3, <2>4 DEF Semaphore!Stop, Semaphore!Leave
  <2>6. QED
    BY <2>5 DEF Semaphore!SemaphoreNext
<1>16. CASE StartsWaiting(c, l, e) \/ GoesOn(c, l, e) \/ Takes(c, l, e)
  <2>1. /\ Permits' = Permits
        /\ Wanted[c] = (IF l \in {"idle", "take"} THEN 0 ELSE e.max - e.got)
        /\ HasOne[c] = (l \notin {"idle", "take"} /\ e.got > 0)
    <3>1. CASE StartsWaiting(c, l, e)
      BY <1>2, <1>3, <1>4, <3>1 DEF StartsWaiting
    <3>2. CASE GoesOn(c, l, e)
      <4>1. /\ cpc[c] \notin {"idle", "take"} /\ l \notin {"idle", "take"}
            /\ e.max = call[c].max /\ e.got = call[c].got /\ UNCHANGED size
        BY <3>2 DEF GoesOn
      <4>2. Permits' = Permits
        BY <1>2, <1>4, <4>1
      <4>3. Wanted[c] = e.max - e.got
        BY <1>3, <4>1
      <4>4. HasOne[c] = (l \notin {"idle", "take"} /\ e.got > 0)
        BY <1>3, <4>1
      <4>5. QED
        BY <4>1, <4>2, <4>3, <4>4
    <3>3. CASE Takes(c, l, e)
      BY <1>2, <1>3, <1>4, <3>3 DEF Takes
    <3>4. QED
      BY <1>16, <3>1, <3>2, <3>3
  <2>2. Wanted' = Wanted /\ HasOne' = HasOne
    BY <1>3, <2>1
  <2>3. QED
    BY <2>1, <2>2 DEF Semaphore!semaphoreVars
<1>17. QED
  BY <1>1, <1>9, <1>10, <1>11, <1>12, <1>13, <1>14, <1>15, <1>16 DEF Effect

\* A producer that signals makes permits of its elements; its other steps change nothing
\* for the semaphore.
LEMMA ProducerRefines ==
  ASSUME IInv, NEW p \in Producers, Publish(p) \/ \E n \in 0 .. MaxBulk : EnqueueInner(p, n)
  PROVE  [Semaphore!SemaphoreNext]_(Semaphore!semaphoreVars)
<1> USE BlockingQueueAssumption DEF BlockingQueueAssumption
<1>1. /\ IInv'
      /\ Held' = Held
      /\ size' - ItemsAt("signal")' = size - ItemsAt("signal") + (IF ppc[p] = "signal" THEN items[p] ELSE 0)
  BY ProducerInv
<1>2. PermitsOK /\ PermitsOK'
  BY <1>1, PermitsAreElements, PermitsNext
<1>3. items[p] \in 0 .. MaxBulk /\ size \in Nat /\ size' \in Nat
  BY <1>1 DEF IInv, TypeOK
<1>4. Held \in Nat /\ ItemsAt("signal") \in Nat
  BY CountTypes
<1>5. ItemsAt("signal")' \in Nat
  BY <1>2 DEF PermitsOK
<1>6. Permits' = Permits + (IF ppc[p] = "signal" THEN items[p] ELSE 0)
  BY <1>1, <1>2, <1>3, <1>4, <1>5 DEF PermitsOK
<1>7. Wanted' = Wanted /\ HasOne' = HasOne
  <2>1. CASE UNCHANGED consumerVars
    BY <2>1, Zenon DEF consumerVars, Wanted, HasOne, InSemaphore
  <2>2. CASE Releases(p)
    <3>1. PICK woken \in SUBSET {c \in Consumers : cpc[c] = "sleep"} :
            /\ cpc' = [c \in Consumers |-> IF c \in woken THEN "woken" ELSE cpc[c]]
            /\ UNCHANGED call
      BY <2>2 DEF Releases, kSubset
    <3>2. ASSUME NEW c \in Consumers PROVE InSemaphore(c)' = InSemaphore(c)
      BY <3>1 DEF InSemaphore
    <3>3. UNCHANGED call
      BY <3>1
    <3>4. Wanted' = Wanted
      BY <3>2, <3>3 DEF Wanted
    <3>5. HasOne' = HasOne
      BY <3>2, <3>3, Zenon DEF HasOne
    <3>6. QED
      BY <3>4, <3>5
  <2>3. QED
    BY <2>1, <2>2, ProducerStep DEF Enqueues, Signals
<1> HIDE DEF Permits, Wanted, HasOne
<1>8. CASE ppc[p] = "signal" /\ items[p] > 0
  <2>1. items[p] \in 1 .. MaxBulk /\ Permits' = Permits + items[p]
    BY <1>3, <1>6, <1>8
  <2>2. Semaphore!Signal(items[p])
    BY <1>7, <2>1 DEF Semaphore!Signal
  <2>3. QED
    BY <2>1, <2>2 DEF Semaphore!SemaphoreNext
<1>9. CASE ~(ppc[p] = "signal" /\ items[p] > 0)
  <2>1. Permits' = Permits
    BY <1>2, <1>3, <1>6, <1>9 DEF PermitsOK
  <2>2. QED
    BY <1>7, <2>1 DEF Semaphore!semaphoreVars
<1>10. QED
  BY <1>8, <1>9

LEMMA InitRefines == Init => Semaphore!SemaphoreInit
<1> SUFFICES ASSUME Init PROVE Semaphore!SemaphoreInit
  OBVIOUS
<1>1. PermitsOK
  BY InitIInv, PermitsAreElements
<1>2. Held = 0 /\ ItemsAt("signal") = 0 /\ size = 0
  BY TotalZero, BlockingQueueAssumption DEF BlockingQueueAssumption, Init, Held, ItemsAt, NoCall
<1>3. Permits = 0
  BY <1>1, <1>2 DEF PermitsOK
<1>4. \A c \in Consumers : ~InSemaphore(c)
  BY DEF Init, InSemaphore
<1>5. Wanted = [c \in Consumers |-> 0]
  BY <1>4 DEF Wanted
<1>6. HasOne = [c \in Consumers |-> FALSE]
  BY <1>4, Zenon DEF HasOne
<1>7. QED
  BY <1>3, <1>5, <1>6 DEF Semaphore!SemaphoreInit

LEMMA NextRefines ==
  ASSUME IInv, [Next]_vars
  PROVE  [Semaphore!SemaphoreNext]_(Semaphore!semaphoreVars)
<1>1. ASSUME NEW p \in Producers, Publish(p) \/ \E n \in 0 .. MaxBulk : EnqueueInner(p, n)
      PROVE  [Semaphore!SemaphoreNext]_(Semaphore!semaphoreVars)
  BY <1>1, ProducerRefines
<1>2. ASSUME NEW c \in Consumers,
             \/ SemaphoreCall(c) \/ Timeout(c) \/ Take(c)
             \/ \E max \in 1 .. MaxBulk, mode \in Modes : BeginDequeue(c, max, mode)
      PROVE  [Semaphore!SemaphoreNext]_(Semaphore!semaphoreVars)
  BY <1>2, ConsumerStep, ConsumerRefines DEF IInv
<1>3. CASE UNCHANGED vars
  <2>1. Permits' = Permits
    BY <1>3 DEF vars, producerVars, consumerVars, Permits, AllTokens, ItemsAt
  <2>2. Wanted' = Wanted /\ HasOne' = HasOne
    BY <1>3, Zenon DEF vars, producerVars, consumerVars, Wanted, HasOne, InSemaphore
  <2>3. QED
    BY <2>1, <2>2 DEF Semaphore!semaphoreVars
<1>4. QED
  BY <1>1, <1>2, <1>3 DEF Next

\* LightweightSemaphore is a counting semaphore, for any number of threads: no call gets a
\* permit that does not exist, and none fails but when all permits have other takers.
THEOREM IsASemaphore == Spec => SemaphoreSpec
<1>1. Init => Semaphore!SemaphoreInit
  BY InitRefines
<1>2. IInv /\ [Next]_vars => [Semaphore!SemaphoreNext]_(Semaphore!semaphoreVars)
  BY NextRefines
<1>3. QED
  BY <1>1, <1>2, Invariance, PTL DEF Spec, SemaphoreSpec, Semaphore!SemaphoreSpec
==============================================================================
