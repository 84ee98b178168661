-------------------------- MODULE ProducerBaseProofs --------------------------
(***************************************************************************)
(* How the consumers of a sub-queue share out its elements, for every      *)
(* number of consumers and every width of the indices, as long as they do  *)
(* not wrap around within half their range.                                *)
(***************************************************************************)
EXTENDS ProducerBase, FiniteSetTheorems, TLAPS

------------------------------------------------------------------------------
(* How a sum changes with one of its terms.                                *)

\* A function whose values on S can be summed up.
Summable(f, S, max) == IsFiniteSet(S) /\ \A i \in S : f[i] \in 0 .. max

Term(f, S, i) == IF i \in S THEN f[i] ELSE 0

LEMMA UnitsFinite ==
  ASSUME NEW max \in Nat, NEW S, NEW f, Summable(f, S, max)
  PROVE  IsFiniteSet(Units(f, S, max)) /\ Total(f, S, max) \in Nat
<1>1. IsFiniteSet(1 .. max)
  BY FS_Interval
<1>2. IsFiniteSet(S \X (1 .. max))
  BY <1>1, FS_Product DEF Summable
<1>3. Units(f, S, max) \in SUBSET (S \X (1 .. max))
  BY DEF Units
<1>4. IsFiniteSet(Units(f, S, max))
  BY <1>2, <1>3, FS_Subset
<1>5. QED
  BY <1>4, FS_CardinalityType DEF Total

\* The units of one term.
LEMMA OwnUnits ==
  ASSUME NEW i, NEW n \in Nat
  PROVE  IsFiniteSet({i} \X (1 .. n)) /\ Cardinality({i} \X (1 .. n)) = n
<1>1. IsFiniteSet(1 .. n) /\ Cardinality(1 .. n) = n
  BY FS_Interval
<1>2. IsFiniteSet({i}) /\ Cardinality({i}) = 1
  BY FS_Singleton
<1>3. IsFiniteSet({i} \X (1 .. n)) /\ Cardinality({i} \X (1 .. n)) = 1 * n
  BY <1>1, <1>2, FS_Product
<1>4. QED
  BY <1>3

\* The units of all terms but one.
Rest(f, S, max, i) == {x \in Units(f, S, max) : x[1] # i}

\* The sum is one term and the rest.
LEMMA TotalSplit ==
  ASSUME NEW max \in Nat, NEW S, NEW f, Summable(f, S, max), NEW i
  PROVE  /\ Cardinality(Rest(f, S, max, i)) \in Nat
         /\ Total(f, S, max) = Cardinality(Rest(f, S, max, i)) + Term(f, S, i)
<1> DEFINE rest == Rest(f, S, max, i)
           own == {i} \X (1 .. f[i])
<1>1. IsFiniteSet(rest) /\ Cardinality(rest) \in Nat
  <2>1. rest \in SUBSET Units(f, S, max)
    BY DEF Rest
  <2>2. QED
    BY <2>1, UnitsFinite, FS_Subset, FS_CardinalityType
<1>2. CASE i \notin S
  <2>1. rest = Units(f, S, max)
    BY <1>2 DEF Rest, Units
  <2>2. QED
    BY <1>1, <1>2, <2>1 DEF Total, Term
<1>3. CASE i \in S
  <2>1. f[i] \in Nat /\ f[i] <= max
    BY <1>3 DEF Summable
  <2>2. IsFiniteSet(own) /\ Cardinality(own) = f[i]
    BY <2>1, OwnUnits
  <2>3. Units(f, S, max) = rest \cup own
    BY <1>3, <2>1 DEF Units, Rest
  <2>4. rest \cap own = {}
    BY DEF Rest
  <2>5. Cardinality(rest \cup own) = Cardinality(rest) + f[i] - 0
    BY <1>1, <2>2, <2>4, FS_Union, FS_EmptySet
  <2>6. QED
    BY <1>1, <1>3, <2>1, <2>3, <2>5 DEF Total, Term
<1>4. QED
  BY <1>2, <1>3

\* Where two sums differ in one term only.
LEMMA TotalChange ==
  ASSUME NEW max \in Nat, NEW S, NEW f, Summable(f, S, max),
         NEW T, NEW g, Summable(g, T, max),
         NEW i, S \ {i} = T \ {i}, \A j \in S \ {i} : g[j] = f[j]
  PROVE  Total(g, T, max) = Total(f, S, max) + Term(g, T, i) - Term(f, S, i)
<1>1. Rest(g, T, max, i) = Rest(f, S, max, i)
  BY DEF Rest, Units
<1>2. /\ Total(f, S, max) = Cardinality(Rest(f, S, max, i)) + Term(f, S, i)
      /\ Cardinality(Rest(f, S, max, i)) \in Nat
  BY TotalSplit
<1>3. Total(g, T, max) = Cardinality(Rest(g, T, max, i)) + Term(g, T, i)
  BY TotalSplit
<1>4. Term(f, S, i) \in Nat /\ Term(g, T, i) \in Nat
  BY DEF Term, Summable
<1>5. QED
  BY <1>1, <1>2, <1>3, <1>4

\* Where two sums over one set differ in one term only.
LEMMA TotalOne ==
  ASSUME NEW max \in Nat, NEW S, NEW f, Summable(f, S, max), NEW g, Summable(g, S, max),
         NEW i \in S, \A j \in S \ {i} : g[j] = f[j]
  PROVE  Total(g, S, max) = Total(f, S, max) + g[i] - f[i]
<1>1. \E T : T = S
  OBVIOUS
<1>2. Total(g, S, max) = Total(f, S, max) + Term(g, S, i) - Term(f, S, i)
  <2>1. PICK T : T = S
    BY <1>1
  <2>2. Summable(g, T, max) /\ S \ {i} = T \ {i}
    BY <2>1
  <2>3. Total(g, T, max) = Total(f, S, max) + Term(g, T, i) - Term(f, S, i)
    BY <2>2, TotalChange
  <2> QED
    BY <2>1, <2>3
<1>3. QED
  BY <1>2 DEF Term

LEMMA TotalZero ==
  ASSUME NEW max \in Nat, NEW S, NEW f, \A i \in S : f[i] = 0
  PROVE  Total(f, S, max) = 0
<1>1. Units(f, S, max) = {}
  BY DEF Units
<1>2. QED
  BY <1>1, FS_EmptySet DEF Total

\* No term exceeds the sum.
LEMMA TotalTerm ==
  ASSUME NEW max \in Nat, NEW S, NEW f, Summable(f, S, max), NEW i \in S
  PROVE  f[i] <= Total(f, S, max)
<1>1. Total(f, S, max) = Cardinality(Rest(f, S, max, i)) + f[i]
  BY TotalSplit DEF Term
<1>2. Cardinality(Rest(f, S, max, i)) \in Nat
  BY TotalSplit
<1>3. f[i] \in Nat
  BY DEF Summable
<1>4. QED
  BY <1>1, <1>2, <1>3

\* A sum over fewer terms is not greater.
LEMMA TotalSubset ==
  ASSUME NEW max \in Nat, NEW S, NEW f, Summable(f, S, max), NEW T \in SUBSET S
  PROVE  Total(f, T, max) <= Total(f, S, max)
<1>1. Units(f, T, max) \subseteq Units(f, S, max)
  BY DEF Units
<1>2. IsFiniteSet(Units(f, S, max))
  BY UnitsFinite
<1>3. Cardinality(Units(f, T, max)) <= Cardinality(Units(f, S, max))
  BY <1>1, <1>2, FS_Subset
<1>4. QED
  BY <1>3 DEF Total

\* A sum is at most the number of its terms times their maximum.
LEMMA TotalAtMost ==
  ASSUME NEW max \in Nat, NEW S, NEW f, Summable(f, S, max)
  PROVE  Total(f, S, max) <= Cardinality(S) * max
<1>1. IsFiniteSet(1 .. max) /\ Cardinality(1 .. max) = max
  BY FS_Interval
<1>2. IsFiniteSet(S \X (1 .. max)) /\ Cardinality(S \X (1 .. max)) = Cardinality(S) * max
  BY <1>1, FS_Product DEF Summable
<1>3. Units(f, S, max) \subseteq S \X (1 .. max)
  BY DEF Units
<1>4. Cardinality(Units(f, S, max)) <= Cardinality(S \X (1 .. max))
  BY <1>2, <1>3, FS_Subset
<1>5. QED
  BY <1>2, <1>4 DEF Total

------------------------------------------------------------------------------
(* Circular arithmetic                                                     *)

LEMMA HalfRange ==
  /\ Numbers \in Nat \ {0} /\ Numbers \div 2 \in Nat
  /\ Numbers = (Numbers \div 2) + (Numbers \div 2)
  /\ MaxBulk \in Nat \ {0} /\ MaxPromised \in Nat /\ MaxEnqueued \in Nat
  /\ StartIndex \in Index /\ StartOvercommit \in Index
  /\ IsFiniteSet(Consumers)
<1>1. Numbers \in Nat /\ Numbers % 2 = 0 /\ StartIndex \in 0 .. Numbers - 1
  BY ProducerAssumption DEF ProducerAssumption, Index
<1> HIDE DEF Numbers
<1>2. /\ Numbers \in Nat \ {0} /\ Numbers \div 2 \in Nat
      /\ Numbers = (Numbers \div 2) + (Numbers \div 2)
  BY <1>1
<1>3. QED
  BY <1>2, ProducerAssumption DEF ProducerAssumption

LEMMA MinusValue ==
  ASSUME NEW a \in Index, NEW b \in Index
  PROVE  Minus(a, b) \in Index /\ Minus(a, b) = IF a >= b THEN a - b ELSE a - b + Numbers
<1> HIDE DEF Numbers
<1>1. Numbers \in Nat \ {0}
  BY HalfRange
<1>2. QED
  BY <1>1 DEF Minus, Index

LEMMA PlusValue ==
  ASSUME NEW a \in Index, NEW b \in Index
  PROVE  /\ Plus(a, b) \in Index
         /\ Plus(a, b) = IF a + b < Numbers THEN a + b ELSE a + b - Numbers
<1> HIDE DEF Numbers
<1>1. Numbers \in Nat \ {0}
  BY HalfRange
<1>2. QED
  BY <1>1 DEF Plus, Index

\* A counter that is advanced without running into its start.
LEMMA Advanced ==
  ASSUME NEW a \in Index, NEW s \in Index, NEW k \in Nat, Minus(a, s) + k < Numbers
  PROVE  Plus(a, k) \in Index /\ Minus(Plus(a, k), s) = Minus(a, s) + k
<1> HIDE DEF Numbers
<1>1. Numbers \in Nat \ {0}
  BY HalfRange
<1>2. Minus(a, s) \in 0 .. Numbers - 1 /\ k \in 0 .. Numbers - 1
  BY <1>1, MinusValue DEF Index
<1>3. k \in Index /\ Plus(a, k) \in Index
  BY <1>2, PlusValue DEF Index
<1>4. Minus(Plus(a, k), s) = IF Plus(a, k) >= s THEN Plus(a, k) - s ELSE Plus(a, k) - s + Numbers
  BY <1>3, MinusValue
<1>5. Plus(a, k) = IF a + k < Numbers THEN a + k ELSE a + k - Numbers
  BY <1>3, PlusValue
<1>6. Minus(a, s) = IF a >= s THEN a - s ELSE a - s + Numbers
  BY MinusValue
<1>7. QED
  BY <1>1, <1>2, <1>3, <1>4, <1>5, <1>6 DEF Index

\* The difference of two counters, of which one is also counted from where the other
\* starts.
LEMMA Unwrapped ==
  ASSUME NEW a \in Index, NEW s \in Index, NEW b \in Index, NEW u \in Index,
         Minus(b, u) <= Minus(a, Plus(s, u))
  PROVE  Minus(a, b) = Plus(s, Minus(a, Plus(s, u)) - Minus(b, u))
<1> HIDE DEF Numbers
<1>1. Numbers \in Nat \ {0}
  BY HalfRange
<1>2. /\ Minus(a, b) = IF a >= b THEN a - b ELSE a - b + Numbers
      /\ Minus(b, u) = IF b >= u THEN b - u ELSE b - u + Numbers
      /\ Plus(s, u) \in Index
      /\ Plus(s, u) = IF s + u < Numbers THEN s + u ELSE s + u - Numbers
  BY MinusValue, PlusValue
<1>3. /\ Minus(a, Plus(s, u)) = IF a >= Plus(s, u) THEN a - Plus(s, u) ELSE a - Plus(s, u) + Numbers
      /\ Minus(a, Plus(s, u)) \in Index /\ Minus(b, u) \in Index
  BY <1>2, MinusValue
<1> DEFINE x == Minus(a, Plus(s, u)) - Minus(b, u)
<1>4. x \in Index
  BY <1>1, <1>3 DEF Index
<1>5. Plus(s, x) = IF s + x < Numbers THEN s + x ELSE s + x - Numbers
  BY <1>4, PlusValue
<1>6. QED
  BY <1>1, <1>2, <1>3, <1>5 DEF Index

\* The difference of two numbers that are counted from the same start.
LEMMA SameStart ==
  ASSUME NEW a \in Index, NEW b \in Index, NEW s \in Index
  PROVE  Minus(a, b) = IF Minus(a, s) >= Minus(b, s) THEN Minus(a, s) - Minus(b, s)
                       ELSE Minus(a, s) - Minus(b, s) + Numbers
<1> HIDE DEF Numbers
<1>1. Numbers \in Nat \ {0}
  BY HalfRange
<1>2. /\ Minus(a, b) = IF a >= b THEN a - b ELSE a - b + Numbers
      /\ Minus(a, s) = IF a >= s THEN a - s ELSE a - s + Numbers
      /\ Minus(b, s) = IF b >= s THEN b - s ELSE b - s + Numbers
  BY MinusValue
<1>3. QED
  BY <1>1, <1>2 DEF Index

LEMMA LessValue ==
  ASSUME NEW x \in Index
  PROVE  Less(0, x) <=> x \in 1 .. (Numbers \div 2) - 1
<1> HIDE DEF Numbers
<1>1. 0 \in Index /\ Minus(0, x) = IF 0 >= x THEN 0 - x ELSE 0 - x + Numbers
  BY HalfRange, MinusValue DEF Index
<1>2. QED
  BY <1>1, HalfRange DEF Less, Index

------------------------------------------------------------------------------
(* The inductive invariant                                                 *)

\* The counters, counted from where they start.
Filled == Minus(tailIndex, StartIndex)
Emptied == Minus(headIndex, StartIndex)
Promises == Minus(dequeueOptimisticCount, Plus(StartIndex, StartOvercommit))
Returned == Minus(dequeueOvercommit, StartOvercommit)
Mine(c) == Minus(call[c].mine, Plus(StartIndex, StartOvercommit))
Read(c) == Minus(call[c].overcommit, StartOvercommit)

AskingPcs == {"overcommit", "examine", "promise"}
PromisedPcs == {"reload", "giveBack", "claim"}
Promised == {c \in Consumers : cpc[c] \in PromisedPcs}

\* The most a consumer may still promise.
Asked(c) == IF cpc[c] \in AskingPcs THEN call[c].max ELSE 0
AllAsked == Total([c \in Consumers |-> Asked(c)], Consumers, MaxBulk)
AllPending == Total([c \in Consumers |-> Pending(c)], Consumers, MaxBulk)

\* Those who promised before c did, and what they have not settled yet.
Ahead(c) == {d \in Promised : Mine(d) < Mine(c)}
Before(c) == Total([d \in Consumers |-> Pending(d)], Ahead(c), MaxBulk)

Calls == [max : 1 .. MaxBulk, tail : Index, overcommit : Index, desired : 0 .. MaxBulk,
          mine : Index, count : 0 .. MaxBulk, index : {0}]

ShareTyped ==
  /\ tailIndex \in Index /\ headIndex \in Index
  /\ dequeueOptimisticCount \in Index /\ dequeueOvercommit \in Index
  /\ DOMAIN cpc = Consumers /\ DOMAIN call = Consumers
  /\ \A c \in Unsettled : call[c] \in Calls
  /\ \A c \in Consumers :
       /\ cpc[c] = "promise" => call[c].desired \in 1 .. call[c].max
       /\ cpc[c] \in PromisedPcs => call[c].desired # 0 /\ call[c].desired <= call[c].max
       /\ cpc[c] = "giveBack" => call[c].count < call[c].desired
       /\ cpc[c] = "claim" => call[c].count \in 1 .. call[c].desired

\* No counter runs half of the range.
Room ==
  /\ Filled <= MaxEnqueued
  /\ Promises + AllAsked <= MaxPromised + Cardinality(Consumers) * MaxBulk

\* PromisesSettled in the numbers that do not wrap around.
Balance == Promises = Returned + Emptied + AllPending

Reads == \A c \in Consumers : cpc[c] \in {"examine", "promise"} => Read(c) <= Returned

\* Consumers promise one after the other.
Turns ==
  \A c \in Promised : Mine(c) < Promises /\ \A d \in Promised \ {c} : Mine(d) # Mine(c)

\* Whoever comes to claim behind all who promised before it finds its elements
\* there: a consumer that still looks at the tail may rely on that to see too few
\* of them, and one that has looked knows how many there are.
Cover(c) ==
  /\ cpc[c] = "reload" =>
       \/ Emptied + Before(c) <= Mine(c) - Read(c)
       \/ Emptied + Before(c) + call[c].desired <= Filled
  /\ cpc[c] \in {"giveBack", "claim"} /\ call[c].count # 0 =>
       Emptied + Before(c) + call[c].count <= Filled

Covers == \A c \in Consumers : Cover(c)

ShareInv ==
  ShareTyped /\ Room /\ Emptied <= Filled /\ Balance /\ Reads /\ Turns /\ Covers

\* The values of the counters, the calls and the sums.
ShareFacts ==
  /\ Filled \in Index /\ Emptied \in Index /\ Promises \in Index /\ Returned \in Index
  /\ \A c \in Unsettled : call[c] \in Calls /\ Mine(c) \in Index /\ Read(c) \in Index
  /\ \A c \in Consumers : Pending(c) \in 0 .. MaxBulk /\ Asked(c) \in 0 .. MaxBulk
  /\ \A S \in SUBSET Consumers :
       /\ Summable([c \in Consumers |-> Pending(c)], S, MaxBulk)
       /\ Summable([c \in Consumers |-> Asked(c)], S, MaxBulk)
  /\ AllPending \in Nat /\ AllAsked \in Nat
  /\ \A c \in Consumers : Ahead(c) \in SUBSET Consumers /\ Before(c) \in Nat

LEMMA ShareTypes == ShareTyped => ShareFacts
<1> SUFFICES ASSUME ShareTyped PROVE ShareFacts
  OBVIOUS
<1> HIDE DEF Numbers
<1>1. Plus(StartIndex, StartOvercommit) \in Index
  BY HalfRange, PlusValue
<1>2. Filled \in Index /\ Emptied \in Index /\ Promises \in Index /\ Returned \in Index
  BY <1>1, HalfRange, MinusValue DEF ShareTyped, Filled, Emptied, Promises, Returned
<1>3. \A c \in Unsettled : call[c] \in Calls
  BY DEF ShareTyped
<1>4. \A c \in Unsettled : Mine(c) \in Index /\ Read(c) \in Index
  <2> TAKE c \in Unsettled
  <2>1. call[c].mine \in Index /\ call[c].overcommit \in Index
    BY <1>3 DEF Calls
  <2>2. QED
    BY <1>1, <2>1, HalfRange, MinusValue DEF Mine, Read
<1>5. ASSUME NEW c \in Consumers PROVE Pending(c) \in 0 .. MaxBulk /\ Asked(c) \in 0 .. MaxBulk
  <2>1. CASE c \in Unsettled
    <3>1. /\ call[c].desired \in 0 .. MaxBulk /\ call[c].count \in 0 .. MaxBulk
          /\ call[c].max \in 0 .. MaxBulk
      BY <1>3, <2>1, HalfRange DEF Calls
    <3>2. QED
      BY <3>1, HalfRange DEF Pending, Asked
  <2>2. CASE c \notin Unsettled
    BY <2>2, HalfRange DEF Unsettled, Pending, Asked, AskingPcs
  <2>3. QED
    BY <2>1, <2>2
<1>6. ASSUME NEW S \in SUBSET Consumers
      PROVE  /\ Summable([c \in Consumers |-> Pending(c)], S, MaxBulk)
             /\ Summable([c \in Consumers |-> Asked(c)], S, MaxBulk)
  <2>1. IsFiniteSet(S)
    BY HalfRange, FS_Subset
  <2>2. QED
    BY <1>5, <2>1 DEF Summable
<1>7. AllPending \in Nat /\ AllAsked \in Nat
  BY <1>6, HalfRange, UnitsFinite DEF AllPending, AllAsked
<1>8. ASSUME NEW c \in Consumers PROVE Ahead(c) \in SUBSET Consumers /\ Before(c) \in Nat
  <2>1. Ahead(c) \in SUBSET Consumers
    BY DEF Ahead, Promised
  <2>2. QED
    BY <1>6, <2>1, HalfRange, UnitsFinite DEF Before
<1>9. QED
  BY <1>2, <1>3, <1>4, <1>5, <1>6, <1>7, <1>8 DEF ShareFacts

LEMMA ShareTypesNext == ShareTyped' => ShareFacts'
  BY ShareTypes, PTL

\* Nothing happens to any consumer but c.
OnlyCaller(c) ==
  \A d \in Consumers \ {c} : cpc'[d] = cpc[d] /\ call'[d] = call[d]

\* What a step of c does to the others and to the sums.
LEMMA SumsNext ==
  ASSUME ShareTyped, ShareTyped', NEW c \in Consumers, OnlyCaller(c)
  PROVE  /\ AllPending' = AllPending + Pending(c)' - Pending(c)
         /\ AllAsked' = AllAsked + Asked(c)' - Asked(c)
         /\ \A d \in Consumers \ {c} :
              /\ Mine(d)' = Mine(d) /\ Read(d)' = Read(d) /\ Pending(d)' = Pending(d)
              /\ Asked(d)' = Asked(d)
              /\ d \in Promised' <=> d \in Promised
<1>1. ASSUME NEW d \in Consumers \ {c}
      PROVE  /\ Mine(d)' = Mine(d) /\ Read(d)' = Read(d) /\ Pending(d)' = Pending(d)
             /\ Asked(d)' = Asked(d)
             /\ d \in Promised' <=> d \in Promised
  <2>1. cpc'[d] = cpc[d] /\ call'[d] = call[d]
    BY DEF OnlyCaller
  <2>2. QED
    BY <2>1 DEF Mine, Read, Pending, Asked, Promised
<1> DEFINE f == [d \in Consumers |-> Pending(d)]
           g == [d \in Consumers |-> Pending(d)']
           p == [d \in Consumers |-> Asked(d)]
           q == [d \in Consumers |-> Asked(d)']
<1>2. /\ Summable(f, Consumers, MaxBulk) /\ Summable(g, Consumers, MaxBulk)
      /\ Summable(p, Consumers, MaxBulk) /\ Summable(q, Consumers, MaxBulk)
  BY ShareTypes, ShareTypesNext DEF ShareFacts
<1>3. \A d \in Consumers \ {c} : g[d] = f[d] /\ q[d] = p[d]
  BY <1>1
<1>4. AllPending = Total(f, Consumers, MaxBulk) /\ AllPending' = Total(g, Consumers, MaxBulk)
  BY DEF AllPending
<1>5. AllAsked = Total(p, Consumers, MaxBulk) /\ AllAsked' = Total(q, Consumers, MaxBulk)
  BY DEF AllAsked
<1>6. f[c] = Pending(c) /\ g[c] = Pending(c)' /\ p[c] = Asked(c) /\ q[c] = Asked(c)'
  OBVIOUS
<1> HIDE DEF f, g, p, q
<1>7. Total(g, Consumers, MaxBulk) = Total(f, Consumers, MaxBulk) + g[c] - f[c]
  BY <1>2, <1>3, HalfRange, TotalOne
<1>8. Total(q, Consumers, MaxBulk) = Total(p, Consumers, MaxBulk) + q[c] - p[c]
  BY <1>2, <1>3, HalfRange, TotalOne
<1>9. QED
  BY <1>1, <1>4, <1>5, <1>6, <1>7, <1>8

\* What is before the others.
LEMMA BeforeNext ==
  ASSUME ShareTyped, ShareTyped', NEW c \in Consumers, OnlyCaller(c),
         NEW d \in Consumers \ {c}
  PROVE  Before(d)' = Before(d) + (IF c \in Ahead(d)' THEN Pending(c)' ELSE 0)
                                - (IF c \in Ahead(d) THEN Pending(c) ELSE 0)
<1> DEFINE f == [e \in Consumers |-> Pending(e)]
           g == [e \in Consumers |-> Pending(e)']
           S == Ahead(d)
           T == Ahead(d)'
<1>1. S \in SUBSET Consumers /\ T \in SUBSET Consumers
  BY ShareTypes, ShareTypesNext DEF ShareFacts
<1>2. Summable(f, S, MaxBulk) /\ Summable(g, T, MaxBulk)
  BY <1>1, ShareTypes, ShareTypesNext DEF ShareFacts
<1>3. S \ {c} = T \ {c}
  BY SumsNext DEF Ahead, Promised
<1>4. \A e \in S \ {c} : g[e] = f[e]
  BY <1>1, SumsNext
<1>5. Before(d) = Total(f, S, MaxBulk) /\ Before(d)' = Total(g, T, MaxBulk)
  BY DEF Before
<1>6. f[c] = Pending(c) /\ g[c] = Pending(c)'
  OBVIOUS
<1> HIDE DEF f, g, S, T
<1>7. MaxBulk \in Nat
  BY HalfRange
<1>8. Total(g, T, MaxBulk) = Total(f, S, MaxBulk) + Term(g, T, c) - Term(f, S, c)
  BY <1>2, <1>3, <1>4, <1>7, TotalChange, SMTT(60)
<1>9. /\ Term(g, T, c) = (IF c \in T THEN Pending(c)' ELSE 0)
      /\ Term(f, S, c) = (IF c \in S THEN Pending(c) ELSE 0)
  BY <1>6 DEF Term
<1>10. QED
  BY <1>5, <1>8, <1>9 DEF S, T

\* The promise of c, and all before it, are before whoever promised after c.
LEMMA BeforeLater ==
  ASSUME ShareTyped, NEW c \in Promised, NEW d \in Promised, Mine(c) < Mine(d)
  PROVE  Before(c) + Pending(c) <= Before(d)
<1> DEFINE f == [e \in Consumers |-> Pending(e)]
           S == Ahead(c)
           T == Ahead(c) \cup {c}
<1>1. c \in Consumers /\ d \in Consumers /\ c \in Unsettled /\ d \in Unsettled
  BY DEF Promised, PromisedPcs, Unsettled
<1>2. \A e \in Promised : Mine(e) \in Int
  BY ShareTypes DEF ShareFacts, Promised, PromisedPcs, Unsettled, Index
<1>3. c \notin S /\ T \in SUBSET Ahead(d) /\ S \ {c} = T \ {c} /\ c \in T
  BY <1>1, <1>2 DEF Ahead
<1>4. S \in SUBSET Consumers /\ T \in SUBSET Consumers /\ Ahead(d) \in SUBSET Consumers
  BY <1>1, ShareTypes DEF ShareFacts
<1>5. Summable(f, S, MaxBulk) /\ Summable(f, T, MaxBulk) /\ Summable(f, Ahead(d), MaxBulk)
  BY <1>4, ShareTypes DEF ShareFacts
<1>6. /\ f[c] = Pending(c) /\ Before(c) = Total(f, S, MaxBulk)
      /\ Before(d) = Total(f, Ahead(d), MaxBulk)
  BY <1>1 DEF Before
<1> HIDE DEF f, S, T
<1>7. MaxBulk \in Nat
  BY HalfRange
<1>8. Total(f, T, MaxBulk) = Total(f, S, MaxBulk) + Term(f, T, c) - Term(f, S, c)
  BY <1>3, <1>5, <1>7, TotalChange, SMTT(60)
<1>9. Term(f, T, c) = f[c] /\ Term(f, S, c) = 0
  BY <1>3 DEF Term
<1>10. Total(f, T, MaxBulk) <= Total(f, Ahead(d), MaxBulk)
  BY <1>3, <1>5, <1>7, TotalSubset
<1>11. /\ Total(f, S, MaxBulk) \in Nat /\ Total(f, T, MaxBulk) \in Nat
       /\ Total(f, Ahead(d), MaxBulk) \in Nat
  BY <1>5, <1>7, UnitsFinite
<1>12. f[c] \in Nat
  BY <1>1, <1>6, <1>7, ShareTypes DEF ShareFacts
<1>13. QED
  BY <1>6, <1>8, <1>9, <1>10, <1>11, <1>12

------------------------------------------------------------------------------
(* The steps of the consumers                                              *)

\* c has promised nothing, before and after its step.
LEMMA OutsideStep ==
  ASSUME ShareInv, ShareTyped', NEW c \in Consumers, OnlyCaller(c),
         c \notin Promised, c \notin Promised',
         UNCHANGED <<tailIndex, headIndex, dequeueOptimisticCount, dequeueOvercommit>>,
         cpc'[c] \in {"examine", "promise"} => Read(c)' <= Returned,
         Promises + AllAsked' <= MaxPromised + Cardinality(Consumers) * MaxBulk
  PROVE  ShareInv'
<1> HIDE DEF Numbers
<1> USE DEF ShareInv
<1>1. Filled' = Filled /\ Emptied' = Emptied /\ Promises' = Promises /\ Returned' = Returned
  BY DEF Filled, Emptied, Promises, Returned
<1>2. Room' /\ (Emptied <= Filled)'
  BY <1>1 DEF Room
<1>3. Pending(c) = 0 /\ Pending(c)' = 0
  BY DEF Pending, Promised, PromisedPcs
<1>4. Balance'
  <2>1. AllPending' = AllPending
    BY <1>3, SumsNext, ShareTypes DEF ShareFacts
  <2>2. QED
    BY <1>1, <2>1 DEF Balance
<1>5. Reads'
  BY <1>1, SumsNext DEF Reads, OnlyCaller
<1>6. Turns'
  <2>1. \A d \in Promised' : d \in Promised /\ Mine(d)' = Mine(d)
    BY SumsNext DEF Promised
  <2>2. QED
    BY <1>1, <2>1 DEF Turns
<1>7. Covers'
  <2> SUFFICES ASSUME NEW d \in Consumers PROVE Cover(d)'
    BY DEF Covers
  <2>1. CASE d = c
    BY <2>1 DEF Cover, Promised, PromisedPcs
  <2>2. CASE d # c
    <3>1. c \notin Ahead(d) /\ c \notin Ahead(d)'
      BY DEF Ahead
    <3>2. Before(d)' = Before(d)
      BY <2>2, <3>1, BeforeNext, ShareTypes DEF ShareFacts
    <3>3. cpc'[d] = cpc[d] /\ call'[d] = call[d] /\ Mine(d)' = Mine(d) /\ Read(d)' = Read(d)
      BY <2>2, SumsNext DEF OnlyCaller
    <3>4. Cover(d)
      BY DEF Covers
    <3>5. QED
      BY <1>1, <3>2, <3>3, <3>4 DEF Cover
  <2>3. QED
    BY <2>1, <2>2
<1>8. QED
  BY <1>2, <1>4, <1>5, <1>6, <1>7

LEMMA BeginStep ==
  ASSUME ShareInv, NEW c \in Consumers, NEW max \in 1 .. MaxBulk, BeginDequeue(c, max)
  PROVE  ShareInv'
<1> HIDE DEF Numbers
<1> USE DEF ShareInv
<1>1. /\ cpc[c] = "idle" /\ cpc'[c] = "overcommit"
      /\ call'[c] = [NoCall EXCEPT !.max = max, !.tail = tailIndex]
      /\ UNCHANGED <<tailIndex, headIndex, dequeueOptimisticCount, dequeueOvercommit>>
      /\ DOMAIN cpc' = Consumers /\ DOMAIN call' = Consumers
      /\ Promises < MaxPromised
  BY DEF BeginDequeue, ConsumerGoto, ShareTyped, counters, Promises
<1>2. OnlyCaller(c)
  BY DEF BeginDequeue, ConsumerGoto, ShareTyped, OnlyCaller
<1>3. ShareTyped'
  <2>1. call'[c] \in Calls
    <3>1. 0 \in Index /\ tailIndex \in Index
      BY HalfRange DEF Index, ShareTyped
    <3>2. call'[c] = [max |-> max, tail |-> tailIndex, overcommit |-> 0, desired |-> 0,
                      mine |-> 0, count |-> 0, index |-> 0]
      BY <1>1 DEF NoCall
    <3>3. QED
      BY <3>1, <3>2, HalfRange DEF Calls
  <2>2. \A d \in Unsettled' : call'[d] \in Calls
    BY <1>2, <2>1 DEF ShareTyped, Unsettled, OnlyCaller
  <2>3. QED
    BY <1>1, <1>2, <2>2 DEF ShareTyped, OnlyCaller, PromisedPcs
<1>4. Promises + AllAsked' <= MaxPromised + Cardinality(Consumers) * MaxBulk
  <2>1. AllAsked' <= Cardinality(Consumers) * MaxBulk
    BY <1>3, HalfRange, ShareTypesNext, TotalAtMost DEF ShareFacts, AllAsked
  <2>2. Promises \in Nat /\ AllAsked' \in Nat
    BY <1>3, HalfRange, ShareTypes, ShareTypesNext DEF ShareFacts, Index
  <2>3. Cardinality(Consumers) * MaxBulk \in Nat
    BY HalfRange, FS_CardinalityType
  <2>4. QED
    BY <1>1, <2>1, <2>2, <2>3, HalfRange
<1>5. c \notin Promised /\ c \notin Promised'
  BY <1>1 DEF Promised, PromisedPcs
<1>6. QED
  BY <1>1, <1>2, <1>3, <1>4, <1>5, OutsideStep

LEMMA LoadOvercommitStep ==
  ASSUME ShareInv, NEW c \in Consumers, LoadOvercommit(c)
  PROVE  ShareInv'
<1> HIDE DEF Numbers
<1> USE DEF ShareInv
<1>1. /\ cpc[c] = "overcommit" /\ cpc'[c] = "examine"
      /\ call'[c] = [call[c] EXCEPT !.overcommit = dequeueOvercommit]
      /\ UNCHANGED <<tailIndex, headIndex, dequeueOptimisticCount, dequeueOvercommit>>
      /\ DOMAIN cpc' = Consumers /\ DOMAIN call' = Consumers
  BY DEF LoadOvercommit, ConsumerGoto, ShareTyped, counters
<1>2. OnlyCaller(c)
  BY DEF LoadOvercommit, ConsumerGoto, ShareTyped, OnlyCaller
<1>3. call[c] \in Calls
  BY <1>1 DEF ShareTyped, Unsettled
<1>4. call'[c] \in Calls /\ call'[c].overcommit = dequeueOvercommit /\ call'[c].max = call[c].max
  BY <1>1, <1>3 DEF Calls, ShareTyped
<1>5. ShareTyped'
  <2>1. \A d \in Unsettled' : call'[d] \in Calls
    BY <1>2, <1>4 DEF ShareTyped, Unsettled, OnlyCaller
  <2>2. QED
    BY <1>1, <1>2, <2>1 DEF ShareTyped, OnlyCaller, PromisedPcs
<1>6. Promises + AllAsked' <= MaxPromised + Cardinality(Consumers) * MaxBulk
  <2>1. Asked(c)' = Asked(c)
    BY <1>1, <1>4 DEF Asked, AskingPcs
  <2>2. AllAsked' = AllAsked
    BY <1>2, <1>5, <2>1, SumsNext, ShareTypes, HalfRange DEF ShareFacts
  <2>3. QED
    BY <2>2 DEF Room
<1>7. c \notin Promised /\ c \notin Promised'
  BY <1>1 DEF Promised, PromisedPcs
<1>8. Read(c)' <= Returned
  <2>1. Read(c)' = Returned /\ Returned \in Int
    BY <1>4, ShareTypes DEF Read, Returned, ShareFacts, Index
  <2>2. QED
    BY <2>1
<1>9. QED
  BY <1>1, <1>2, <1>5, <1>6, <1>7, <1>8, OutsideStep

LEMMA ExamineStep ==
  ASSUME ShareInv, NEW c \in Consumers, Examine(c)
  PROVE  ShareInv'
<1> HIDE DEF Numbers
<1> USE DEF ShareInv
<1> DEFINE left == Minus(call[c].tail, Minus(dequeueOptimisticCount, call[c].overcommit))
<1>1. /\ cpc[c] = "examine"
      /\ UNCHANGED <<tailIndex, headIndex, dequeueOptimisticCount, dequeueOvercommit>>
      /\ DOMAIN cpc' = Consumers /\ DOMAIN call' = Consumers
      /\ \/ /\ Less(0, left) /\ cpc'[c] = "promise"
            /\ call'[c] = [call[c] EXCEPT !.desired = Least(left, call[c].max)]
         \/ cpc'[c] = "idle"
  BY DEF Examine, ReturnFrom, ConsumerGoto, ShareTyped, counters
<1>2. OnlyCaller(c)
  BY DEF Examine, ReturnFrom, ConsumerGoto, ShareTyped, OnlyCaller
<1>3. call[c] \in Calls /\ left \in Index
  <2>1. call[c] \in Calls
    BY <1>1 DEF ShareTyped, Unsettled
  <2>2. call[c].tail \in Index /\ call[c].overcommit \in Index /\ dequeueOptimisticCount \in Index
    BY <2>1 DEF Calls, ShareTyped
  <2>3. QED
    BY <2>1, <2>2, MinusValue
<1>4. cpc'[c] = "promise" =>
        /\ call'[c] \in Calls /\ call'[c].desired \in 1 .. call'[c].max
        /\ call'[c].max = call[c].max /\ Read(c)' = Read(c)
  <2> SUFFICES ASSUME cpc'[c] = "promise"
               PROVE  /\ call'[c] \in Calls /\ call'[c].desired \in 1 .. call'[c].max
                      /\ call'[c].max = call[c].max /\ Read(c)' = Read(c)
    OBVIOUS
  <2>1. Less(0, left) /\ call'[c] = [call[c] EXCEPT !.desired = Least(left, call[c].max)]
    BY <1>1
  <2>2. left \in Nat /\ left # 0
    BY <1>3, <2>1, LessValue, HalfRange DEF Index
  <2>3. call[c].max \in 1 .. MaxBulk
    BY <1>3 DEF Calls
  <2>4. Least(left, call[c].max) \in 1 .. call[c].max
    BY <2>2, <2>3, HalfRange DEF Least
  <2>5. Least(left, call[c].max) \in 0 .. MaxBulk
    BY <2>3, <2>4, HalfRange
  <2> HIDE DEF left
  <2>6. call'[c] \in Calls /\ call'[c].desired \in 1 .. call'[c].max /\ call'[c].max = call[c].max
        /\ call'[c].overcommit = call[c].overcommit
    BY <1>3, <2>1, <2>4, <2>5 DEF Calls
  <2>7. QED
    BY <2>6 DEF Read
<1>5. ShareTyped'
  <2>1. \A d \in Unsettled' : call'[d] \in Calls
    BY <1>1, <1>2, <1>4 DEF ShareTyped, Unsettled, OnlyCaller
  <2>2. QED
    BY <1>1, <1>2, <1>4, <2>1 DEF ShareTyped, OnlyCaller, PromisedPcs
<1>6. Promises + AllAsked' <= MaxPromised + Cardinality(Consumers) * MaxBulk
  <2>1. Asked(c)' <= Asked(c)
    <3>1. call[c].max \in Nat
      BY <1>3, HalfRange DEF Calls
    <3>2. QED
      BY <1>1, <1>4, <3>1 DEF Asked, AskingPcs
  <2>2. AllAsked' <= AllAsked
    BY <1>2, <1>5, <2>1, SumsNext, ShareTypes, ShareTypesNext, HalfRange DEF ShareFacts
  <2>3. Promises \in Nat /\ AllAsked \in Nat /\ AllAsked' \in Nat
    BY <1>5, HalfRange, ShareTypes, ShareTypesNext DEF ShareFacts, Index
  <2>4. Cardinality(Consumers) * MaxBulk \in Nat
    BY HalfRange, FS_CardinalityType
  <2>5. QED
    BY <2>2, <2>3, <2>4, HalfRange DEF Room
<1>7. c \notin Promised /\ c \notin Promised'
  BY <1>1 DEF Promised, PromisedPcs
<1>8. cpc'[c] \in {"examine", "promise"} => Read(c)' <= Returned
  BY <1>1, <1>4 DEF Reads
<1>9. QED
  BY <1>1, <1>2, <1>5, <1>6, <1>7, <1>8, OutsideStep

LEMMA PromiseStep ==
  ASSUME WindowsFit, ShareInv, NEW c \in Consumers, Promise(c)
  PROVE  ShareInv'
<1> HIDE DEF Numbers
<1> USE DEF ShareInv
<1> DEFINE n == call[c].desired
<1>1. /\ cpc[c] = "promise" /\ cpc'[c] = "reload"
      /\ call'[c] = [call[c] EXCEPT !.mine = dequeueOptimisticCount]
      /\ dequeueOptimisticCount' = Plus(dequeueOptimisticCount, n)
      /\ UNCHANGED <<tailIndex, headIndex, dequeueOvercommit>>
      /\ DOMAIN cpc' = Consumers /\ DOMAIN call' = Consumers
  BY DEF Promise, ConsumerGoto, ShareTyped
<1>2. OnlyCaller(c)
  BY DEF Promise, ConsumerGoto, ShareTyped, OnlyCaller
<1>3. call[c] \in Calls /\ dequeueOptimisticCount \in Index /\ n \in 1 .. call[c].max
  BY <1>1 DEF ShareTyped, Unsettled
<1>4. call[c].max \in 1 .. MaxBulk /\ n \in 1 .. MaxBulk
  <2>1. call[c].max \in 1 .. MaxBulk
    BY <1>3 DEF Calls
  <2>2. QED
    BY <1>3, <2>1, HalfRange
<1>5. call'[c] \in Calls /\ call'[c].mine = dequeueOptimisticCount /\ call'[c].desired = n
      /\ call'[c].overcommit = call[c].overcommit
  BY <1>1, <1>3 DEF Calls
<1> HIDE DEF n
<1>6. Promises + n <= Numbers \div 2 /\ Promises \in Nat
  <2>1. Asked(c) = call[c].max
    BY <1>1 DEF Asked, AskingPcs
  <2>2. Asked(c) <= AllAsked
    <3> DEFINE f == [d \in Consumers |-> Asked(d)]
    <3>1. Summable(f, Consumers, MaxBulk) /\ f[c] = Asked(c)
      BY ShareTypes DEF ShareFacts
    <3> HIDE DEF f
    <3>2. f[c] <= Total(f, Consumers, MaxBulk)
      BY <3>1, HalfRange, TotalTerm
    <3>3. QED
      BY <3>1, <3>2 DEF AllAsked, f
  <2>3. Promises \in Nat /\ AllAsked \in Nat
    BY ShareTypes, HalfRange DEF ShareFacts, Index
  <2>4. Cardinality(Consumers) * MaxBulk \in Nat
    BY HalfRange, FS_CardinalityType
  <2>5. QED
    BY <1>3, <1>4, <2>1, <2>2, <2>3, <2>4, HalfRange DEF Room, WindowsFit
<1>7. dequeueOptimisticCount' \in Index /\ Promises' = Promises + n
  <2>1. Plus(StartIndex, StartOvercommit) \in Index
    BY HalfRange, PlusValue
  <2>2. Promises + n < Numbers
    BY <1>4, <1>6, HalfRange
  <2>3. n \in Nat
    BY <1>4, HalfRange
  <2>4. QED
    BY <1>1, <1>3, <2>1, <2>2, <2>3, Advanced DEF Promises
<1>8. ShareTyped'
  <2>1. \A d \in Unsettled' : call'[d] \in Calls
    BY <1>2, <1>5 DEF ShareTyped, Unsettled, OnlyCaller
  <2>2. call'[c].desired # 0 /\ call'[c].desired <= call'[c].max
    <3>1. call'[c].max = call[c].max
      BY <1>1, <1>3 DEF Calls
    <3>2. QED
      BY <1>3, <1>4, <1>5, <3>1, HalfRange
  <2>3. QED
    BY <1>1, <1>2, <1>5, <1>7, <2>1, <2>2 DEF ShareTyped, OnlyCaller, PromisedPcs
<1>9. Filled' = Filled /\ Emptied' = Emptied /\ Returned' = Returned
  BY <1>1 DEF Filled, Emptied, Returned
<1>10. Mine(c)' = Promises /\ Read(c)' = Read(c)
  BY <1>5 DEF Mine, Promises, Read
<1>11. Pending(c) = 0 /\ Pending(c)' = n /\ Asked(c) = call[c].max /\ Asked(c)' = 0
  BY <1>1, <1>5 DEF Pending, Asked, AskingPcs
<1>12. AllPending' = AllPending + n /\ AllAsked' = AllAsked - call[c].max
  <2>1. call[c].max \in Nat /\ n \in Nat
    BY <1>4, HalfRange
  <2>2. QED
    BY <1>2, <1>8, <1>11, <2>1, SumsNext, ShareTypes DEF ShareFacts
<1>13. Room' /\ (Emptied <= Filled)'
  <2>1. PICK k \in Nat : k = MaxPromised + Cardinality(Consumers) * MaxBulk
    BY HalfRange, FS_CardinalityType
  <2>2. Promises + AllAsked <= k
    BY <2>1 DEF Room
  <2>3. AllAsked \in Nat /\ n \in Nat /\ call[c].max \in Nat /\ n <= call[c].max
    BY <1>3, <1>4, HalfRange, ShareTypes DEF ShareFacts
  <2>4. Promises' + AllAsked' <= k
    BY <1>6, <1>7, <1>12, <2>2, <2>3
  <2>5. QED
    BY <1>9, <2>1, <2>4 DEF Room
<1>14. Balance'
  <2>1. Returned \in Nat /\ Emptied \in Nat /\ AllPending \in Nat /\ n \in Nat
    BY <1>4, HalfRange, ShareTypes DEF ShareFacts, Index
  <2>2. QED
    BY <1>6, <1>7, <1>9, <1>12, <2>1 DEF Balance
<1>15. Reads'
  BY <1>1, <1>2, <1>8, <1>9, SumsNext DEF Reads, OnlyCaller
<1>16. \A d \in Promised : Mine(d) \in Int /\ Mine(d) < Promises /\ d # c
  BY <1>1, ShareTypes DEF Turns, ShareFacts, Promised, PromisedPcs, Unsettled, Index
<1>17. \A d \in Promised' : d = c \/ (d \in Promised /\ Mine(d)' = Mine(d))
  BY <1>2, <1>8, SumsNext DEF Promised
<1>18. Turns'
  <2>1. \A d \in Promised' : Mine(d)' < Promises'
    <3>1. n \in Nat /\ n # 0
      BY <1>4, HalfRange
    <3>2. QED
      BY <1>6, <1>7, <1>10, <1>16, <1>17, <3>1
  <2>2. \A d \in Promised' : \A e \in Promised' \ {d} : Mine(e)' # Mine(d)'
    BY <1>6, <1>10, <1>16, <1>17 DEF Turns
  <2>3. QED
    BY <2>1, <2>2 DEF Turns
<1>19. Covers'
  <2> SUFFICES ASSUME NEW d \in Consumers PROVE Cover(d)'
    BY DEF Covers
  <2>1. CASE d = c
    <3> DEFINE f == [e \in Consumers |-> Pending(e)]
               g == [e \in Consumers |-> Pending(e)']
    <3>1. Before(c)' <= AllPending
      <4>1. Ahead(c)' \in SUBSET Consumers /\ c \notin Ahead(c)'
        <5>1. ~(Mine(c)' < Mine(c)')
          BY <1>6, <1>10
        <5>2. QED
          BY <1>8, <5>1, ShareTypesNext DEF ShareFacts, Ahead
      <4>2. \A e \in Ahead(c)' : f[e] = g[e]
        BY <1>2, <1>8, <4>1, SumsNext
      <4>3. Before(c)' = Total(g, Ahead(c)', MaxBulk) /\ AllPending = Total(f, Consumers, MaxBulk)
        BY DEF Before, AllPending
      <4>4. Summable(f, Consumers, MaxBulk)
        BY ShareTypes DEF ShareFacts
      <4> HIDE DEF f, g
      <4>5. Total(g, Ahead(c)', MaxBulk) = Total(f, Ahead(c)', MaxBulk)
        <5>1. Units(g, Ahead(c)', MaxBulk) = Units(f, Ahead(c)', MaxBulk)
          BY <4>2 DEF Units
        <5>2. QED
          BY <5>1 DEF Total
      <4>6. Total(f, Ahead(c)', MaxBulk) <= Total(f, Consumers, MaxBulk)
        BY <4>1, <4>4, HalfRange, TotalSubset
      <4>7. QED
        BY <4>3, <4>5, <4>6
    <3>2. Read(c) <= Returned
      BY <1>1 DEF Reads
    <3>3. /\ Read(c) \in Int /\ Returned \in Int /\ Emptied \in Int /\ AllPending \in Int
          /\ Before(c)' \in Int
      <4>1. c \in Unsettled
        BY <1>1 DEF Unsettled
      <4>2. QED
        BY <1>8, <4>1, ShareTypes, ShareTypesNext DEF ShareFacts, Index
    <3>4. Emptied' + Before(c)' <= Mine(c)' - Read(c)'
      BY <1>6, <1>9, <1>10, <3>1, <3>2, <3>3 DEF Balance
    <3>5. QED
      BY <1>1, <2>1, <3>4 DEF Cover
  <2>2. CASE d # c
    <3>1. cpc'[d] = cpc[d] /\ call'[d] = call[d] /\ Mine(d)' = Mine(d) /\ Read(d)' = Read(d)
      BY <1>2, <1>8, <2>2, SumsNext DEF OnlyCaller
    <3>2. CASE d \in Promised
      <4>1. Mine(d) \in Int /\ Mine(d) < Promises
        BY <1>16, <3>2
      <4>2. c \notin Ahead(d)'
        BY <1>6, <1>10, <3>1, <4>1 DEF Ahead
      <4>3. c \notin Ahead(d)
        BY <1>1 DEF Ahead, Promised, PromisedPcs
      <4>4. Before(d)' = Before(d)
        BY <1>2, <1>8, <2>2, <4>2, <4>3, BeforeNext, ShareTypes DEF ShareFacts
      <4>5. Cover(d)
        BY DEF Covers
      <4>6. QED
        BY <1>9, <3>1, <4>4, <4>5 DEF Cover
    <3>3. CASE d \notin Promised
      BY <3>1, <3>3 DEF Cover, Promised, PromisedPcs
    <3>4. QED
      BY <3>2, <3>3
  <2>3. QED
    BY <2>1, <2>2
<1>20. QED
  BY <1>8, <1>13, <1>14, <1>15, <1>18, <1>19

\* What a consumer that still looks at the tail sees of its promise.
LEMMA ActualValue ==
  ASSUME WindowsFit, ShareInv, NEW c \in Consumers, cpc[c] = "reload",
         Emptied + Before(c) <= Mine(c) - Read(c),
         NEW actual, actual = Minus(tailIndex, Minus(call[c].mine, call[c].overcommit))
  PROVE  /\ actual \in Index
         /\ Less(0, actual) <=> Mine(c) - Read(c) < Filled
         /\ Less(0, actual) => actual = Filled - (Mine(c) - Read(c))
<1> HIDE DEF Numbers
<1> USE DEF ShareInv
<1> DEFINE x == Mine(c) - Read(c)
           y == Minus(call[c].mine, call[c].overcommit)
<1>1. c \in Unsettled /\ c \in Promised
  BY DEF Unsettled, Promised, PromisedPcs
<1>2. call[c].mine \in Index /\ call[c].overcommit \in Index /\ tailIndex \in Index
  BY <1>1 DEF ShareTyped, Calls
<1>3. Mine(c) \in Nat /\ Read(c) \in Nat /\ Filled \in Nat /\ Emptied \in Nat /\ Before(c) \in Nat
  BY <1>1, ShareTypes, HalfRange DEF ShareFacts, Index
<1>4. x \in Nat /\ x < Numbers \div 2
  <2>1. Mine(c) < Promises
    BY <1>1 DEF Turns
  <2>2. Promises \in Nat /\ AllAsked \in Nat /\ Cardinality(Consumers) * MaxBulk \in Nat
    BY ShareTypes, HalfRange, FS_CardinalityType DEF ShareFacts, Index
  <2>3. Promises <= Numbers \div 2
    BY <2>2, HalfRange DEF Room, WindowsFit
  <2>4. QED
    BY <1>3, <2>1, <2>2, <2>3, HalfRange
<1>5. y = Plus(StartIndex, x) /\ y \in Index
  <2>1. Read(c) <= Mine(c)
    BY <1>3, <1>4
  <2>2. y = Plus(StartIndex, x)
    BY <1>2, <2>1, HalfRange, Unwrapped DEF Mine, Read
  <2>3. QED
    BY <1>2, <2>2, MinusValue
<1>6. Minus(y, StartIndex) = x
  <2>1. Minus(StartIndex, StartIndex) = 0 /\ 0 + x < Numbers
    <3>1. Minus(StartIndex, StartIndex) = IF StartIndex >= StartIndex THEN StartIndex - StartIndex
                                          ELSE StartIndex - StartIndex + Numbers
      BY HalfRange, MinusValue
    <3>2. StartIndex \in Int
      BY HalfRange DEF Index
    <3>3. x < Numbers
      BY <1>4, HalfRange
    <3> HIDE DEF x
    <3>4. QED
      BY <1>4, <3>1, <3>2, <3>3
  <2>2. QED
    BY <1>4, <1>5, <2>1, HalfRange, Advanced
<1>7. actual \in Index /\ actual = IF Filled >= x THEN Filled - x ELSE Filled - x + Numbers
  <2>1. actual = Minus(tailIndex, y)
    OBVIOUS
  <2> HIDE DEF x, y
  <2>2. Minus(tailIndex, y) \in Index
    BY <1>2, <1>5, MinusValue
  <2>3. Minus(tailIndex, y) =
          IF Minus(tailIndex, StartIndex) >= Minus(y, StartIndex)
          THEN Minus(tailIndex, StartIndex) - Minus(y, StartIndex)
          ELSE Minus(tailIndex, StartIndex) - Minus(y, StartIndex) + Numbers
    BY <1>2, <1>5, HalfRange, SameStart
  <2>4. QED
    BY <1>6, <2>1, <2>2, <2>3 DEF Filled
<1>8. Filled < Numbers \div 2
  BY <1>3, HalfRange DEF Room, WindowsFit
<1>9. Less(0, actual) <=> actual \in 1 .. (Numbers \div 2) - 1
  BY <1>7, LessValue
<1> HIDE DEF x, y
<1>10. /\ Less(0, actual) <=> x < Filled
       /\ Less(0, actual) => actual = Filled - x
  BY <1>3, <1>4, <1>7, <1>8, <1>9, HalfRange DEF Index
<1>11. QED
  BY <1>7, <1>10 DEF x

\* c has made its promise and keeps it, at another place of its call.
LEMMA ReloadStep ==
  ASSUME WindowsFit, ShareInv, NEW c \in Consumers, Reload(c)
  PROVE  ShareInv'
<1> HIDE DEF Numbers
<1> USE DEF ShareInv
<1>1. PICK actual, n :
        /\ actual = Minus(tailIndex, Minus(call[c].mine, call[c].overcommit))
        /\ n = IF Less(0, actual) THEN Least(actual, call[c].desired) ELSE 0
        /\ cpc[c] = "reload"
        /\ cpc'[c] = IF n < call[c].desired THEN "giveBack" ELSE "claim"
        /\ call'[c] = [call[c] EXCEPT !.tail = tailIndex, !.count = n]
        /\ UNCHANGED <<tailIndex, headIndex, dequeueOptimisticCount, dequeueOvercommit>>
        /\ DOMAIN cpc' = Consumers /\ DOMAIN call' = Consumers
  BY DEF Reload, ConsumerGoto, ShareTyped, counters
<1>2. OnlyCaller(c)
  BY DEF Reload, ConsumerGoto, ShareTyped, OnlyCaller
<1>3. /\ call[c] \in Calls /\ c \in Unsettled /\ tailIndex \in Index
      /\ call[c].desired \in 1 .. MaxBulk /\ actual \in Index
  <2>1. call[c] \in Calls /\ c \in Unsettled /\ tailIndex \in Index /\ call[c].desired # 0
    BY <1>1 DEF ShareTyped, Unsettled, PromisedPcs
  <2>2. call[c].desired \in 0 .. MaxBulk /\ call[c].mine \in Index /\ call[c].overcommit \in Index
    BY <2>1 DEF Calls
  <2>3. QED
    BY <1>1, <2>1, <2>2, MinusValue, HalfRange
<1>4. /\ n \in 0 .. call[c].desired
      /\ n \in 0 .. MaxBulk
      /\ n # 0 => Less(0, actual) /\ n <= actual
  <2>1. Less(0, actual) => actual \in Nat /\ actual # 0
    BY <1>3, LessValue, HalfRange
  <2>2. QED
    BY <1>1, <1>3, <2>1, HalfRange DEF Least
<1>5. /\ call'[c] \in Calls /\ call'[c].count = n /\ call'[c].desired = call[c].desired
      /\ call'[c].mine = call[c].mine /\ call'[c].overcommit = call[c].overcommit
  BY <1>1, <1>3, <1>4 DEF Calls
<1>6. cpc'[c] = "giveBack" \/ (cpc'[c] = "claim" /\ n = call[c].desired)
  <2>1. call[c].desired \in Nat /\ n \in Nat /\ n <= call[c].desired
    BY <1>3, <1>4, HalfRange
  <2>2. ~(n < call[c].desired) => n = call[c].desired
    BY <2>1
  <2>3. QED
    BY <1>1, <2>2
<1>7. ShareTyped'
  <2>1. \A d \in Unsettled' : call'[d] \in Calls
    BY <1>2, <1>5 DEF ShareTyped, Unsettled, OnlyCaller
  <2>2. /\ cpc'[c] = "giveBack" => call'[c].count < call'[c].desired
        /\ cpc'[c] = "claim" => call'[c].count \in 1 .. call'[c].desired
        /\ call'[c].desired # 0 /\ call'[c].desired <= call'[c].max
    <3>1. call'[c].max = call[c].max /\ call[c].desired <= call[c].max
      BY <1>1, <1>3 DEF Calls, ShareTyped, PromisedPcs
    <3>2. QED
      BY <1>1, <1>3, <1>4, <1>5, <3>1, HalfRange
  <2>3. QED
    BY <1>1, <1>2, <1>6, <2>1, <2>2 DEF ShareTyped, OnlyCaller, PromisedPcs
<1>8. /\ Filled' = Filled /\ Emptied' = Emptied /\ Promises' = Promises /\ Returned' = Returned
      /\ Mine(c)' = Mine(c) /\ Read(c)' = Read(c)
  BY <1>1, <1>5 DEF Filled, Emptied, Promises, Returned, Mine, Read
<1>9. Pending(c)' = Pending(c) /\ Asked(c)' = Asked(c)
  BY <1>1, <1>5, <1>6 DEF Pending, Asked, AskingPcs
<1>10. AllPending' = AllPending /\ AllAsked' = AllAsked
  BY <1>2, <1>7, <1>9, HalfRange, SumsNext, ShareTypes DEF ShareFacts
<1>11. c \in Promised /\ c \in Promised'
  BY <1>1, <1>6 DEF Promised, PromisedPcs
<1>12. Promised' = Promised /\ \A d \in Promised : Mine(d)' = Mine(d)
  <2>1. \A d \in Consumers : d \in Promised' <=> d \in Promised
    BY <1>2, <1>7, <1>11, SumsNext
  <2>2. QED
    BY <1>2, <1>7, <1>8, <2>1, SumsNext DEF Promised
<1>13. Room' /\ (Emptied <= Filled)' /\ Balance' /\ Turns'
  BY <1>8, <1>10, <1>12 DEF Room, Balance, Turns
<1>14. Reads'
  BY <1>2, <1>6, <1>7, <1>8, SumsNext DEF Reads, OnlyCaller
<1>15. \A d \in Consumers : Before(d)' = Before(d)
  <2> TAKE d \in Consumers
  <2>1. Ahead(d)' = Ahead(d)
    <3>1. Mine(d)' = Mine(d)
      BY <1>2, <1>7, <1>8, SumsNext
    <3>2. QED
      BY <1>12, <3>1 DEF Ahead
  <2>2. [e \in Consumers |-> Pending(e)]' = [e \in Consumers |-> Pending(e)]
    BY <1>2, <1>7, <1>9, SumsNext
  <2>3. QED
    BY <2>1, <2>2 DEF Before
<1>16. Cover(c)'
  <2>1. Emptied + Before(c) + n <= Filled \/ n = 0
    <3> SUFFICES ASSUME n # 0 PROVE Emptied + Before(c) + n <= Filled
      OBVIOUS
    <3>1. /\ Mine(c) \in Int /\ Read(c) \in Int /\ Filled \in Int /\ Emptied \in Int
          /\ Before(c) \in Int /\ n \in Int /\ actual \in Int /\ call[c].desired \in Int
      BY <1>3, <1>4, HalfRange, ShareTypes DEF ShareFacts, Index
    <3>2. CASE Emptied + Before(c) <= Mine(c) - Read(c)
      <4>1. actual = Filled - (Mine(c) - Read(c))
        BY <1>1, <1>4, <3>2, ActualValue
      <4>2. n <= actual
        BY <1>4
      <4>3. QED
        BY <3>1, <3>2, <4>1, <4>2
    <3>3. CASE Emptied + Before(c) + call[c].desired <= Filled
      <4>1. n <= call[c].desired
        BY <1>4, <3>1
      <4>2. QED
        BY <3>1, <3>3, <4>1
    <3>4. QED
      BY <1>1, <3>2, <3>3 DEF Covers, Cover
  <2>2. QED
    BY <1>5, <1>6, <1>8, <1>15, <2>1 DEF Cover
<1>17. Covers'
  <2> SUFFICES ASSUME NEW d \in Consumers \ {c} PROVE Cover(d)'
    BY <1>16 DEF Covers
  <2>1. cpc'[d] = cpc[d] /\ call'[d] = call[d] /\ Mine(d)' = Mine(d) /\ Read(d)' = Read(d)
    BY <1>2, <1>7, SumsNext DEF OnlyCaller
  <2>2. Cover(d)
    BY DEF Covers
  <2>3. QED
    BY <1>8, <1>15, <2>1, <2>2 DEF Cover
<1>18. QED
  BY <1>7, <1>13, <1>14, <1>17

\* What is before c itself does not change while it keeps its promise.
LEMMA BeforeSelf ==
  ASSUME ShareTyped, ShareTyped', NEW c \in Promised, OnlyCaller(c), Mine(c)' = Mine(c)
  PROVE  Before(c)' = Before(c)
<1>1. c \in Consumers /\ Mine(c) \in Int
  BY ShareTypes DEF ShareFacts, Promised, PromisedPcs, Unsettled, Index
<1>2. c \notin Ahead(c) /\ c \notin Ahead(c)'
  BY <1>1 DEF Ahead
<1>3. Ahead(c)' = Ahead(c)
  <2>1. \A d \in Consumers \ {c} : d \in Ahead(c)' <=> d \in Ahead(c)
    BY <1>1, SumsNext DEF Ahead
  <2>2. Ahead(c) \in SUBSET Consumers /\ Ahead(c)' \in SUBSET Consumers
    BY <1>1, ShareTypes, ShareTypesNext DEF ShareFacts
  <2>3. QED
    BY <1>2, <2>1, <2>2
<1> DEFINE f == [d \in Consumers |-> Pending(d)]
           g == [d \in Consumers |-> Pending(d)']
<1>4. \A d \in Ahead(c) : g[d] = f[d]
  <2>1. \A d \in Ahead(c) : d \in Consumers \ {c}
    BY <1>2 DEF Ahead, Promised
  <2>2. QED
    BY <1>1, <2>1, SumsNext
<1>5. Before(c)' = Total(g, Ahead(c), MaxBulk) /\ Before(c) = Total(f, Ahead(c), MaxBulk)
  BY <1>3 DEF Before
<1> HIDE DEF f, g
<1>6. Units(g, Ahead(c), MaxBulk) = Units(f, Ahead(c), MaxBulk)
  BY <1>4 DEF Units
<1>7. QED
  BY <1>5, <1>6 DEF Total

LEMMA GiveBackStep ==
  ASSUME WindowsFit, ShareInv, NEW c \in Consumers, GiveBack(c)
  PROVE  ShareInv'
<1> HIDE DEF Numbers
<1> USE DEF ShareInv
<1> DEFINE n == call[c].count
           k == call[c].desired - call[c].count
<1>1. /\ cpc[c] = "giveBack"
      /\ dequeueOvercommit' = Plus(dequeueOvercommit, k)
      /\ cpc'[c] = IF n = 0 THEN "idle" ELSE "claim"
      /\ n # 0 => call'[c] = call[c]
      /\ UNCHANGED <<tailIndex, headIndex, dequeueOptimisticCount>>
      /\ DOMAIN cpc' = Consumers /\ DOMAIN call' = Consumers
  BY DEF GiveBack, ReturnFrom, ConsumerGoto, ShareTyped
<1>2. OnlyCaller(c)
  BY DEF GiveBack, ReturnFrom, ConsumerGoto, ShareTyped, OnlyCaller
<1>3. c \in Promised /\ c \in Unsettled /\ call[c] \in Calls /\ dequeueOvercommit \in Index
  BY <1>1 DEF Promised, PromisedPcs, ShareTyped, Unsettled
<1>4. /\ call[c].desired \in Nat /\ n \in Nat /\ n < call[c].desired
      /\ k \in Nat /\ n + k = call[c].desired
  <2>1. call[c].desired \in 0 .. MaxBulk /\ n \in 0 .. MaxBulk /\ n < call[c].desired
    BY <1>1, <1>3 DEF Calls, ShareTyped
  <2>2. QED
    BY <2>1, HalfRange
<1> HIDE DEF k
<1>5. Pending(c) = n + k /\ Asked(c) = 0 /\ Asked(c)' = 0 /\ Pending(c)' = n
  BY <1>1, <1>4 DEF Pending, Asked, AskingPcs
<1>6. Returned + k <= Promises /\ Returned \in Nat /\ Promises \in Index
  <2>1. Pending(c) <= AllPending
    <3> DEFINE f == [d \in Consumers |-> Pending(d)]
    <3>1. Summable(f, Consumers, MaxBulk) /\ f[c] = Pending(c)
      BY ShareTypes DEF ShareFacts
    <3> HIDE DEF f
    <3>2. f[c] <= Total(f, Consumers, MaxBulk)
      BY <3>1, HalfRange, TotalTerm
    <3>3. QED
      BY <3>1, <3>2 DEF AllPending, f
  <2>2. Returned \in Nat /\ Emptied \in Nat /\ AllPending \in Nat /\ Promises \in Index
    BY HalfRange, ShareTypes DEF ShareFacts, Index
  <2>3. QED
    BY <1>4, <1>5, <2>1, <2>2 DEF Balance
<1>7. dequeueOvercommit' \in Index /\ Returned' = Returned + k
  <2>1. Returned + k < Numbers
    BY <1>4, <1>6, HalfRange DEF Index
  <2>2. QED
    BY <1>1, <1>3, <1>4, <2>1, HalfRange, Advanced DEF Returned
<1>8. ShareTyped'
  <2>1. \A d \in Unsettled' : call'[d] \in Calls
    BY <1>1, <1>2, <1>3 DEF ShareTyped, Unsettled, OnlyCaller
  <2>2. n # 0 => n \in 1 .. call[c].desired
    BY <1>4
  <2>3. n # 0 => /\ call'[c].count \in 1 .. call'[c].desired /\ call'[c].desired # 0
                 /\ call'[c].desired <= call'[c].max
    <3>1. call[c].desired <= call[c].max
      BY <1>1 DEF ShareTyped, PromisedPcs
    <3>2. QED
      BY <1>1, <1>4, <2>2, <3>1
  <2>4. QED
    BY <1>1, <1>2, <1>7, <2>1, <2>3 DEF ShareTyped, OnlyCaller, PromisedPcs
<1>9. Filled' = Filled /\ Emptied' = Emptied /\ Promises' = Promises
  BY <1>1 DEF Filled, Emptied, Promises
<1>10. AllPending' = AllPending - k /\ AllAsked' = AllAsked
  BY <1>2, <1>4, <1>5, <1>8, SumsNext, ShareTypes DEF ShareFacts
<1>11. Room' /\ (Emptied <= Filled)'
  BY <1>9, <1>10 DEF Room
<1>12. Balance'
  <2>1. Emptied \in Nat /\ AllPending \in Nat /\ Promises \in Nat
    BY HalfRange, ShareTypes DEF ShareFacts, Index
  <2>2. QED
    BY <1>4, <1>6, <1>7, <1>9, <1>10, <2>1 DEF Balance
<1>13. Reads'
  <2> SUFFICES ASSUME NEW d \in Consumers, cpc'[d] \in {"examine", "promise"}
               PROVE  Read(d)' <= Returned'
    BY DEF Reads
  <2>1. d # c
    BY <1>1
  <2>2. cpc[d] = cpc'[d] /\ Read(d)' = Read(d)
    BY <1>2, <1>8, <2>1, SumsNext DEF OnlyCaller
  <2>3. Read(d) <= Returned /\ d \in Unsettled
    BY <2>2 DEF Reads, Unsettled
  <2>4. Read(d) \in Nat
    BY <2>3, HalfRange, ShareTypes DEF ShareFacts, Index
  <2>5. QED
    BY <1>4, <1>6, <1>7, <2>2, <2>3, <2>4
<1>14. \A d \in Promised' : d \in Promised /\ Mine(d)' = Mine(d)
  <2>1. \A d \in Promised' : d # c => d \in Promised /\ Mine(d)' = Mine(d)
    BY <1>2, <1>8, SumsNext DEF Promised
  <2>2. c \in Promised' => Mine(c)' = Mine(c)
    BY <1>1 DEF Promised, PromisedPcs, Mine
  <2>3. QED
    BY <1>3, <2>1, <2>2
<1>15. Turns'
  BY <1>9, <1>14 DEF Turns
<1>16. Covers'
  <2> SUFFICES ASSUME NEW d \in Consumers PROVE Cover(d)'
    BY DEF Covers
  <2>1. CASE d = c
    <3> SUFFICES ASSUME n # 0 PROVE Cover(c)'
      BY <1>1, <2>1 DEF Cover
    <3>1. Mine(c)' = Mine(c)
      BY <1>1 DEF Mine
    <3>2. Before(c)' = Before(c)
      BY <1>2, <1>3, <1>8, <3>1, BeforeSelf
    <3>3. Cover(c)
      BY DEF Covers
    <3>4. QED
      BY <1>1, <1>9, <3>2, <3>3 DEF Cover
  <2>2. CASE d # c
    <3>1. cpc'[d] = cpc[d] /\ call'[d] = call[d] /\ Mine(d)' = Mine(d) /\ Read(d)' = Read(d)
      BY <1>2, <1>8, <2>2, SumsNext DEF OnlyCaller
    <3>2. CASE d \in Promised
      <4>1. Before(d)' = Before(d) + (IF c \in Ahead(d)' THEN Pending(c)' ELSE 0)
                                   - (IF c \in Ahead(d) THEN Pending(c) ELSE 0)
        BY <1>2, <1>8, <2>2, BeforeNext
      <4>2. c \in Ahead(d)' => c \in Ahead(d)
        BY <1>14, <3>1 DEF Ahead
      <4>3. PICK b \in Nat, e \in Nat : b = Before(d) /\ e = Before(d)'
        BY <1>8, ShareTypes, ShareTypesNext DEF ShareFacts
      <4>4. Before(d)' <= Before(d)
        BY <1>4, <1>5, <4>1, <4>2, <4>3
      <4>5. Cover(d)
        BY DEF Covers
      <4>6. /\ Mine(d) \in Int /\ Read(d) \in Int /\ Emptied \in Int /\ Filled \in Int
            /\ call[d].desired \in Int /\ call[d].count \in Int
            /\ Before(d) \in Int
        <5>1. d \in Unsettled
          BY <3>2 DEF Promised, PromisedPcs, Unsettled
        <5>2. call[d] \in Calls
          BY <5>1 DEF ShareTyped
        <5>3. QED
          BY <5>1, <5>2, HalfRange, ShareTypes DEF ShareFacts, Index, Calls
      <4>7. PICK z \in Int : z = Before(d)' /\ z <= Before(d)
        BY <4>3, <4>4
      <4>8. /\ cpc[d] = "reload" =>
                 \/ Emptied + z <= Mine(d) - Read(d)
                 \/ Emptied + z + call[d].desired <= Filled
            /\ cpc[d] \in {"giveBack", "claim"} /\ call[d].count # 0 =>
                 Emptied + z + call[d].count <= Filled
        <5> HIDE DEF n
        <5>1. z <= Before(d)
          BY <4>7
        <5>2. QED
          BY <4>5, <4>6, <5>1 DEF Cover
      <4>9. QED
        BY <1>9, <3>1, <4>7, <4>8 DEF Cover
    <3>3. CASE d \notin Promised
      BY <3>1, <3>3 DEF Cover, Promised, PromisedPcs
    <3>4. QED
      BY <3>2, <3>3
  <2>3. QED
    BY <2>1, <2>2
<1>17. QED
  BY <1>8, <1>11, <1>12, <1>13, <1>15, <1>16

LEMMA ClaimStep ==
  ASSUME WindowsFit, ShareInv, NEW c \in Consumers, Claim(c)
  PROVE  ShareInv'
<1> HIDE DEF Numbers
<1> USE DEF ShareInv
<1> DEFINE n == call[c].count
<1>1. /\ cpc[c] = "claim" /\ cpc'[c] = "claimed"
      /\ headIndex' = Plus(headIndex, n)
      /\ UNCHANGED <<tailIndex, dequeueOptimisticCount, dequeueOvercommit>>
      /\ DOMAIN cpc' = Consumers /\ DOMAIN call' = Consumers
  BY DEF Claim, ConsumerGoto, ShareTyped
<1>2. OnlyCaller(c)
  BY DEF Claim, ConsumerGoto, ShareTyped, OnlyCaller
<1>3. c \in Promised /\ c \in Unsettled /\ c \notin Promised'
  BY <1>1 DEF Promised, PromisedPcs, Unsettled
<1>4. n \in Nat /\ n # 0
  <2>1. call[c] \in Calls /\ n \in 1 .. call[c].desired
    BY <1>1, <1>3 DEF ShareTyped
  <2>2. call[c].desired \in Nat
    BY <2>1, HalfRange DEF Calls
  <2>3. QED
    BY <2>1, <2>2
<1>5. Emptied + Before(c) + n <= Filled
  BY <1>1, <1>4 DEF Covers, Cover
<1>6. Pending(c) = n /\ Pending(c)' = 0 /\ Asked(c) = 0 /\ Asked(c)' = 0
  BY <1>1 DEF Pending, Asked, AskingPcs
<1> HIDE DEF n
<1>7. Emptied \in Nat /\ Before(c) \in Nat /\ Filled \in Index /\ Filled \in Nat
  BY HalfRange, ShareTypes DEF ShareFacts, Index
<1>8. headIndex' \in Index /\ Emptied' = Emptied + n /\ Emptied + n <= Filled
  <2>1. Emptied + n <= Filled
    BY <1>4, <1>5, <1>7
  <2>2. Emptied + n < Numbers
    BY <1>4, <1>7, <2>1, HalfRange DEF Index
  <2>3. headIndex \in Index
    BY DEF ShareTyped
  <2>4. QED
    BY <1>1, <1>4, <2>1, <2>2, <2>3, HalfRange, Advanced DEF Emptied
<1>9. ShareTyped'
  <2>1. \A d \in Unsettled' : call'[d] \in Calls
    BY <1>1, <1>2 DEF ShareTyped, Unsettled, OnlyCaller
  <2>2. QED
    BY <1>1, <1>2, <1>8, <2>1 DEF ShareTyped, OnlyCaller, PromisedPcs
<1>10. Filled' = Filled /\ Promises' = Promises /\ Returned' = Returned
  BY <1>1 DEF Filled, Promises, Returned
<1>11. AllPending' = AllPending - n /\ AllAsked' = AllAsked
  BY <1>2, <1>4, <1>6, <1>9, SumsNext, ShareTypes DEF ShareFacts
<1>12. Room' /\ (Emptied <= Filled)'
  BY <1>8, <1>10, <1>11 DEF Room
<1>13. Balance'
  <2>1. AllPending \in Nat /\ Promises \in Nat /\ Returned \in Nat
    BY HalfRange, ShareTypes DEF ShareFacts, Index
  <2>2. QED
    BY <1>4, <1>7, <1>8, <1>10, <1>11, <2>1 DEF Balance
<1>14. Reads'
  BY <1>1, <1>2, <1>9, <1>10, SumsNext DEF Reads, OnlyCaller
<1>15. Turns'
  <2>1. \A d \in Promised' : d \in Promised /\ Mine(d)' = Mine(d)
    BY <1>2, <1>3, <1>9, SumsNext DEF Promised
  <2>2. QED
    BY <1>10, <2>1 DEF Turns
<1>16. Covers'
  <2> SUFFICES ASSUME NEW d \in Consumers PROVE Cover(d)'
    BY DEF Covers
  <2>1. CASE d \notin Promised'
    BY <2>1 DEF Cover, Promised, PromisedPcs
  <2>2. CASE d \in Promised'
    <3>1. d # c
      BY <1>3, <2>2
    <3>2. /\ cpc'[d] = cpc[d] /\ call'[d] = call[d] /\ Mine(d)' = Mine(d) /\ Read(d)' = Read(d)
          /\ d \in Promised
      BY <1>2, <1>9, <2>2, <3>1, SumsNext DEF OnlyCaller
    <3>3. Before(d)' = Before(d) - (IF c \in Ahead(d) THEN n ELSE 0)
      <4>1. c \notin Ahead(d)'
        BY <1>3 DEF Ahead
      <4>2. Before(d)' = Before(d) + (IF c \in Ahead(d)' THEN Pending(c)' ELSE 0)
                                   - (IF c \in Ahead(d) THEN Pending(c) ELSE 0)
        BY <1>2, <1>9, <3>1, BeforeNext
      <4>3. Before(d) \in Nat
        BY ShareTypes DEF ShareFacts
      <4>4. QED
        BY <1>4, <1>6, <4>1, <4>2, <4>3
    <3>4. /\ Mine(d) \in Int /\ Mine(c) \in Int /\ Before(d) \in Int
          /\ call[d].desired \in Int /\ call[d].count \in Int
      <4>1. d \in Unsettled /\ c \in Unsettled
        BY <1>3, <3>2 DEF Promised, PromisedPcs, Unsettled
      <4>2. call[d] \in Calls
        BY <4>1 DEF ShareTyped
      <4>3. QED
        BY <4>1, <4>2, HalfRange, ShareTypes DEF ShareFacts, Index, Calls
    <3>5. Cover(d)
      BY DEF Covers
    <3>6. CASE Mine(c) < Mine(d)
      <4>1. Emptied' + Before(d)' = Emptied + Before(d)
        <5>1. c \in Ahead(d)
          BY <1>3, <3>6 DEF Ahead
        <5>2. QED
          BY <1>4, <1>7, <1>8, <3>3, <3>4, <5>1
      <4>2. QED
        BY <1>10, <3>2, <3>5, <4>1 DEF Cover
    <3>7. CASE Mine(d) < Mine(c)
      <4>1. Before(d)' = Before(d)
        <5>1. c \notin Ahead(d)
          BY <3>4, <3>7 DEF Ahead
        <5>2. QED
          BY <3>3, <3>4, <5>1
      <4>2. Before(d) + Pending(d) <= Before(c)
        BY <1>3, <3>2, <3>7, BeforeLater
      <4>3. Pending(d) \in Nat
        BY HalfRange, ShareTypes DEF ShareFacts
      <4>4. Emptied + n + Before(d) + Pending(d) <= Filled
        BY <1>4, <1>5, <1>7, <3>4, <4>2, <4>3
      <4>5. Emptied' + Before(d)' + Pending(d) <= Filled'
        BY <1>8, <1>10, <4>1, <4>4
      <4>6. CASE cpc[d] = "reload"
        <5>1. Pending(d) = call[d].desired
          BY <4>6 DEF Pending
        <5>2. QED
          BY <3>2, <4>5, <4>6, <5>1 DEF Cover
      <4>7. CASE cpc[d] \in {"giveBack", "claim"}
        <5>1. call[d].count <= Pending(d)
          BY <3>4, <4>7 DEF Pending, ShareTyped
        <5>2. Emptied + n + Before(d) + call[d].count <= Filled
          BY <1>4, <1>7, <3>4, <4>3, <4>4, <5>1
        <5>3. Emptied' + Before(d)' + call[d].count <= Filled'
          BY <1>8, <1>10, <4>1, <5>2
        <5>4. QED
          BY <3>2, <4>7, <5>3 DEF Cover
      <4>8. QED
        BY <3>2, <4>6, <4>7 DEF Promised, PromisedPcs
    <3>8. Mine(c) < Mine(d) \/ Mine(d) < Mine(c)
      BY <1>3, <3>1, <3>2, <3>4 DEF Turns
    <3>9. QED
      BY <3>6, <3>7, <3>8
  <2>3. QED
    BY <2>1, <2>2
<1>17. QED
  BY <1>9, <1>12, <1>13, <1>14, <1>15, <1>16

LEMMA SharingStep ==
  ASSUME WindowsFit, ShareInv, NEW c \in Consumers, Sharing(c)
  PROVE  ShareInv'
  BY LoadOvercommitStep, ExamineStep, PromiseStep, ReloadStep, GiveBackStep, ClaimStep
     DEF Sharing

\* A consumer goes on after it has claimed.
LEMMA ClaimedStep ==
  ASSUME ShareInv, NEW c \in Consumers, OnlyCaller(c),
         c \notin Unsettled, c \notin Unsettled', UNCHANGED <<tailIndex, counters>>,
         DOMAIN cpc' = Consumers, DOMAIN call' = Consumers
  PROVE  ShareInv'
<1> HIDE DEF Numbers
<1> USE DEF ShareInv
<1>1. ShareTyped'
  <2>1. \A d \in Unsettled' : call'[d] \in Calls
    BY DEF ShareTyped, Unsettled, OnlyCaller
  <2>2. QED
    BY <2>1 DEF ShareTyped, OnlyCaller, PromisedPcs, Unsettled, counters
<1>2. c \notin Promised /\ c \notin Promised' /\ Asked(c) = 0 /\ Asked(c)' = 0
      /\ cpc'[c] \notin {"examine", "promise"}
  BY DEF Promised, PromisedPcs, Unsettled, Asked, AskingPcs
<1>3. AllAsked' = AllAsked
  BY <1>1, <1>2, SumsNext, ShareTypes DEF ShareFacts
<1>4. QED
  BY <1>1, <1>2, <1>3, OutsideStep DEF counters, Room

\* No consumer does anything.
Resting == UNCHANGED <<counters, cpc, call>>

LEMMA RestingSums ==
  ASSUME ShareTyped, Resting
  PROVE  /\ AllPending' = AllPending /\ AllAsked' = AllAsked
         /\ \A c \in Consumers : Before(c)' = Before(c) /\ Mine(c)' = Mine(c) /\ Read(c)' = Read(c)
         /\ Promised' = Promised /\ Unsettled' = Unsettled
<1>1. \A c \in Consumers : /\ Pending(c)' = Pending(c) /\ Asked(c)' = Asked(c)
                           /\ Mine(c)' = Mine(c) /\ Read(c)' = Read(c)
  BY DEF Resting, Pending, Asked, Mine, Read
<1>2. Promised' = Promised /\ Unsettled' = Unsettled
  BY DEF Resting, Promised, Unsettled
<1>3. \A c \in Consumers : Ahead(c)' = Ahead(c)
  BY <1>1, <1>2 DEF Ahead, Promised
<1>4. /\ [c \in Consumers |-> Pending(c)]' = [c \in Consumers |-> Pending(c)]
      /\ [c \in Consumers |-> Asked(c)]' = [c \in Consumers |-> Asked(c)]
  BY <1>1
<1>5. AllPending' = AllPending /\ AllAsked' = AllAsked
  BY <1>4 DEF AllPending, AllAsked
<1>6. \A c \in Consumers : Before(c)' = Before(c)
  BY <1>3, <1>4 DEF Before
<1>7. QED
  BY <1>1, <1>2, <1>5, <1>6

\* The producer publishes k elements, which may be none.
LEMMA FillStep ==
  ASSUME WindowsFit, ShareInv, Resting, NEW k \in Nat,
         tailIndex' = Plus(tailIndex, k), Filled + k <= MaxEnqueued
  PROVE  ShareInv'
<1> HIDE DEF Numbers
<1> USE DEF ShareInv
<1>1. Filled \in Nat /\ Emptied \in Nat /\ tailIndex \in Index
  BY HalfRange, ShareTypes DEF ShareFacts, Index, ShareTyped
<1>2. tailIndex' \in Index /\ Filled' = Filled + k
  <2>1. Filled + k < Numbers
    BY <1>1, HalfRange DEF WindowsFit
  <2>2. QED
    BY <1>1, <2>1, HalfRange, Advanced DEF Filled
<1>3. Emptied' = Emptied /\ Promises' = Promises /\ Returned' = Returned
  BY DEF Resting, counters, Emptied, Promises, Returned
<1>4. ShareTyped'
  BY <1>2, RestingSums DEF ShareTyped, Resting, counters
<1>5. Room' /\ (Emptied <= Filled)'
  BY <1>1, <1>2, <1>3, RestingSums DEF Room
<1>6. Balance' /\ Reads' /\ Turns'
  <2>1. Balance'
    BY <1>3, RestingSums DEF Balance
  <2>2. Reads'
    BY <1>3, RestingSums DEF Reads, Resting
  <2>3. Turns'
    BY <1>3, RestingSums DEF Turns, Promised
  <2>4. QED
    BY <2>1, <2>2, <2>3
<1>7. Covers'
  <2> SUFFICES ASSUME NEW d \in Consumers PROVE Cover(d)'
    BY DEF Covers
  <2>1. cpc' = cpc /\ call' = call
    BY DEF Resting
  <2>2. CASE d \in Promised
    <3>1. call[d].desired \in Int /\ call[d].count \in Int /\ Before(d) \in Int
      <4>1. call[d] \in Calls
        BY <2>2 DEF ShareTyped, Promised, PromisedPcs, Unsettled
      <4>2. QED
        BY <4>1, HalfRange, ShareTypes DEF Calls, ShareFacts
    <3>2. Cover(d)
      BY DEF Covers
    <3>3. \A x \in Int : Emptied + Before(d) + x <= Filled => Emptied + Before(d) + x <= Filled + k
      BY <1>1, <3>1
    <3>4. QED
      BY <1>2, <1>3, <2>1, <3>1, <3>2, <3>3, RestingSums DEF Cover
  <2>3. CASE d \notin Promised
    BY <2>1, <2>3 DEF Cover, Promised, PromisedPcs
  <2>4. QED
    BY <2>2, <2>3
<1>8. QED
  BY <1>4, <1>5, <1>6, <1>7

LEMMA ShareInit ==
  ASSUME ClaimInit
  PROVE  ShareInv
<1> HIDE DEF Numbers
<1>1. \A c \in Consumers : cpc[c] = "idle"
  BY DEF ClaimInit
<1>2. ShareTyped
  <2>1. Plus(StartIndex, StartOvercommit) \in Index
    BY HalfRange, PlusValue
  <2>2. QED
    BY <1>1, <2>1, HalfRange DEF ClaimInit, ShareTyped, Unsettled, PromisedPcs
<1>3. \A a \in Index : Minus(a, a) = 0
  BY MinusValue DEF Index
<1>4. Filled = 0 /\ Emptied = 0 /\ Promises = 0 /\ Returned = 0
  <2>1. Plus(StartIndex, StartOvercommit) \in Index
    BY HalfRange, PlusValue
  <2>2. QED
    BY <1>3, <2>1, HalfRange DEF ClaimInit, Filled, Emptied, Promises, Returned
<1>5. Promised = {} /\ \A c \in Consumers : Pending(c) = 0 /\ Asked(c) = 0
  BY <1>1 DEF Promised, PromisedPcs, Pending, Asked, AskingPcs
<1>6. AllPending = 0 /\ AllAsked = 0
  BY <1>5, HalfRange, TotalZero DEF AllPending, AllAsked
<1>7. Cardinality(Consumers) * MaxBulk \in Nat
  BY HalfRange, FS_CardinalityType
<1>8. Room /\ Emptied <= Filled /\ Balance
  BY <1>4, <1>6, <1>7, HalfRange DEF Room, Balance
<1>9. Reads /\ Turns /\ Covers
  BY <1>1, <1>5 DEF Reads, Turns, Covers, Cover
<1>10. QED
  BY <1>2, <1>8, <1>9 DEF ShareInv

------------------------------------------------------------------------------
(* What the invariant says of the counters themselves                      *)

LEMMA ShareSettles ==
  ASSUME ShareInv
  PROVE  PromisesSettled
<1> HIDE DEF Numbers
<1> USE DEF ShareInv
<1>1. /\ Promises \in Index /\ Returned \in Nat /\ Emptied \in Nat /\ AllPending \in Nat
      /\ Promises \in Nat
  BY HalfRange, ShareTypes DEF ShareFacts, Index
<1>2. Promises - Returned = Emptied + AllPending /\ Returned <= Promises
  BY <1>1 DEF Balance
<1>3. Minus(dequeueOptimisticCount, dequeueOvercommit) = Plus(StartIndex, Promises - Returned)
  BY <1>2, HalfRange, Unwrapped DEF ShareTyped, Promises, Returned
<1>4. Plus(headIndex, AllPending) = Plus(StartIndex, Emptied + AllPending)
  <2>1. AllPending \in Index /\ Emptied + AllPending \in Index /\ headIndex \in Index
    BY <1>1, <1>2, HalfRange DEF Index, ShareTyped
  <2>2. /\ Plus(headIndex, AllPending) =
             IF headIndex + AllPending < Numbers THEN headIndex + AllPending
             ELSE headIndex + AllPending - Numbers
        /\ Plus(StartIndex, Emptied + AllPending) =
             IF StartIndex + (Emptied + AllPending) < Numbers
             THEN StartIndex + (Emptied + AllPending)
             ELSE StartIndex + (Emptied + AllPending) - Numbers
    BY <2>1, HalfRange, PlusValue
  <2>3. Emptied = IF headIndex >= StartIndex THEN headIndex - StartIndex
                  ELSE headIndex - StartIndex + Numbers
    BY <2>1, HalfRange, MinusValue DEF Emptied
  <2>4. PICK a \in Nat : a = AllPending
    BY <1>1
  <2>5. a < Numbers /\ Emptied + a < Numbers
    BY <1>1, <2>1, <2>4, HalfRange DEF Index
  <2>6. QED
    BY <2>1, <2>2, <2>3, <2>4, <2>5, HalfRange DEF Index
<1>5. QED
  BY <1>2, <1>3, <1>4 DEF PromisesSettled, AllPending

LEMMA ShareCovers ==
  ASSUME ShareInv
  PROVE  ClaimsCovered
<1> HIDE DEF Numbers
<1> USE DEF ShareInv
<1> DEFINE s == [c \in Consumers |-> Sure(c)]
           place == [x \in Units(s, Consumers, MaxBulk) |-> Emptied + Before(x[1]) + x[2]]
<1>1. Emptied \in Nat /\ Filled \in Nat /\ \A c \in Consumers : Before(c) \in Nat
  BY HalfRange, ShareTypes DEF ShareFacts, Index
<1>2. ASSUME NEW c \in Consumers, NEW k \in 1 .. MaxBulk, k <= Sure(c)
      PROVE  /\ c \in Promised /\ k \in Nat /\ k # 0
             /\ Emptied + Before(c) + k <= Filled
             /\ k <= Pending(c)
  <2>1. k \in Nat /\ k # 0
    BY HalfRange
  <2>2. cpc[c] \in {"giveBack", "claim"} /\ Sure(c) = call[c].count
    BY <1>2, <2>1 DEF Sure
  <2>3. c \in Promised /\ call[c] \in Calls
    BY <2>2 DEF Promised, PromisedPcs, ShareTyped, Unsettled
  <2>4. call[c].count \in Nat /\ call[c].desired \in Nat
    BY <2>3, HalfRange DEF Calls
  <2>5. Emptied + Before(c) + call[c].count <= Filled
    BY <1>2, <2>1, <2>2, <2>4 DEF Covers, Cover
  <2>6. call[c].count <= Pending(c)
    BY <2>2, <2>4 DEF Pending, ShareTyped
  <2>7. Pending(c) \in Nat
    BY HalfRange, ShareTypes DEF ShareFacts
  <2>8. QED
    BY <1>1, <1>2, <2>1, <2>2, <2>3, <2>4, <2>5, <2>6, <2>7
<1>3. ASSUME NEW c \in Consumers, NEW k \in 1 .. MaxBulk, k <= Sure(c),
             NEW d \in Consumers, NEW l \in 1 .. MaxBulk, l <= Sure(d), c # d
      PROVE  Before(c) + k # Before(d) + l
  <2>1. /\ c \in Promised /\ k \in Nat /\ k # 0 /\ k <= Pending(c)
        /\ d \in Promised /\ l \in Nat /\ l # 0 /\ l <= Pending(d)
    BY <1>2, <1>3
  <2>2. /\ Mine(c) \in Int /\ Mine(d) \in Int /\ Pending(c) \in Nat /\ Pending(d) \in Nat
        /\ Before(c) \in Nat /\ Before(d) \in Nat
    <3>1. c \in Unsettled /\ d \in Unsettled
      BY <2>1 DEF Promised, PromisedPcs, Unsettled
    <3>2. QED
      BY <3>1, HalfRange, ShareTypes DEF ShareFacts, Index
  <2>3. Mine(c) < Mine(d) \/ Mine(d) < Mine(c)
    BY <1>3, <2>1, <2>2 DEF Turns
  <2>4. Mine(c) < Mine(d) => Before(c) + Pending(c) <= Before(d)
    BY <2>1, BeforeLater
  <2>5. Mine(d) < Mine(c) => Before(d) + Pending(d) <= Before(c)
    BY <2>1, BeforeLater
  <2>6. QED
    BY <2>1, <2>2, <2>3, <2>4, <2>5
<1>4. \A x \in Units(s, Consumers, MaxBulk) :
        /\ x[1] \in Consumers /\ x[2] \in 1 .. MaxBulk /\ x[2] <= Sure(x[1])
        /\ x = <<x[1], x[2]>>
  BY DEF Units
<1>5. place \in Injection(Units(s, Consumers, MaxBulk), Emptied + 1 .. Filled)
  <2>1. ASSUME NEW x \in Units(s, Consumers, MaxBulk)
        PROVE  place[x] \in Emptied + 1 .. Filled
    <3>1. PICK b \in Nat, k \in Nat : b = Before(x[1]) /\ k = x[2]
      BY <1>1, <1>2, <1>4
    <3>2. k # 0 /\ Emptied + b + k <= Filled
      BY <1>2, <1>4, <3>1
    <3>3. Emptied + b + k \in Emptied + 1 .. Filled
      BY <1>1, <3>1, <3>2
    <3>4. QED
      BY <3>1, <3>3
  <2>2. ASSUME NEW x \in Units(s, Consumers, MaxBulk), NEW y \in Units(s, Consumers, MaxBulk),
               place[x] = place[y]
        PROVE  x = y
    <3>1. PICK b \in Nat, k \in Nat : b = Before(x[1]) /\ k = x[2]
      BY <1>1, <1>2, <1>4
    <3>2. PICK a \in Nat, l \in Nat : a = Before(y[1]) /\ l = y[2]
      BY <1>1, <1>2, <1>4
    <3>3. b + k = a + l
      BY <1>1, <2>2, <3>1, <3>2
    <3>4. x[1] = y[1]
      BY <1>3, <1>4, <3>1, <3>2, <3>3
    <3>5. b = a
      BY <3>1, <3>2, <3>4
    <3>6. k = l
      BY <3>3, <3>5
    <3>7. QED
      BY <1>4, <3>1, <3>2, <3>4, <3>6
  <2>3. QED
    BY <2>1, <2>2 DEF Injection, IsInjective
<1> HIDE DEF s, place
<1>6. /\ IsFiniteSet(Emptied + 1 .. Filled)
      /\ Cardinality(Emptied + 1 .. Filled) = Filled - Emptied
  <2>1. ASSUME NEW a \in Nat, NEW b \in Nat, a <= b
        PROVE  IsFiniteSet(a + 1 .. b) /\ Cardinality(a + 1 .. b) = b - a
    <3>1. a + 1 \in Int /\ b \in Int
      OBVIOUS
    <3>2. /\ IsFiniteSet(a + 1 .. b)
          /\ Cardinality(a + 1 .. b) = IF a + 1 > b THEN 0 ELSE b - (a + 1) + 1
      BY <3>1, FS_Interval
    <3>3. QED
      BY <2>1, <3>2
  <2>2. QED
    BY <1>1, <2>1
<1>7. Total(s, Consumers, MaxBulk) <= Filled - Emptied
  BY <1>5, <1>6, FS_Injection DEF Total
<1>8. Minus(tailIndex, headIndex) = Filled - Emptied
  <2>1. Filled >= Emptied
    BY <1>1
  <2>2. Minus(tailIndex, headIndex) = IF Filled >= Emptied THEN Filled - Emptied
                                      ELSE Filled - Emptied + Numbers
    BY HalfRange, SameStart DEF ShareTyped, Filled, Emptied
  <2>3. QED
    BY <2>1, <2>2
<1>9. QED
  BY <1>7, <1>8 DEF ClaimsCovered, s

------------------------------------------------------------------------------
(* Blocks.  The elements and the blocks are numbered from the start.       *)

Number(i) == Minus(i, StartIndex)
Element(n) == Plus(StartIndex, n)
BlockNo(i) == Number(i) \div BlockSize
BaseOf(m) == Plus(StartIndex, m * BlockSize)
Within(m) == m * BlockSize .. m * BlockSize + BlockSize - 1

LEMMA BlockFacts ==
  /\ BlockSize \in Nat \ {0, 1} /\ Numbers \in Nat \ {0}
  /\ Numbers % BlockSize = 0 /\ StartIndex % BlockSize = 0
<1> HIDE DEF Numbers
<1> QED
  BY HalfRange, ProducerAssumption DEF ProducerAssumption

LEMMA Division ==
  ASSUME NEW k \in Nat \ {0}, NEW a \in Int
  PROVE  \E q \in Int, r \in 0 .. k - 1, p \in Int :
           q = a \div k /\ r = a % k /\ p = q * k /\ a = p + r
<1>1. a \div k \in Int /\ a % k \in 0 .. k - 1 /\ (a \div k) * k \in Int
  OBVIOUS
<1>2. a = (a \div k) * k + (a % k)
  OBVIOUS
<1> QED
  BY <1>1, <1>2

LEMMA Distribute ==
  \A a, b, k \in Int : (a + b) * k = a * k + b * k /\ (a - b) * k = a * k - b * k
OBVIOUS

LEMMA Multiples ==
  ASSUME NEW k \in Nat \ {0}, NEW m \in Int, NEW n \in Int, m < n
  PROVE  /\ m * k \in Int /\ n * k \in Int
         /\ m * k + k <= n * k
<1>1. PICK d \in Nat : d = n - m - 1
  OBVIOUS
<1>2. d * k \in Nat
  BY <1>1
<1>3. n * k = m * k + k + d * k
  BY <1>1
<1>4. m * k \in Int /\ n * k \in Int
  OBVIOUS
<1> QED
  BY <1>2, <1>3, <1>4

\* Which multiple of k a number is in.
LEMMA SameMultiple ==
  ASSUME NEW k \in Nat \ {0}, NEW m \in Int, NEW n \in Int, NEW a \in Int,
         a \in m * k .. m * k + k - 1, a \in n * k .. n * k + k - 1
  PROVE  m = n
<1>1. PICK x \in Int : x = m * k
  OBVIOUS
<1>2. PICK y \in Int : y = n * k
  OBVIOUS
<1>3. x <= a /\ a < x + k /\ y <= a /\ a < y + k
  BY <1>1, <1>2
<1>4. ASSUME m < n PROVE x + k <= y
  BY <1>1, <1>2, <1>4, Multiples
<1>5. ASSUME n < m PROVE y + k <= x
  BY <1>1, <1>2, <1>5, Multiples
<1>6. ~(m < n)
  BY <1>3, <1>4
<1>7. ~(n < m)
  BY <1>3, <1>5
<1> QED
  BY <1>6, <1>7

LEMMA Quotient ==
  ASSUME NEW k \in Nat \ {0}, NEW a \in Int, NEW q \in Int,
         a \in q * k .. q * k + k - 1
  PROVE  a \div k = q /\ a % k = a - q * k
<1>1. PICK d \in Int, r \in 0 .. k - 1, p \in Int :
        d = a \div k /\ r = a % k /\ p = d * k /\ a = p + r
  BY Division
<1>2. a \in d * k .. d * k + k - 1
  <2>1. a \in p .. p + k - 1
    BY <1>1
  <2> QED
    BY <1>1, <2>1
<1>3. d = q
  BY <1>2, SameMultiple
<1>4. r = a - p
  BY <1>1
<1> QED
  BY <1>1, <1>3, <1>4

\* Positions on a ring of n slots.
LEMMA RingSame ==
  ASSUME NEW n \in Nat \ {0}, NEW a \in Int, NEW d \in Int, NEW y \in Int, y = d * n
  PROVE  (a + y) % n = a % n
<1>1. PICK q \in Int, r \in 0 .. n - 1, p \in Int :
        q = a \div n /\ r = a % n /\ p = q * n /\ a = p + r
  BY Division
<1>3. PICK z \in Int : z = (q + d) * n
  BY <1>1
<1>4. (q + d) * n = q * n + d * n
  BY <1>1, Distribute
<1>5. z = p + y
  BY <1>1, <1>3, <1>4
<1>6. a + y \in z .. z + n - 1 /\ (a + y) - z = r /\ a + y \in Int /\ q + d \in Int
  BY <1>1, <1>5
<1>7. (a + y) % n = r
  BY <1>3, <1>6, Quotient
<1> QED
  BY <1>1, <1>7

LEMMA RingShift ==
  ASSUME NEW n \in Nat \ {0}, NEW a \in Int, NEW k \in Int
  PROVE  ((a % n) + k) % n = (a + k) % n
<1>1. PICK q \in Int, r \in 0 .. n - 1, p \in Int :
        q = a \div n /\ r = a % n /\ p = q * n /\ a = p + r
  BY Division
<1>2. PICK j \in Int : j = r + k
  <2>1. r \in Int
    BY <1>1
  <2>2. r + k \in Int
    BY <2>1
  <2> QED
    BY <2>2, Zenon
<1>4. (j + p) % n = j % n
  <2>1. q \in Int /\ p \in Int /\ j \in Int /\ p = q * n
    BY <1>1, <1>2
  <2> QED
    BY <2>1, RingSame, Zenon
<1>3. j + p = a + k
  BY <1>1, <1>2
<1> QED
  BY <1>1, <1>2, <1>3, <1>4

LEMMA RingWrap ==
  ASSUME NEW n \in Nat \ {0}, NEW a \in Int
  PROVE  /\ (a + n) % n = a % n
         /\ a \in 0 .. n - 1 => a % n = a
<1>1. 1 * n = n /\ 0 * n = 0
  OBVIOUS
<1>4. \A d, y \in Int : y = d * n => (a + y) % n = a % n
  BY RingSame
<1>5. PICK d \in Int : d = 1
  OBVIOUS
<1>6. PICK y \in Int : y = d * n
  OBVIOUS
<1>7. y = n
  BY <1>5, <1>6
<1>2. (a + n) % n = a % n
  BY <1>4, <1>6, <1>7
<1>3. ASSUME a \in 0 .. n - 1 PROVE a % n = a
  <2>1. a \in 0 * n .. 0 * n + n - 1 /\ a - 0 * n = a
    BY <1>1, <1>3
  <2> QED
    BY <2>1, Quotient
<1> QED
  BY <1>1, <1>2, <1>3

LEMMA RingDistinct ==
  ASSUME NEW n \in Nat \ {0}, NEW a \in Int, NEW b \in Int, a % n = b % n,
         a - b < n, b - a < n
  PROVE  a = b
<1>1. PICK q \in Int, r \in 0 .. n - 1, p \in Int :
        q = a \div n /\ r = a % n /\ p = q * n /\ a = p + r
  BY Division
<1>2. PICK d \in Int, s \in 0 .. n - 1, z \in Int :
        d = b \div n /\ s = b % n /\ z = d * n /\ b = z + s
  BY Division
<1>3. s = r
  BY <1>1, <1>2
<1>4. ASSUME q < d PROVE p + n <= z
  BY <1>1, <1>2, <1>4, Multiples
<1>5. ASSUME d < q PROVE z + n <= p
  BY <1>1, <1>2, <1>5, Multiples
<1>6. ~(q < d)
  BY <1>1, <1>2, <1>3, <1>4
<1>7. ~(d < q)
  BY <1>1, <1>2, <1>3, <1>5
<1>8. q = d
  BY <1>1, <1>2, <1>6, <1>7
<1> QED
  BY <1>1, <1>2, <1>3, <1>8

LEMMA NumberValue ==
  ASSUME NEW i \in Index
  PROVE  Number(i) \in Index /\ Element(Number(i)) = i
<1> HIDE DEF Numbers
<1>1. /\ Number(i) \in Index
      /\ Number(i) = IF i >= StartIndex THEN i - StartIndex ELSE i - StartIndex + Numbers
  BY HalfRange, MinusValue DEF Number
<1>2. Element(Number(i)) = IF StartIndex + Number(i) < Numbers THEN StartIndex + Number(i)
                           ELSE StartIndex + Number(i) - Numbers
  BY <1>1, HalfRange, PlusValue DEF Element
<1> QED
  BY <1>1, <1>2, HalfRange DEF Index

LEMMA ElementValue ==
  ASSUME NEW n \in Index
  PROVE  Element(n) \in Index /\ Number(Element(n)) = n
<1> HIDE DEF Numbers
<1>1. Minus(StartIndex, StartIndex) = 0 /\ n \in Nat /\ n < Numbers /\ StartIndex \in Index
  BY HalfRange, MinusValue DEF Index
<1> QED
  BY <1>1, Advanced DEF Element, Number

LEMMA BlockNoValue ==
  ASSUME NEW i \in Index
  PROVE  /\ BlockNo(i) \in Nat /\ BlockNo(i) * BlockSize \in Index
         /\ Number(i) \in Within(BlockNo(i))
         /\ Base(i) = BaseOf(BlockNo(i)) /\ Base(i) \in Index
         /\ Number(Base(i)) = BlockNo(i) * BlockSize
         /\ Slot(i) = Number(i) % BlockSize
<1> HIDE DEF Numbers
<1>0. PICK k \in Nat \ {0} : k = BlockSize
  BY BlockFacts
<1>1. Numbers \in Nat \ {0} /\ Numbers % k = 0 /\ StartIndex % k = 0 /\ StartIndex \in Index
  BY <1>0, BlockFacts, HalfRange
<1>2. PICK s \in Int, rs \in 0 .. k - 1, ps \in Int :
        s = StartIndex \div k /\ rs = StartIndex % k /\ ps = s * k /\ StartIndex = ps + rs
  BY <1>0, <1>1, Division DEF Index
<1>3. PICK z \in Int, rz \in 0 .. k - 1, pz \in Int :
        z = Numbers \div k /\ rz = Numbers % k /\ pz = z * k /\ Numbers = pz + rz
  BY <1>0, <1>1, Division
<1>4. StartIndex = ps /\ Numbers = pz
  BY <1>1, <1>2, <1>3
<1>5. PICK x \in Index : x = Number(i)
  BY HalfRange, MinusValue DEF Number
<1>6. x = IF i >= StartIndex THEN i - StartIndex ELSE i - StartIndex + Numbers
  BY <1>5, HalfRange, MinusValue DEF Number
<1>7. PICK q \in Int, r \in 0 .. k - 1, p \in Int :
        q = x \div k /\ r = x % k /\ p = q * k /\ x = p + r
  <2>1. x \in Int
    BY <1>1, <1>5 DEF Index
  <2> QED
    BY <2>1, Division
<1>8. BlockNo(i) = q
  BY <1>0, <1>5, <1>7 DEF BlockNo
<1>9. q \in Nat /\ p \in Index
  <2>1. x \in Nat /\ x < Numbers
    BY <1>1, <1>5 DEF Index
  <2>2. ASSUME q < 0 PROVE p + k <= 0
    <3>1. q * k + k <= 0 * k
      BY <1>7, <2>2, Multiples
    <3> QED
      BY <1>7, <3>1
  <2>3. q >= 0
    BY <1>7, <2>1, <2>2
  <2>4. q * k \in Nat
    BY <1>7, <2>3
  <2> QED
    BY <1>1, <1>7, <2>1, <2>3, <2>4 DEF Index
<1>22. s \in Int /\ q \in Int /\ z \in Int /\ k \in Int /\ s + q \in Int
  BY <1>0, <1>2, <1>3, <1>7
<1>10. \E u \in Int : i - r = u * k
  <2>1. CASE i >= StartIndex
    <3>1. (s + q) * k = s * k + q * k
      BY <1>22, Distribute
    <3>2. i - r = ps + p
      BY <1>1, <1>4, <1>6, <1>7, <2>1 DEF Index
    <3> QED
      <4>1. s + q \in Int /\ i - r = (s + q) * k
        BY <1>2, <1>7, <3>1, <3>2
      <4> QED
        BY <4>1
  <2>2. CASE ~(i >= StartIndex)
    <3>1. (s + q - z) * k = s * k + q * k - z * k
      BY <1>22, Distribute
    <3>2. i - r = ps + p - pz
      BY <1>1, <1>4, <1>6, <1>7, <2>2 DEF Index
    <3>3. s + q - z \in Int
      BY <1>2, <1>3, <1>7
    <3> QED
      BY <1>2, <1>3, <1>7, <3>1, <3>2, <3>3
  <2> QED
    BY <2>1, <2>2
<1>21. PICK u \in Int : i - r = u * k
  BY <1>10
<1>11. PICK v \in Int : v = u * k /\ i - r = v
  BY <1>21
<1>12. i \in Nat /\ i < Numbers
  BY <1>1 DEF Index
<1>13. i \in v .. v + k - 1 /\ i - v = r
  BY <1>7, <1>11, <1>12
<1>14. i % k = r
  <2>1. i \in u * k .. u * k + k - 1 /\ i - u * k = r /\ i \in Int
    BY <1>11, <1>12, <1>13
  <2> QED
    BY <2>1, Quotient
<1>15. Slot(i) = r /\ Base(i) = v
  BY <1>0, <1>11, <1>12, <1>13, <1>14 DEF Slot, Base
<1>16. v >= 0
  <2>1. ASSUME u < 0 PROVE v + k <= 0
    <3>1. u * k + k <= 0 * k
      BY <2>1, Multiples
    <3> QED
      BY <1>11, <3>1
  <2>2. u >= 0
    BY <1>12, <1>13, <2>1
  <2> QED
    BY <1>11, <2>2
<1>17. Plus(StartIndex, p) = v
  <2>1. Plus(StartIndex, p) = IF StartIndex + p < Numbers THEN StartIndex + p
                              ELSE StartIndex + p - Numbers
    BY <1>1, <1>9, PlusValue
  <2> QED
    BY <1>1, <1>6, <1>7, <1>9, <1>12, <1>13, <1>16, <2>1 DEF Index
<1>18. BaseOf(q) = v
  BY <1>0, <1>7, <1>17 DEF BaseOf
<1>19. v \in Index /\ Number(v) = p
  BY <1>9, <1>17, ElementValue DEF Element
<1>20. Number(i) \in Within(q)
  <2>1. x \in p .. p + k - 1
    BY <1>0, <1>7
  <2> QED
    BY <1>0, <1>5, <1>7, <2>1 DEF Within
<1> QED
  BY <1>0, <1>5, <1>7, <1>8, <1>9, <1>15, <1>18, <1>19, <1>20

LEMMA BaseOfValue ==
  ASSUME NEW m \in Nat, m * BlockSize \in Index
  PROVE  /\ BaseOf(m) \in Index /\ Number(BaseOf(m)) = m * BlockSize
         /\ BlockNo(BaseOf(m)) = m /\ BaseOf(m) % BlockSize = 0
         /\ BaseOf(m) # 1
<1> HIDE DEF Numbers
<1>1. PICK x \in Index : x = m * BlockSize
  OBVIOUS
<1>2. BaseOf(m) \in Index /\ Number(BaseOf(m)) = x
  BY <1>1, ElementValue DEF BaseOf, Element
<1>3. BlockSize \in Nat \ {0, 1} /\ m \in Int /\ x \in Int
  BY <1>1, BlockFacts DEF Index
<1>4. x \in m * BlockSize .. m * BlockSize + BlockSize - 1
  BY <1>1, <1>3
<1>5. x \div BlockSize = m /\ x % BlockSize = x - m * BlockSize
  BY <1>3, <1>4, Quotient
<1>6. BlockNo(BaseOf(m)) = m
  BY <1>2, <1>5 DEF BlockNo
<1>7. Slot(BaseOf(m)) = 0
  <2>1. Slot(BaseOf(m)) = x % BlockSize
    BY <1>2, BlockNoValue
  <2> QED
    BY <1>1, <1>3, <1>5, <2>1
<1>8. 1 % BlockSize = 1
  <2>1. BlockSize \in Nat \ {0} /\ 1 \in 0 .. BlockSize - 1 /\ 1 \in Int
    BY <1>3
  <2> QED
    BY <2>1, RingWrap
<1> QED
  BY <1>1, <1>2, <1>6, <1>7, <1>8 DEF Slot

\* get_block_index_index_for_index: how far the block of i is from block m.
LEMMA OffsetValue ==
  ASSUME NEW i \in Index, Number(i) < Numbers \div 2,
         NEW m \in Nat, m * BlockSize < Numbers \div 2
  PROVE  BlockOffset(BaseOf(m), i) = BlockNo(i) - m
<1> HIDE DEF Numbers
<1>1. BlockSize \in Nat \ {0} /\ Numbers \in Nat \ {0} /\ Numbers \div 2 \in Nat
      /\ Numbers = (Numbers \div 2) + (Numbers \div 2) /\ StartIndex \in Index
  BY BlockFacts, HalfRange
<1>2. PICK x \in Nat : x = m * BlockSize
  BY <1>1
<1>3. x \in Index
  BY <1>1, <1>2 DEF Index
<1>4. BaseOf(m) \in Index /\ Number(BaseOf(m)) = x
  BY <1>2, <1>3, BaseOfValue
<1>5. PICK y \in Nat : y = BlockNo(i) * BlockSize
  BY <1>1, BlockNoValue
<1>6. Base(i) \in Index /\ Number(Base(i)) = y /\ BlockNo(i) \in Nat
  BY <1>5, BlockNoValue
<1>7. y < Numbers \div 2
  <2>1. Number(i) \in y .. y + BlockSize - 1
    BY <1>5, BlockNoValue DEF Within
  <2> QED
    BY <1>1, <1>5, <2>1
<1> DEFINE d == Minus(Base(i), BaseOf(m))
<1>8. d = IF y >= x THEN y - x ELSE y - x + Numbers
  BY <1>1, <1>4, <1>6, SameStart DEF Number
<1>9. PICK j \in Int : j = BlockNo(i) - m
  BY <1>6
<1>10. j * BlockSize = y - x
  BY <1>1, <1>2, <1>5, <1>6, <1>9, Distribute
<1>11. BlockOffset(BaseOf(m), i) =
         IF d >= Numbers \div 2 THEN -((Numbers - d) \div BlockSize) ELSE d \div BlockSize
  BY DEF BlockOffset
<1> HIDE DEF d
<1>12. CASE y >= x
  <2>1. d = y - x /\ d < Numbers \div 2 /\ d \in Int
    BY <1>1, <1>7, <1>8, <1>12
  <2>2. d \in j * BlockSize .. j * BlockSize + BlockSize - 1
    BY <1>1, <1>10, <2>1
  <2>3. d \div BlockSize = j
    BY <1>1, <2>1, <2>2, Quotient
  <2> QED
    BY <1>1, <1>9, <1>11, <2>1, <2>3
<1>13. CASE ~(y >= x)
  <2>1. Numbers - d = x - y /\ d >= Numbers \div 2 /\ d \in Int
    BY <1>1, <1>2, <1>5, <1>8, <1>13
  <2>2. PICK l \in Int : l = -j
    BY <1>9
  <2>3. l * BlockSize = x - y
    <3>1. m - BlockNo(i) = l
      BY <1>6, <1>9, <2>2
    <3> QED
      BY <1>1, <1>2, <1>5, <1>6, <3>1, Distribute
  <2>4. Numbers - d \in l * BlockSize .. l * BlockSize + BlockSize - 1 /\ Numbers - d \in Int
    BY <1>1, <2>1, <2>3
  <2>5. (Numbers - d) \div BlockSize = l
    BY <1>1, <2>4, Quotient
  <2> QED
    BY <1>9, <1>11, <2>1, <2>2, <2>5
<1> QED
  BY <1>12, <1>13

LEMMA WithinValue ==
  ASSUME NEW m \in Nat
  PROVE  /\ m * BlockSize \in Nat /\ m * BlockSize \in Within(m) /\ Within(m) \subseteq Nat
         /\ \A n \in Within(m) : m * BlockSize <= n /\ n < m * BlockSize + BlockSize
         /\ (m + 1) * BlockSize = m * BlockSize + BlockSize
<1> HIDE DEF Numbers
<1>1. BlockSize \in Nat \ {0, 1}
  BY BlockFacts
<1>2. m * BlockSize \in Nat
  BY <1>1
<1>3. PICK x \in Nat : x = m * BlockSize
  BY <1>2
<1>4. Within(m) = x .. x + BlockSize - 1
  BY <1>3 DEF Within
<1>5. 1 * BlockSize = BlockSize
  BY <1>1
<1>6. (m + 1) * BlockSize = m * BlockSize + BlockSize
  BY <1>1, <1>5, Distribute
<1> QED
  BY <1>1, <1>2, <1>3, <1>4, <1>6

\* A block that holds the element n is no other block.
LEMMA WithinUnique ==
  ASSUME NEW m \in Nat, NEW q \in Nat, NEW n \in Within(m), n \in Within(q)
  PROVE  m = q
<1>1. BlockSize \in Nat \ {0}
  BY BlockFacts
<1>2. n \in Int
  BY WithinValue
<1> QED
  BY <1>1, <1>2, SameMultiple DEF Within

LEMMA BaseSame ==
  ASSUME NEW m \in Nat, NEW q \in Nat, m * BlockSize \in Index, q * BlockSize \in Index,
         BaseOf(m) = BaseOf(q)
  PROVE  m = q
  BY BaseOfValue

LEMMA ElementBase ==
  ASSUME NEW n \in Index, NEW m \in Nat, n \in Within(m)
  PROVE  Base(Element(n)) = BaseOf(m) /\ BlockNo(Element(n)) = m
<1> HIDE DEF Numbers
<1>1. Element(n) \in Index /\ Number(Element(n)) = n
  BY ElementValue
<1>2. BlockNo(Element(n)) \in Nat /\ n \in Within(BlockNo(Element(n)))
      /\ Base(Element(n)) = BaseOf(BlockNo(Element(n)))
  BY <1>1, BlockNoValue
<1>3. BlockNo(Element(n)) = m
  BY <1>2, WithinUnique
<1> QED
  BY <1>2, <1>3

LEMMA QuotientWithin ==
  ASSUME NEW n \in Nat
  PROVE  /\ n \div BlockSize \in Nat /\ n % BlockSize \in Slots
         /\ n \in Within(n \div BlockSize)
         /\ n = (n \div BlockSize) * BlockSize + (n % BlockSize)
<1>1. PICK k \in Nat \ {0} : k = BlockSize
  BY BlockFacts
<1>2. PICK q \in Int, r \in 0 .. k - 1, p \in Int :
        q = n \div k /\ r = n % k /\ p = q * k /\ n = p + r
  BY <1>1, Division
<1>3. q >= 0
  <2>1. ASSUME q < 0 PROVE p + k <= 0 * k
    BY <1>1, <1>2, <2>1, Multiples
  <2>2. 0 * k = 0
    BY <1>1
  <2> QED
    BY <1>1, <1>2, <2>1, <2>2
<1>4. n \in p .. p + k - 1
  BY <1>1, <1>2
<1>5. n \in q * k .. q * k + k - 1
  BY <1>2, <1>4
<1> QED
  BY <1>1, <1>2, <1>3, <1>5 DEF Within, Slots

LEMMA WithinQuotient ==
  ASSUME NEW m \in Nat, NEW n \in Within(m)
  PROVE  n \in Nat /\ n \div BlockSize = m
<1>1. n \in Nat
  BY WithinValue
<1>2. n \in Within(n \div BlockSize) /\ n \div BlockSize \in Nat
  BY <1>1, QuotientWithin
<1> QED
  BY <1>1, <1>2, WithinUnique

LEMMA PlusElement ==
  ASSUME NEW i \in Index, NEW k \in Nat, Number(i) + k < Numbers
  PROVE  Plus(i, k) = Element(Number(i) + k)
<1> HIDE DEF Numbers
<1>1. StartIndex \in Index
  BY HalfRange
<1>2. Plus(i, k) \in Index /\ Number(Plus(i, k)) = Number(i) + k
  BY <1>1, Advanced DEF Number
<1> QED
  BY <1>2, NumberValue

LEMMA Joined ==
  ASSUME NEW p \in Nat, NEW q \in Nat, NEW F, NEW u, NEW v,
         u = [k \in 1 .. p |-> F[k]], v = [k \in 1 .. q |-> F[p + k]]
  PROVE  u \o v = [k \in 1 .. p + q |-> F[k]]
<1>1. DEFINE S == {F[k] : k \in 1 .. p + q}
<1>2. u \in Seq(S) /\ Len(u) = p
  <2>1. u \in [1 .. p -> S]
    OBVIOUS
  <2> HIDE DEF S
  <2> QED
    BY <2>1
<1>3. v \in Seq(S) /\ Len(v) = q
  <2>1. \A k \in 1 .. q : p + k \in 1 .. p + q
    OBVIOUS
  <2>2. v \in [1 .. q -> S]
    BY <2>1
  <2> HIDE DEF S
  <2> QED
    BY <2>2
<1> HIDE DEF S
<1>4. /\ u \o v \in Seq(S) /\ Len(u \o v) = p + q
      /\ \A k \in 1 .. p + q : (u \o v)[k] = IF k <= p THEN u[k] ELSE v[k - p]
  BY <1>2, <1>3
<1>5. \A k \in 1 .. p + q : (u \o v)[k] = F[k]
  <2>1. ASSUME NEW k \in 1 .. p + q PROVE (u \o v)[k] = F[k]
    <3>1. CASE k <= p
      BY <1>4, <3>1
    <3>2. CASE ~(k <= p)
      <4>1. k - p \in 1 .. q /\ p + (k - p) = k
        BY <3>2
      <4>2. v[k - p] = F[p + (k - p)]
        BY <4>1
      <4> QED
        BY <1>4, <3>2, <4>1, <4>2
    <3> QED
      BY <3>1, <3>2
  <2> QED
    BY <2>1
<1>6. u \o v = [k \in 1 .. p + q |-> (u \o v)[k]]
  BY <1>4
<1> QED
  BY <1>5, <1>6

\* The first elements of a sequence and the others.
LEMMA Segments ==
  ASSUME NEW n \in Nat, NEW m \in Nat, NEW F, NEW s, s = [k \in 1 .. n + m |-> F[k]]
  PROVE  /\ SubSeq(s, 1, n) = [k \in 1 .. n |-> F[k]]
         /\ SubSeq(s, n + 1, Len(s)) = [k \in 1 .. m |-> F[n + k]]
         /\ Len(s) = n + m
<1> DEFINE S == {F[k] : k \in 1 .. n + m}
<1>1. s \in Seq(S) /\ Len(s) = n + m
  <2>1. s \in [1 .. n + m -> S]
    OBVIOUS
  <2>2. n + m \in Nat
    OBVIOUS
  <2> HIDE DEF S
  <2> QED
    BY <2>1, <2>2
<1> HIDE DEF S
<1>2. SubSeq(s, 1, n) = [k \in 1 .. n |-> F[k]]
  <2>1. \A k \in 1 .. n : s[k] = F[k]
    OBVIOUS
  <2>2. SubSeq(s, 1, n) = [k \in 1 .. n |-> s[k]]
    BY <1>1
  <2> QED
    BY <2>1, <2>2
<1>3. SubSeq(s, n + 1, n + m) = [k \in 1 .. m |-> F[n + k]]
  <2>1. \A k \in 1 .. m : s[n + k] = F[n + k]
    OBVIOUS
  <2>2. SubSeq(s, n + 1, n + m) = [k \in 1 .. m |-> s[n + k]]
    BY <1>1
  <2> QED
    BY <2>1, <2>2
<1> QED
  BY <1>1, <1>2, <1>3

------------------------------------------------------------------------------
(* A dequeue that no other overlaps.                                       *)

\* How many elements there were when it looked.
SeenFilled(c) == Minus(call[c].tail, StartIndex)

\* c is the only one that has not claimed or given back, and it has read what its
\* promise counts from: it gets the elements it is owed.
Alone(c) ==
  /\ Unsettled = {c}
  /\ owed[c] <= call[c].max /\ Emptied + owed[c] <= Filled
  /\ cpc[c] \in {"overcommit", "examine"} =>
       Emptied + owed[c] <= SeenFilled(c) /\ SeenFilled(c) <= Filled
  /\ cpc[c] \in {"examine", "promise", "reload"} => Read(c) = Returned
  /\ cpc[c] \in {"promise", "reload"} => owed[c] <= call[c].desired
  /\ cpc[c] = "reload" => Mine(c) = Returned + Emptied
  /\ cpc[c] \in {"giveBack", "claim"} => owed[c] <= call[c].count

OwedOK ==
  /\ DOMAIN owed = Consumers
  /\ \A c \in Consumers : owed[c] \in Nat /\ (owed[c] # 0 => Alone(c))

LEMMA AloneBalance ==
  ASSUME ShareInv, NEW c \in Consumers, Unsettled = {c}
  PROVE  /\ cpc[c] \in AskingPcs => Promises = Returned + Emptied
         /\ Before(c) = 0
<1> HIDE DEF Numbers
<1> USE DEF ShareInv
<1>1. MaxBulk \in Nat /\ Returned \in Nat /\ Emptied \in Nat
  BY HalfRange, ShareTypes DEF ShareFacts, Index
<1>2. ASSUME cpc[c] \in AskingPcs PROVE Promises = Returned + Emptied
  <2>1. \A d \in Consumers : Pending(d) = 0
    BY <1>2 DEF Pending, AskingPcs, Unsettled
  <2> DEFINE f == [d \in Consumers |-> Pending(d)]
  <2>2. \A d \in Consumers : f[d] = 0
    BY <2>1
  <2> HIDE DEF f
  <2>3. Total(f, Consumers, MaxBulk) = 0
    BY <1>1, <2>2, TotalZero
  <2>4. AllPending = 0
    BY <2>3 DEF AllPending, f
  <2> QED
    BY <1>1, <2>4 DEF Balance
<1>3. Ahead(c) = {}
  <2>1. Promised \subseteq {c}
    BY DEF Promised, PromisedPcs, Unsettled
  <2>2. Mine(c) \in Int
    BY ShareTypes, HalfRange DEF ShareFacts, Index
  <2>3. ~(Mine(c) < Mine(c))
    BY <2>2
  <2> QED
    BY <2>1, <2>3 DEF Ahead
<1>4. Before(c) = 0
  <2> DEFINE f == [d \in Consumers |-> Pending(d)]
  <2>1. Before(c) = Total(f, {}, MaxBulk)
    BY <1>3 DEF Before
  <2> HIDE DEF f
  <2> QED
    BY <1>1, <2>1, TotalZero
<1> QED
  BY <1>2, <1>4

\* Nobody but a consumer that is not alone moves.
LEMMA OwedStill ==
  ASSUME ShareInv, OwedOK, NEW c \in Consumers, OnlyCaller(c),
         c \notin Unsettled, c \notin Unsettled', UNCHANGED <<tailIndex, counters, owed>>
  PROVE  OwedOK'
<1>1. Unsettled' = Unsettled
  BY DEF Unsettled, OnlyCaller
<1>2. Filled' = Filled /\ Emptied' = Emptied /\ Returned' = Returned
  BY DEF Filled, Emptied, Returned, counters
<1>3. ASSUME NEW d \in Consumers, owed'[d] # 0 PROVE Alone(d)'
  <2>1. Alone(d)
    BY <1>3 DEF OwedOK
  <2>2. cpc'[d] = cpc[d] /\ call'[d] = call[d] /\ owed'[d] = owed[d]
    BY <2>1 DEF Alone, OnlyCaller
  <2>3. Mine(d)' = Mine(d) /\ Read(d)' = Read(d) /\ SeenFilled(d)' = SeenFilled(d)
    BY <2>2 DEF Mine, Read, SeenFilled
  <2> QED
    BY <1>1, <1>2, <2>1, <2>2, <2>3 DEF Alone
<1> QED
  BY <1>3 DEF OwedOK

LEMMA OwedFilled ==
  ASSUME ShareInv, OwedOK, Resting, owed' = owed, Filled <= Filled', Filled' \in Nat
  PROVE  OwedOK'
<1> HIDE DEF Numbers
<1>1. Unsettled' = Unsettled
  BY DEF Unsettled, Resting
<1>2. Emptied' = Emptied /\ Returned' = Returned /\ cpc' = cpc /\ call' = call
  BY DEF Emptied, Returned, counters, Resting
<1>3. ASSUME NEW d \in Consumers, owed'[d] # 0 PROVE Alone(d)'
  <2>1. Alone(d) /\ owed[d] \in Nat
    BY <1>3 DEF OwedOK
  <2>2. Mine(d)' = Mine(d) /\ Read(d)' = Read(d) /\ SeenFilled(d)' = SeenFilled(d)
    BY <1>2 DEF Mine, Read, SeenFilled
  <2>3. Filled \in Nat /\ Emptied \in Nat
    BY ShareTypes, HalfRange DEF ShareFacts, Index, ShareInv
  <2>4. Emptied + owed[d] <= Filled'
    BY <2>1, <2>3 DEF Alone
  <2>5. cpc[d] \in {"overcommit", "examine"} => SeenFilled(d) <= Filled'
    <3> SUFFICES ASSUME cpc[d] \in {"overcommit", "examine"}
                 PROVE  SeenFilled(d) <= Filled'
      OBVIOUS
    <3>1. call[d] \in Calls
      BY DEF ShareInv, ShareTyped, Unsettled
    <3>2. SeenFilled(d) \in Int
      <4>1. SeenFilled(d) \in Index
        BY <3>1, MinusValue, HalfRange DEF Calls, SeenFilled
      <4> QED
        BY <4>1 DEF Index
    <3>3. SeenFilled(d) <= Filled
      BY <2>1 DEF Alone
    <3> QED
      BY <2>3, <3>2, <3>3
  <2> QED
    BY <1>1, <1>2, <2>1, <2>2, <2>4, <2>5 DEF Alone
<1> QED
  BY <1>3 DEF OwedOK

LEMMA SizeValue ==
  ASSUME WindowsFit, ShareInv
  PROVE  SizeApprox = Filled - Emptied /\ Minus(tailIndex, headIndex) = Filled - Emptied
<1> HIDE DEF Numbers
<1>1. /\ tailIndex \in Index /\ headIndex \in Index /\ Filled \in Nat /\ Emptied \in Nat
      /\ Filled < Numbers \div 2 /\ Emptied <= Filled
      /\ Numbers \in Nat /\ Numbers \div 2 \in Nat /\ Numbers = (Numbers \div 2) + (Numbers \div 2)
  BY HalfRange, ShareTypes DEF ShareInv, ShareTyped, ShareFacts, Index, Room, WindowsFit
<1>2. Minus(tailIndex, headIndex) = IF Filled >= Emptied THEN Filled - Emptied
                                    ELSE Filled - Emptied + Numbers
  BY <1>1, HalfRange, SameStart DEF Filled, Emptied
<1>3. Minus(headIndex, tailIndex) = IF Emptied >= Filled THEN Emptied - Filled
                                    ELSE Emptied - Filled + Numbers
  BY <1>1, HalfRange, SameStart DEF Filled, Emptied
<1>4. Less(headIndex, tailIndex) <=> Emptied < Filled
  BY <1>1, <1>3 DEF Less
<1> QED
  BY <1>1, <1>2, <1>4 DEF SizeApprox

\* A step of a consumer within its call: those that are owed something are not overtaken.
LEMMA OwedStep ==
  ASSUME ShareInv, OwedOK, NEW c \in Unsettled, OnlyCaller(c), DOMAIN owed' = Consumers,
         \A d \in Consumers \ {c} : owed'[d] = owed[d],
         owed'[c] \in Nat, owed'[c] # 0 => Unsettled = {c} /\ Alone(c)'
  PROVE  OwedOK'
<1>1. ASSUME NEW d \in Consumers, owed'[d] # 0 PROVE Alone(d)'
  <2>1. CASE d = c
    BY <1>1, <2>1
  <2>2. CASE d # c
    <3>1. Alone(d)
      BY <1>1, <2>2 DEF OwedOK
    <3> QED
      BY <2>2, <3>1 DEF Alone
  <2> QED
    BY <2>1, <2>2
<1>2. \A d \in Consumers : owed'[d] \in Nat
  BY DEF OwedOK
<1> QED
  BY <1>1, <1>2 DEF OwedOK

LEMMA BeginOwed ==
  ASSUME WindowsFit, ShareInv, OwedOK, NEW c \in Consumers, NEW max \in 1 .. MaxBulk,
         BeginDequeue(c, max)
  PROVE  OwedOK'
<1> HIDE DEF Numbers
<1>1. /\ cpc[c] = "idle" /\ cpc'[c] = "overcommit"
      /\ call'[c] = [NoCall EXCEPT !.max = max, !.tail = tailIndex]
      /\ owed' = [d \in Consumers |->
                    IF d = c /\ Unsettled = {} THEN Least(max, SizeApprox) ELSE 0]
      /\ UNCHANGED <<tailIndex, headIndex, dequeueOptimisticCount, dequeueOvercommit>>
  BY DEF BeginDequeue, ConsumerGoto, counters, ShareInv, ShareTyped
<1>2. OnlyCaller(c)
  BY DEF BeginDequeue, ConsumerGoto, OnlyCaller, ShareInv, ShareTyped
<1>3. call'[c].max = max /\ call'[c].tail = tailIndex
  BY <1>1 DEF NoCall
<1>4. Filled' = Filled /\ Emptied' = Emptied /\ SeenFilled(c)' = Filled
  BY <1>1, <1>3 DEF Filled, Emptied, SeenFilled
<1>5. /\ Filled \in Nat /\ Emptied \in Nat /\ Emptied <= Filled /\ max \in Nat
      /\ SizeApprox = Filled - Emptied
  BY HalfRange, ShareTypes, SizeValue DEF ShareInv, ShareFacts, Index
<1>6. PICK n \in Nat : n = Least(max, SizeApprox) /\ n <= max /\ Emptied + n <= Filled
  BY <1>5 DEF Least
<1>7. ASSUME NEW d \in Consumers, owed'[d] # 0 PROVE Alone(d)'
  <2>1. d = c /\ Unsettled = {} /\ owed'[c] = n
    BY <1>1, <1>6, <1>7
  <2>2. Unsettled' = {c}
    BY <1>1, <1>2, <2>1 DEF Unsettled, OnlyCaller
  <2>3. owed'[c] <= call'[c].max
    BY <1>3, <1>6, <2>1
  <2>4. Emptied' + owed'[c] <= Filled' /\ Emptied' + owed'[c] <= SeenFilled(c)'
    BY <1>4, <1>6, <2>1
  <2>5. SeenFilled(c)' <= Filled'
    BY <1>4, <1>5
  <2> QED
    BY <1>1, <2>1, <2>2, <2>3, <2>4, <2>5 DEF Alone
<1> QED
  BY <1>1, <1>6, <1>7 DEF OwedOK

LEMMA LoadOvercommitOwed ==
  ASSUME ShareInv, OwedOK, NEW c \in Consumers, LoadOvercommit(c)
  PROVE  OwedOK'
<1>1. /\ cpc[c] = "overcommit" /\ cpc'[c] = "examine" /\ owed' = owed
      /\ call'[c] = [call[c] EXCEPT !.overcommit = dequeueOvercommit]
      /\ UNCHANGED <<tailIndex, headIndex, dequeueOptimisticCount, dequeueOvercommit>>
  BY DEF LoadOvercommit, ConsumerGoto, counters, ShareInv, ShareTyped
<1>2. OnlyCaller(c)
  BY DEF LoadOvercommit, ConsumerGoto, OnlyCaller, ShareInv, ShareTyped
<1>3. c \in Unsettled /\ call[c] \in Calls
  BY <1>1 DEF Unsettled, ShareInv, ShareTyped
<1>4. call'[c].max = call[c].max /\ call'[c].tail = call[c].tail
      /\ call'[c].overcommit = dequeueOvercommit
  BY <1>1, <1>3 DEF Calls
<1>5. /\ Filled' = Filled /\ Emptied' = Emptied /\ SeenFilled(c)' = SeenFilled(c)
      /\ Returned' = Returned /\ Read(c)' = Returned
  BY <1>1, <1>4 DEF Filled, Emptied, SeenFilled, Returned, Read
<1>6. ASSUME owed'[c] # 0 PROVE Unsettled = {c} /\ Alone(c)'
  <2>1. Alone(c)
    BY <1>1, <1>6 DEF OwedOK
  <2>2. Unsettled' = {c}
    BY <1>1, <1>2, <2>1 DEF Unsettled, OnlyCaller, Alone
  <2> QED
    BY <1>1, <1>4, <1>5, <2>1, <2>2 DEF Alone
<1> QED
  BY <1>1, <1>2, <1>3, <1>6, OwedStep DEF OwedOK

\* One that is alone sees what there was when it looked.
LEMMA AloneLeft ==
  ASSUME WindowsFit, ShareInv, NEW c \in Consumers, Alone(c), cpc[c] = "examine",
         owed[c] \in Nat \ {0},
         NEW left, left = Minus(call[c].tail, Minus(dequeueOptimisticCount, call[c].overcommit))
  PROVE  left \in Nat /\ owed[c] <= left /\ Less(0, left)
<1> HIDE DEF Numbers
<1>1. /\ call[c].tail \in Index /\ call[c].overcommit \in Index
      /\ dequeueOptimisticCount \in Index /\ headIndex \in Index
      /\ StartIndex \in Index /\ StartOvercommit \in Index
  <2>1. call[c] \in Calls
    BY DEF ShareInv, ShareTyped, Unsettled
  <2> QED
    BY <2>1, HalfRange DEF Calls, ShareInv, ShareTyped
<1>2. /\ Filled \in Nat /\ Emptied \in Nat /\ Returned \in Nat /\ SeenFilled(c) \in Nat
      /\ Numbers \in Nat /\ Numbers \div 2 \in Nat /\ Filled < Numbers \div 2
      /\ Numbers \div 2 <= Numbers
  <2>1. SeenFilled(c) \in Index
    BY <1>1, MinusValue DEF SeenFilled
  <2> QED
    BY <2>1, HalfRange, ShareTypes DEF ShareInv, ShareFacts, Index, Room, WindowsFit
<1>3. Promises = Returned + Emptied /\ Read(c) = Returned
  BY AloneBalance DEF Alone, AskingPcs
<1>4. Minus(dequeueOptimisticCount, call[c].overcommit) = Plus(StartIndex, Emptied)
  <2>1. Read(c) <= Promises /\ Promises - Read(c) = Emptied
    BY <1>2, <1>3
  <2>2. /\ Read(c) = Minus(call[c].overcommit, StartOvercommit)
        /\ Promises = Minus(dequeueOptimisticCount, Plus(StartIndex, StartOvercommit))
    BY DEF Read, Promises
  <2> QED
    BY <1>1, <2>1, <2>2, Unwrapped
<1>5. Plus(StartIndex, Emptied) = headIndex
  BY <1>1, NumberValue DEF Number, Element, Emptied
<1>6. left = IF SeenFilled(c) >= Emptied THEN SeenFilled(c) - Emptied
             ELSE SeenFilled(c) - Emptied + Numbers
  <2>1. left = Minus(call[c].tail, headIndex)
    BY <1>4, <1>5
  <2> QED
    BY <1>1, <2>1, SameStart DEF SeenFilled, Emptied
<1>7. Emptied + owed[c] <= SeenFilled(c) /\ SeenFilled(c) <= Filled
  BY DEF Alone
<1>8. left = SeenFilled(c) - Emptied /\ left \in Nat /\ owed[c] <= left /\ left # 0
      /\ left <= (Numbers \div 2) - 1
  BY <1>2, <1>6, <1>7
<1>9. left \in Index
  BY <1>2, <1>8 DEF Index
<1> QED
  BY <1>2, <1>8, <1>9, LessValue

LEMMA ExamineOwed ==
  ASSUME WindowsFit, ShareInv, OwedOK, NEW c \in Consumers, Examine(c)
  PROVE  OwedOK' /\ (cpc'[c] = "idle" => owed[c] = 0)
<1> HIDE DEF Numbers
<1>1. PICK left : left = Minus(call[c].tail, Minus(dequeueOptimisticCount, call[c].overcommit))
  OBVIOUS
<1>2. /\ cpc[c] = "examine"
      /\ UNCHANGED <<tailIndex, headIndex, dequeueOptimisticCount, dequeueOvercommit>>
      /\ \/ /\ Less(0, left) /\ cpc'[c] = "promise" /\ owed' = owed
            /\ call'[c] = [call[c] EXCEPT !.desired = Least(left, call[c].max)]
         \/ ~Less(0, left) /\ cpc'[c] = "idle" /\ owed' = [owed EXCEPT ![c] = 0]
  BY <1>1 DEF Examine, ReturnFrom, ConsumerGoto, ShareInv, ShareTyped, counters
<1>3. OnlyCaller(c)
  BY DEF Examine, ReturnFrom, ConsumerGoto, ShareInv, ShareTyped, OnlyCaller
<1>4. c \in Unsettled /\ call[c] \in Calls /\ call[c].max \in Nat
  BY <1>2, HalfRange DEF Unsettled, ShareInv, ShareTyped, Calls
<1>5. ASSUME owed[c] # 0
      PROVE  Alone(c) /\ left \in Nat /\ owed[c] <= left /\ Less(0, left)
  <2>1. Alone(c) /\ owed[c] \in Nat \ {0}
    BY <1>5 DEF OwedOK
  <2> QED
    BY <1>1, <1>2, <2>1, AloneLeft
<1>6. ASSUME owed'[c] # 0 PROVE Unsettled = {c} /\ Alone(c)'
  <2>1. owed[c] # 0 /\ cpc'[c] = "promise" /\ owed' = owed /\ owed[c] \in Nat
        /\ call'[c] = [call[c] EXCEPT !.desired = Least(left, call[c].max)]
    BY <1>2, <1>6 DEF OwedOK
  <2>2. Alone(c) /\ left \in Nat /\ owed[c] <= left
    BY <1>5, <2>1
  <2>3. Unsettled' = {c}
    BY <1>2, <1>3, <2>1, <2>2 DEF Unsettled, OnlyCaller, Alone
  <2>4. call'[c].max = call[c].max /\ call'[c].overcommit = call[c].overcommit
        /\ call'[c].desired = Least(left, call[c].max)
    BY <1>4, <2>1 DEF Calls
  <2>5. owed[c] <= Least(left, call[c].max)
    BY <1>4, <2>1, <2>2 DEF Alone, Least
  <2>6. Filled' = Filled /\ Emptied' = Emptied /\ Returned' = Returned /\ Read(c)' = Read(c)
    BY <1>2, <2>4 DEF Filled, Emptied, Returned, Read
  <2> QED
    BY <1>2, <2>1, <2>2, <2>3, <2>4, <2>5, <2>6 DEF Alone
<1>7. DOMAIN owed' = Consumers /\ owed'[c] \in Nat /\ \A d \in Consumers \ {c} : owed'[d] = owed[d]
  BY <1>2 DEF OwedOK
<1>8. OwedOK'
  BY <1>3, <1>4, <1>6, <1>7, OwedStep
<1> QED
  BY <1>2, <1>5, <1>8

LEMMA PromiseOwed ==
  ASSUME WindowsFit, ShareInv, OwedOK, NEW c \in Consumers, Promise(c)
  PROVE  OwedOK'
<1> HIDE DEF Numbers
<1>1. /\ cpc[c] = "promise" /\ cpc'[c] = "reload" /\ owed' = owed
      /\ call'[c] = [call[c] EXCEPT !.mine = dequeueOptimisticCount]
      /\ UNCHANGED <<tailIndex, headIndex, dequeueOvercommit>>
  BY DEF Promise, ConsumerGoto, ShareInv, ShareTyped
<1>2. OnlyCaller(c)
  BY DEF Promise, ConsumerGoto, ShareInv, ShareTyped, OnlyCaller
<1>3. c \in Unsettled /\ call[c] \in Calls
  BY <1>1 DEF Unsettled, ShareInv, ShareTyped
<1>4. /\ call'[c].max = call[c].max /\ call'[c].desired = call[c].desired
      /\ call'[c].mine = dequeueOptimisticCount /\ call'[c].overcommit = call[c].overcommit
  BY <1>1, <1>3 DEF Calls
<1>5. /\ Filled' = Filled /\ Emptied' = Emptied /\ Returned' = Returned
      /\ Read(c)' = Read(c) /\ Mine(c)' = Promises
  BY <1>1, <1>4 DEF Filled, Emptied, Returned, Read, Mine, Promises
<1>6. ASSUME owed'[c] # 0 PROVE Unsettled = {c} /\ Alone(c)'
  <2>1. Alone(c)
    BY <1>1, <1>6 DEF OwedOK
  <2>2. Unsettled' = {c}
    BY <1>1, <1>2, <2>1 DEF Unsettled, OnlyCaller, Alone
  <2>3. Promises = Returned + Emptied
    BY <1>1, <2>1, AloneBalance DEF Alone, AskingPcs
  <2> QED
    BY <1>1, <1>4, <1>5, <2>1, <2>2, <2>3 DEF Alone
<1> QED
  BY <1>1, <1>2, <1>3, <1>6, OwedStep DEF OwedOK

LEMMA ReloadOwed ==
  ASSUME WindowsFit, ShareInv, OwedOK, NEW c \in Consumers, Reload(c)
  PROVE  OwedOK'
<1> HIDE DEF Numbers
<1>1. PICK actual, n :
        /\ actual = Minus(tailIndex, Minus(call[c].mine, call[c].overcommit))
        /\ n = IF Less(0, actual) THEN Least(actual, call[c].desired) ELSE 0
        /\ cpc[c] = "reload" /\ owed' = owed
        /\ cpc'[c] = IF n < call[c].desired THEN "giveBack" ELSE "claim"
        /\ call'[c] = [call[c] EXCEPT !.tail = tailIndex, !.count = n]
        /\ UNCHANGED <<tailIndex, headIndex, dequeueOptimisticCount, dequeueOvercommit>>
  BY DEF Reload, ConsumerGoto, ShareInv, ShareTyped, counters
<1>2. OnlyCaller(c)
  BY DEF Reload, ConsumerGoto, ShareInv, ShareTyped, OnlyCaller
<1>3. c \in Unsettled /\ call[c] \in Calls /\ call[c].desired \in Nat
  BY <1>1, HalfRange DEF Unsettled, ShareInv, ShareTyped, Calls
<1>4. cpc'[c] \in {"giveBack", "claim"}
  BY <1>1
<1>5. call'[c].max = call[c].max /\ call'[c].count = n
  BY <1>1, <1>3 DEF Calls
<1>6. Filled' = Filled /\ Emptied' = Emptied
  BY <1>1 DEF Filled, Emptied
<1>7. ASSUME owed'[c] # 0 PROVE Unsettled = {c} /\ Alone(c)'
  <2>1. Alone(c) /\ owed[c] \in Nat \ {0}
    BY <1>1, <1>7 DEF OwedOK
  <2>2. Unsettled' = {c}
    BY <1>2, <1>4, <2>1 DEF Unsettled, OnlyCaller, Alone
  <2>3. /\ Mine(c) = Returned + Emptied /\ Read(c) = Returned
        /\ owed[c] <= call[c].desired /\ Emptied + owed[c] <= Filled
    BY <1>1, <2>1 DEF Alone
  <2>4. Before(c) = 0
    BY <2>1, AloneBalance DEF Alone
  <2>5. Filled \in Nat /\ Emptied \in Nat /\ Returned \in Nat
    BY HalfRange, ShareTypes DEF ShareInv, ShareFacts, Index
  <2>6. Mine(c) - Read(c) = Emptied /\ Emptied + Before(c) <= Mine(c) - Read(c)
    BY <2>3, <2>4, <2>5
  <2>7. /\ Less(0, actual) <=> Mine(c) - Read(c) < Filled
        /\ Less(0, actual) => actual = Filled - (Mine(c) - Read(c))
    BY <1>1, <2>6, ActualValue
  <2>8. Less(0, actual) /\ actual = Filled - Emptied
    BY <2>1, <2>3, <2>5, <2>6, <2>7
  <2>9. owed[c] <= n
    BY <1>1, <1>3, <2>1, <2>3, <2>5, <2>8 DEF Least
  <2> QED
    BY <1>1, <1>4, <1>5, <1>6, <2>1, <2>2, <2>9 DEF Alone
<1> QED
  BY <1>1, <1>2, <1>3, <1>7, OwedStep DEF OwedOK

LEMMA GiveBackOwed ==
  ASSUME WindowsFit, ShareInv, OwedOK, NEW c \in Consumers, GiveBack(c)
  PROVE  OwedOK' /\ (cpc'[c] = "idle" => owed[c] = 0)
<1> HIDE DEF Numbers
<1>1. /\ cpc[c] = "giveBack" /\ UNCHANGED <<tailIndex, headIndex>>
      /\ \/ call[c].count = 0 /\ cpc'[c] = "idle" /\ owed' = [owed EXCEPT ![c] = 0]
         \/ cpc'[c] = "claim" /\ call' = call /\ owed' = owed
  BY DEF GiveBack, ReturnFrom, ConsumerGoto, ShareInv, ShareTyped
<1>2. OnlyCaller(c)
  BY DEF GiveBack, ReturnFrom, ConsumerGoto, ShareInv, ShareTyped, OnlyCaller
<1>3. c \in Unsettled
  BY <1>1 DEF Unsettled
<1>4. ASSUME owed[c] # 0 PROVE Alone(c) /\ owed[c] <= call[c].count /\ owed[c] \in Nat
  BY <1>1, <1>4 DEF OwedOK, Alone
<1>5. ASSUME owed'[c] # 0 PROVE Unsettled = {c} /\ Alone(c)'
  <2>1. owed[c] # 0 /\ cpc'[c] = "claim" /\ call' = call /\ owed' = owed
    BY <1>1, <1>5 DEF OwedOK
  <2>2. Alone(c)
    BY <1>4, <2>1
  <2>3. Unsettled' = {c}
    BY <1>2, <2>1, <2>2 DEF Unsettled, OnlyCaller, Alone
  <2>4. Filled' = Filled /\ Emptied' = Emptied
    BY <1>1 DEF Filled, Emptied
  <2> QED
    BY <1>1, <2>1, <2>2, <2>3, <2>4 DEF Alone
<1>6. DOMAIN owed' = Consumers /\ owed'[c] \in Nat /\ \A d \in Consumers \ {c} : owed'[d] = owed[d]
  BY <1>1 DEF OwedOK
<1>7. OwedOK'
  BY <1>2, <1>3, <1>5, <1>6, OwedStep
<1>8. cpc'[c] = "idle" => owed[c] = 0
  <2> SUFFICES ASSUME cpc'[c] = "idle", owed[c] # 0 PROVE FALSE
    OBVIOUS
  <2>1. owed[c] <= call[c].count /\ owed[c] \in Nat /\ call[c].count = 0
    BY <1>1, <1>4
  <2> QED
    BY <2>1
<1> QED
  BY <1>7, <1>8

LEMMA ClaimOwed ==
  ASSUME WindowsFit, ShareInv, OwedOK, NEW c \in Consumers, Claim(c)
  PROVE  /\ OwedOK'
         /\ call[c].count \in 1 .. call[c].max /\ owed[c] <= call[c].count
         /\ call[c].count <= Filled - Emptied
<1> HIDE DEF Numbers
<1>1. cpc[c] = "claim" /\ owed' = [owed EXCEPT ![c] = 0]
  BY DEF Claim
<1>2. OnlyCaller(c)
  BY DEF Claim, ConsumerGoto, ShareInv, ShareTyped, OnlyCaller
<1>3. c \in Unsettled /\ call[c] \in Calls /\ call[c].count \in 1 .. call[c].desired
  BY <1>1 DEF Unsettled, ShareInv, ShareTyped
<1>4. /\ call[c].max \in Nat /\ call[c].desired \in Nat /\ call[c].count \in Nat \ {0}
      /\ call[c].desired <= call[c].max
  BY <1>1, <1>3, HalfRange DEF Calls, ShareInv, ShareTyped, PromisedPcs
<1>5. OwedOK'
  BY <1>1, <1>2, <1>3, OwedStep DEF OwedOK
<1>6. owed[c] <= call[c].count
  BY <1>1, <1>4 DEF OwedOK, Alone
<1>7. call[c].count <= Filled - Emptied
  <2>1. Emptied + Before(c) + call[c].count <= Filled
    BY <1>1, <1>4 DEF ShareInv, Covers, Cover
  <2>2. Filled \in Nat /\ Emptied \in Nat /\ Before(c) \in Nat
    BY HalfRange, ShareTypes DEF ShareInv, ShareFacts, Index
  <2> QED
    BY <1>4, <2>1, <2>2
<1> QED
  BY <1>3, <1>4, <1>5, <1>6, <1>7

LEMMA SharingOwed ==
  ASSUME WindowsFit, ShareInv, OwedOK, NEW c \in Consumers, Sharing(c)
  PROVE  OwedOK'
  BY LoadOvercommitOwed, ExamineOwed, PromiseOwed, ReloadOwed, GiveBackOwed, ClaimOwed
     DEF Sharing

LEMMA OwedInit ==
  ASSUME ClaimInit
  PROVE  OwedOK
  BY DEF ClaimInit, OwedOK

==============================================================================
